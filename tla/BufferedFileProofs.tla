------------------------- MODULE BufferedFileProofs -------------------------
(***************************************************************************)
(* Proofs about BufferedFile, for every size of the cache, every kind and  *)
(* content of file, every sequence of calls, and every short, interrupted  *)
(* or failing system call: TypeOK, CrashesBeyond, KernelInStep, and that   *)
(* the file implements PlainFile.  The last two are about programs that    *)
(* give up after a refused call (~Retries): see the README for what        *)
(* happens otherwise.                                                      *)
(***************************************************************************)
EXTENDS BufferedFile, SequenceTheorems, TLAPS

(* Arithmetic, and pieces of files.                                        *)

(* The smaller of two numbers, as the code's std::min takes it.            *)
LEMMA MinIs ==
  ASSUME NEW a \in Int, NEW b \in Int
  PROVE  Min({a, b}) = IF a <= b THEN a ELSE b
<1>. DEFINE P(x) == x \in {a, b} /\ \A y \in {a, b} : x <= y
            m == IF a <= b THEN a ELSE b
<1>1. P(m)
  OBVIOUS
<1>2. \A x : P(x) => x = m
  OBVIOUS
<1>3. Min({a, b}) = CHOOSE x : P(x)
  BY DEF Min
<1>. HIDE DEF P, m
<1>4. Min({a, b}) = m
  BY <1>1, <1>2, <1>3
<1>. QED BY <1>4 DEF m

(* The larger of two numbers.                                              *)
LEMMA MaxIs ==
  ASSUME NEW a \in Int, NEW b \in Int
  PROVE  Max({a, b}) = IF a >= b THEN a ELSE b
<1>. DEFINE P(x) == x \in {a, b} /\ \A y \in {a, b} : x >= y
            m == IF a >= b THEN a ELSE b
<1>1. P(m)
  OBVIOUS
<1>2. \A x : P(x) => x = m
  OBVIOUS
<1>3. Max({a, b}) = CHOOSE x : P(x)
  BY DEF Max
<1>. HIDE DEF P, m
<1>4. Max({a, b}) = m
  BY <1>1, <1>2, <1>3
<1>. QED BY <1>4 DEF m

(* n elements of a sequence from the i-th on.                              *)
LEMMA SliceIs ==
  ASSUME NEW s \in Seq(Nat), NEW i \in Nat, NEW n \in Nat, n = 0 \/ i + n <= Len(s)
  PROVE  /\ SubSeq(s, i + 1, i + n) \in Seq(Nat) /\ Len(SubSeq(s, i + 1, i + n)) = n
         /\ \A k \in 1..n : SubSeq(s, i + 1, i + n)[k] = s[i + k]
<1>1. i + 1 \in Int /\ i + n \in Int
  OBVIOUS
<1>2. \A k \in (i + 1)..(i + n) : s[k] \in Nat
  <2>. SUFFICES ASSUME NEW k \in (i + 1)..(i + n) PROVE s[k] \in Nat
    OBVIOUS
  <2>1. k \in 1..Len(s)
    OBVIOUS
  <2>. QED BY <2>1, ElementOfSeq
<1>3. /\ SubSeq(s, i + 1, i + n) \in Seq(Nat)
      /\ Len(SubSeq(s, i + 1, i + n)) = IF i + 1 <= i + n THEN (i + n) - (i + 1) + 1 ELSE 0
      /\ \A k \in 1..((i + n) - (i + 1) + 1) : SubSeq(s, i + 1, i + n)[k] = s[(i + 1) + k - 1]
  BY <1>1, <1>2, SubSeqProperties
<1>. QED BY <1>3

(* A function on 1..n is a sequence of n elements.                         *)
LEMMA MadeSeq ==
  ASSUME NEW n \in Nat, NEW g, g \in [1..n -> Nat]
  PROVE  g \in Seq(Nat) /\ Len(g) = n
OBVIOUS

(* What a write of the bytes b at offset at makes of the file s: its       *)
(* length, and each of its bytes.                                          *)
LEMMA OverwrittenIs ==
  ASSUME NEW s \in Seq(Nat), NEW at \in Nat, NEW b \in Seq(Nat)
  PROVE  /\ Overwritten(s, at, b) \in Seq(Nat)
         /\ Len(Overwritten(s, at, b)) = IF b # << >> /\ at + Len(b) > Len(s)
                                         THEN at + Len(b) ELSE Len(s)
         /\ \A i \in 1..Len(Overwritten(s, at, b)) : 
              Overwritten(s, at, b)[i] = IF at < i /\ i <= at + Len(b) THEN b[i - at]
                                         ELSE IF i <= Len(s) THEN s[i] ELSE 0
<1>. DEFINE end == at + Len(b)
            size == IF b # << >> THEN Max({end, Len(s)}) ELSE Len(s)
            e(i) == IF at < i /\ i <= end THEN b[i - at]
                    ELSE IF i <= Len(s) THEN s[i] ELSE 0
            g == [i \in 1..size |-> e(i)]
<1>1. Overwritten(s, at, b) = g
  BY DEF Overwritten
<1>2. Len(b) \in Nat /\ Len(s) \in Nat /\ end \in Nat
  OBVIOUS
<1>3. size \in Nat /\ size = IF b # << >> /\ end > Len(s) THEN end ELSE Len(s)
  <2>1. Max({end, Len(s)}) = IF end >= Len(s) THEN end ELSE Len(s)
    <3>. HIDE DEF end
    <3>1. end \in Int /\ Len(s) \in Int
      BY <1>2
    <3>. QED BY <3>1, MaxIs
  <2>. QED BY <1>2, <2>1
<1>4. ASSUME NEW i \in 1..size
      PROVE  e(i) \in Nat
  <2>1. CASE at < i /\ i <= end
    <3>1. i - at \in 1..Len(b)
      BY <1>3, <2>1
    <3>. QED BY <2>1, <3>1, ElementOfSeq
  <2>2. CASE ~(at < i /\ i <= end) /\ i <= Len(s)
    <3>1. i \in 1..Len(s)
      BY <1>2, <1>3, <2>2
    <3>. QED BY <2>2, <3>1, ElementOfSeq
  <2>. QED BY <2>1, <2>2
<1>. HIDE DEF size, e
<1>5. g \in [1..size -> Nat]
  BY <1>4
<1>6. g \in Seq(Nat) /\ Len(g) = size /\ \A i \in 1..size : g[i] = e(i)
  <2>1. \A i \in 1..size : g[i] = e(i)
    OBVIOUS
  <2>. HIDE DEF g
  <2>. QED BY <1>3, <1>5, <2>1, MadeSeq
<1>. HIDE DEF g
<1>7. /\ Overwritten(s, at, b) \in Seq(Nat) /\ Len(Overwritten(s, at, b)) = size
      /\ \A i \in 1..size : Overwritten(s, at, b)[i] = e(i)
  BY <1>1, <1>6
<1>. QED BY <1>3, <1>7 DEF e

-----------------------------------------------------------------------------
(* The invariant.                                                          *)

(* The contents of a file, of the cache, and of a buffer.                  *)
Bytes == Seq(Nat)

(* The file and its descriptor.                                            *)
OsType == [mode : {"r", "w", "rw"}, seekable : BOOLEAN, mappable : BOOLEAN,
           data : Bytes, kpos : Nat]

(* An io61_file.                                                           *)
FType == [map : {"none", "mapped", "failed"}, tag : Nat, pos : Nat, end : Nat,
          cbuf : Bytes, dirty : BOOLEAN, positioned : BOOLEAN]

(* What a call can be.                                                     *)
Ops == {"idle", "closed", "flush", "close", "seek"} \cup Reads \cup Writes \cup Positioned

(* A call.                                                                 *)
CallType == [op : Ops, want : Nat, bytes : Bytes, off : Nat, got : Bytes,
             flushed : Nat, filled : BOOLEAN, failed : BOOLEAN]

(* The state is made of such records, and no call has crashed.             *)
RecordsInv == os \in OsType /\ f \in FType /\ call \in CallType /\ crash = "none"

(* What every file may be asked for, besides reading and writing.          *)
Common == {"idle", "closed", "flush", "close"}

(* A file that is read is not written, and nothing lies beyond a mapping.  *)
ReadInv ==
  os.mode = "r" =>
    /\ call.op \in Common \cup Reads \cup {"seek"}
    /\ ~f.dirty /\ ~f.positioned
    /\ call.op \in Reads => f.map # "none"
    /\ f.map = "mapped" => os.mappable
    /\ f.map # "failed" => f.cbuf = << >>
    /\ os.mappable => f.map # "failed" /\ call.op # "flush"
    /\ os.mappable /\ call.op # "closed" => f.pos <= Len(os.data)
    /\ os.mappable /\ call.op = "seek" => call.off <= Len(os.data)
    /\ f.map = "mapped" /\ call.op # "closed" => f.tag = 0 /\ f.end = Len(os.data)

(* A file that is written is never mapped, has its position at the end of  *)
(* the cache, and is dirty when the cache holds something.                 *)
WriteInv ==
  os.mode = "w" =>
    /\ call.op \in Common \cup Writes \cup {"seek"}
    /\ f.map = "none" /\ ~f.positioned /\ f.pos = f.end
    /\ f.dirty <=> f.cbuf # << >>

(* A file in positioned mode has, once io61_pfill has been called, a       *)
(* window that lies within the file or is empty, and a call that has       *)
(* filled the window finds its offset there, unless it is behind the end.  *)
PositionedInv ==
  os.mode = "rw" =>
    /\ call.op \in Common \cup Positioned
    /\ f.map = "none"
    /\ f.dirty => f.positioned
    /\ f.positioned => f.end <= Len(os.data) \/ f.cbuf = << >>
    /\ call.op \in Positioned /\ call.filled =>
         /\ f.positioned /\ f.tag <= call.off
         /\ call.off <= f.end \/ call.off > Len(os.data)
    /\ call.op = "pwrite" => call.want = Len(call.bytes)

(* The cache holds the bytes from the tag to the end, no more than its     *)
(* size, and the position of a file that is not in positioned mode lies    *)
(* between them.                                                           *)
CacheInv ==
  /\ f.map # "mapped" => f.end = f.tag + Len(f.cbuf) /\ Len(f.cbuf) <= CbufSize
  /\ os.mode # "rw" => f.tag <= f.pos /\ f.pos <= f.end

(* No more is flushed than the cache holds, and nothing unless a flush is  *)
(* going on.                                                               *)
FlushInv ==
  /\ call.flushed <= Len(f.cbuf)
  /\ call.flushed # 0 => Flushing

(* The inductive invariant of a file that is not mapped, and of one that   *)
(* is as long as nothing behind its end is asked for.                      *)
FileInv == RecordsInv /\ ReadInv /\ WriteInv /\ PositionedInv /\ CacheInv /\ FlushInv

(* A file that has just been opened is in order.                           *)
LEMMA InitFile ==
  ASSUME NEW k \in Kinds, Opened(k), k.mode = "r" /\ k.mappable => k.at <= Len(k.data)
  PROVE  FileInv
<1>1. Opened(k)
  OBVIOUS
<1>2. /\ k \in [mode : {"r", "w", "rw"}, seekable : BOOLEAN, mappable : BOOLEAN,
                data : Seq(Nat), at : Nat]
  BY BufferedFileAssumption
<1>. DEFINE at == IF k.seekable THEN k.at ELSE 0
<1>3. at \in Nat /\ (k.mode = "r" /\ k.mappable => at <= Len(k.data))
  BY <1>2
<1>4. /\ os = [mode |-> k.mode, seekable |-> k.seekable, mappable |-> k.mappable,
               data |-> k.data, kpos |-> at]
      /\ f = [map |-> "none", tag |-> at, pos |-> at, end |-> at,
              cbuf |-> << >>, dirty |-> FALSE, positioned |-> FALSE]
      /\ call = NoCall /\ crash = "none"
  BY <1>1 DEF Opened
<1>. HIDE DEF at
<1>5. RecordsInv
  <2>1. os \in OsType
    BY <1>2, <1>3, <1>4 DEF OsType, Bytes
  <2>2. f \in FType
    BY <1>3, <1>4 DEF FType, Bytes
  <2>3. call \in CallType
    BY <1>4 DEF NoCall, CallType, Ops, Bytes
  <2>. QED BY <1>4, <2>1, <2>2, <2>3 DEF RecordsInv
<1>6. ReadInv /\ WriteInv /\ PositionedInv
  BY <1>3, <1>4 DEF ReadInv, WriteInv, PositionedInv, NoCall, Common, Reads, Writes, Positioned
<1>7. CacheInv /\ FlushInv
  BY <1>3, <1>4, BufferedFileAssumption DEF CacheInv, FlushInv, NoCall
<1>. QED BY <1>5, <1>6, <1>7 DEF FileInv

(* The types of the fields.                                                *)
LEMMA FileTypes ==
  ASSUME RecordsInv
  PROVE  /\ os.mode \in {"r", "w", "rw"} /\ os.data \in Bytes /\ os.kpos \in Nat
         /\ f.map \in {"none", "mapped", "failed"}
         /\ f.tag \in Nat /\ f.pos \in Nat /\ f.end \in Nat /\ f.cbuf \in Bytes
         /\ call.op \in Ops /\ call.want \in Nat /\ call.bytes \in Bytes /\ call.off \in Nat
         /\ call.got \in Bytes /\ call.flushed \in Nat
         /\ Len(os.data) \in Nat /\ Len(f.cbuf) \in Nat /\ Len(call.bytes) \in Nat
         /\ Len(call.got) \in Nat /\ CbufSize \in Nat \ {0}
<1>1. /\ os.mode \in {"r", "w", "rw"} /\ os.data \in Bytes /\ os.kpos \in Nat
      /\ f.map \in {"none", "mapped", "failed"}
      /\ f.tag \in Nat /\ f.pos \in Nat /\ f.end \in Nat /\ f.cbuf \in Bytes
      /\ call.op \in Ops /\ call.want \in Nat /\ call.bytes \in Bytes /\ call.off \in Nat
      /\ call.got \in Bytes /\ call.flushed \in Nat
  BY DEF RecordsInv, OsType, FType, CallType
<1>2. \A s \in Bytes : Len(s) \in Nat
  BY DEF Bytes
<1>3. CbufSize \in Nat \ {0}
  BY BufferedFileAssumption
<1>. QED BY <1>1, <1>2, <1>3

(* io61_check_assertions never fails. *)
LEMMA AlwaysSane ==
  ASSUME FileInv, Ready, os.mode # "rw"
  PROVE  Sane(f) /\ (os.mode = "r" => Sane(Mapped(f)))
<1>1. RecordsInv /\ ReadInv /\ WriteInv /\ CacheInv
  BY DEF FileInv
<1>2. f \in FType
  BY <1>1 DEF RecordsInv
<1>3. Sane(f)
  <2>1. f.tag <= f.pos /\ f.pos <= f.end /\ (os.mode = "w" => f.pos = f.end)
    BY <1>1 DEF CacheInv, WriteInv
  <2>2. ASSUME f.map = "failed"
        PROVE  f.end - f.pos <= CbufSize
    <3>1. f.end = f.tag + Len(f.cbuf) /\ Len(f.cbuf) <= CbufSize
      BY <1>1, <2>2 DEF CacheInv
    <3>. DEFINE l == Len(f.cbuf)
    <3>2. l \in Nat /\ f.tag \in Nat /\ f.pos \in Nat /\ CbufSize \in Nat
      BY <1>1, FileTypes
    <3>3. f.end = f.tag + l /\ l <= CbufSize /\ f.tag <= f.pos
      BY <2>1, <3>1
    <3>. HIDE DEF l
    <3>. QED BY <3>2, <3>3
  <2>. QED BY <2>1, <2>2 DEF Sane
<1>4. ASSUME os.mode = "r"
      PROVE  Sane(Mapped(f))
  <2>1. CASE f.map # "none"
    BY <1>3, <2>1 DEF Mapped
  <2>2. CASE f.map = "none" /\ os.mappable
    <3>1. /\ Mapped(f).tag = 0 /\ Mapped(f).pos = f.pos /\ Mapped(f).end = Len(os.data)
          /\ Mapped(f).map = "mapped"
      BY <1>2, <2>2 DEF Mapped, FType
    <3>. QED BY <1>1, <1>4, <2>2, <3>1, FileTypes DEF Sane, ReadInv, Ready
  <2>3. CASE f.map = "none" /\ ~os.mappable
    <3>1. /\ Mapped(f).tag = f.tag /\ Mapped(f).pos = f.pos /\ Mapped(f).end = f.end
      BY <1>2, <2>3 DEF Mapped, FType
    <3>2. f.end = f.tag + Len(f.cbuf) /\ Len(f.cbuf) <= CbufSize /\ f.tag <= f.pos /\ f.pos <= f.end
      BY <1>1, <1>4, <2>3 DEF CacheInv
    <3>3. f.end - f.pos <= CbufSize
      <4>. DEFINE l == Len(f.cbuf)
      <4>1. l \in Nat /\ f.tag \in Nat /\ f.pos \in Nat /\ CbufSize \in Nat
        BY <1>1, FileTypes
      <4>2. f.end = f.tag + l /\ l <= CbufSize /\ f.tag <= f.pos
        BY <3>2
      <4>. HIDE DEF l
      <4>. QED BY <4>1, <4>2
    <3>. QED BY <1>4, <3>1, <3>2, <3>3 DEF Sane
  <2>. QED BY <2>1, <2>2, <2>3
<1>. QED BY <1>3, <1>4

-----------------------------------------------------------------------------
(* Calls begin and end.                                                    *)

(* The parts of the invariant, by name.                                    *)
LEMMA Parts ==
  ASSUME FileInv
  PROVE  /\ RecordsInv /\ ReadInv /\ WriteInv /\ PositionedInv /\ CacheInv /\ FlushInv
         /\ os \in OsType /\ f \in FType /\ call \in CallType /\ crash = "none"
BY DEF FileInv, RecordsInv

(* What a new call is.                                                     *)
LEMMA NewCall ==
  ASSUME NEW op \in Ops, NEW n \in Nat, NEW b \in Bytes, NEW off \in Nat, NEW c,
         c = [op |-> op, want |-> n, bytes |-> b, off |-> off, got |-> << >>,
              flushed |-> 0, filled |-> FALSE, failed |-> FALSE]
  PROVE  /\ c \in CallType /\ c.op = op /\ c.want = n /\ c.bytes = b /\ c.off = off
         /\ c.got = << >> /\ c.flushed = 0 /\ ~c.filled /\ ~c.failed
<1>1. << >> \in Bytes
  BY DEF Bytes
<1>. QED BY <1>1 DEF CallType

(* How many bytes a copy moves when there are enough, or when the size has *)
(* wrapped around.                                                         *)
LEMMA MovedIs ==
  ASSUME NEW left \in Int, call.want \in Nat
  PROVE  /\ Moved(left) = IF left < 0 \/ call.want <= left THEN call.want ELSE left
         /\ Max({0, left}) = IF left < 0 THEN 0 ELSE left
<1>1. call.want \in Int /\ 0 \in Int
  OBVIOUS
<1>2. Min({call.want, left}) = IF call.want <= left THEN call.want ELSE left
  BY <1>1, MinIs
<1>3. Max({0, left}) = IF 0 >= left THEN 0 ELSE left
  BY <1>1, MaxIs
<1>. QED BY <1>2, <1>3 DEF Moved

(* Beginning a call changes nothing that matters; a read maps the file.    *)
LEMMA StartReadKeeps ==
  ASSUME FileInv, NEW op \in Reads, NEW n \in Nat, StartRead(op, n)
  PROVE  FileInv' /\ (KernelInStep => KernelInStep')
<1>1. Ready /\ os.mode = "r" /\ Sane(f) /\ Sane(Mapped(f))
  BY AlwaysSane DEF StartRead
<1>2. call' = [NoCall EXCEPT !.op = op, !.want = n] /\ f' = Mapped(f) /\ os' = os /\ crash' = crash
  BY <1>1 DEF StartRead, Begin
<1>3. /\ call' \in CallType /\ call'.op = op /\ call'.flushed = 0
  <2>1. call' = [op |-> op, want |-> n, bytes |-> << >>, off |-> 0, got |-> << >>,
                 flushed |-> 0, filled |-> FALSE, failed |-> FALSE]
    BY <1>2 DEF NoCall
  <2>2. op \in Ops /\ << >> \in Bytes
    BY DEF Ops, Bytes
  <2>. QED BY <2>1, <2>2, NewCall
<1>4. RecordsInv /\ ReadInv /\ CacheInv /\ f \in FType /\ os \in OsType /\ crash = "none"
  BY Parts
<1>5. CASE f.map # "none"
  <2>1. f' = f
    BY <1>2, <1>5 DEF Mapped
  <2>2. RecordsInv'
    BY <1>2, <1>3, <1>4, <2>1 DEF RecordsInv, OsType, FType, CallType
  <2>3. ReadInv' /\ WriteInv' /\ PositionedInv' /\ CacheInv'
    BY <1>1, <1>2, <1>3, <1>4, <1>5, <2>1 DEF ReadInv, WriteInv, PositionedInv, CacheInv, Ready, Reads
  <2>4. FlushInv'
    BY <1>3, <1>4, <2>1, FileTypes DEF FlushInv
  <2>5. KernelInStep => KernelInStep'
    BY <1>1, <1>2, <2>1 DEF KernelInStep, Ready
  <2>. QED BY <2>2, <2>3, <2>4, <2>5 DEF FileInv
<1>6. CASE f.map = "none" /\ os.mappable
  <2>1. /\ f' \in FType /\ f'.map = "mapped" /\ f'.tag = 0 /\ f'.end = Len(os.data) /\ f'.pos = f.pos
        /\ f'.cbuf = f.cbuf /\ f'.dirty = f.dirty /\ f'.positioned = f.positioned
    BY <1>2, <1>4, <1>6, FileTypes DEF Mapped, FType
  <2>2. RecordsInv'
    BY <1>2, <1>3, <1>4, <2>1 DEF RecordsInv, OsType, FType, CallType
  <2>3. f.cbuf = << >> /\ f.pos <= Len(os.data)
    BY <1>1, <1>4, <1>6 DEF ReadInv, Ready
  <2>4. ReadInv' /\ WriteInv' /\ PositionedInv'
    BY <1>1, <1>2, <1>3, <1>4, <1>6, <2>1, <2>3
       DEF ReadInv, WriteInv, PositionedInv, Ready, Reads
  <2>5. CacheInv'
    BY <1>1, <1>2, <1>4, <2>1, <2>3, FileTypes DEF CacheInv
  <2>6. FlushInv'
    BY <1>3, <1>4, <2>1, FileTypes DEF FlushInv
  <2>7. KernelInStep'
    BY <2>1 DEF KernelInStep
  <2>. QED BY <2>2, <2>4, <2>5, <2>6, <2>7 DEF FileInv
<1>7. CASE f.map = "none" /\ ~os.mappable
  <2>1. /\ f' \in FType /\ f'.map = "failed" /\ f'.tag = f.tag /\ f'.end = f.end /\ f'.pos = f.pos
        /\ f'.cbuf = f.cbuf /\ f'.dirty = f.dirty /\ f'.positioned = f.positioned
    BY <1>2, <1>4, <1>7, FileTypes DEF Mapped, FType
  <2>2. RecordsInv'
    BY <1>2, <1>3, <1>4, <2>1 DEF RecordsInv, OsType, FType, CallType
  <2>3. ReadInv' /\ WriteInv' /\ PositionedInv'
    BY <1>1, <1>2, <1>3, <1>4, <1>7, <2>1
       DEF ReadInv, WriteInv, PositionedInv, Ready, Reads
  <2>4. CacheInv'
    BY <1>1, <1>2, <1>4, <1>7, <2>1 DEF CacheInv
  <2>5. FlushInv'
    BY <1>3, <1>4, <2>1, FileTypes DEF FlushInv
  <2>6. KernelInStep => KernelInStep'
    BY <1>1, <1>2, <1>7, <2>1 DEF KernelInStep, Ready
  <2>. QED BY <2>2, <2>3, <2>4, <2>5, <2>6 DEF FileInv
<1>. QED BY <1>4, <1>5, <1>6, <1>7 DEF FType

(* The call that is in progress next, while the file stays as it is.       *)
NextCall ==
  /\ call' \in CallType /\ call'.flushed = 0
  /\ os.mode = "r" => /\ call'.op \in Common \cup {"seek"}
                      /\ call'.op = "seek" /\ os.mappable => call'.off <= Len(os.data)
                      /\ os.mappable => call'.op # "flush"
  /\ os.mode = "w" => call'.op \in Common \cup Writes \cup {"seek"}
  /\ os.mode = "rw" => /\ call'.op \in Common \cup Positioned
                       /\ call'.op \in Positioned =>
                            /\ ~call'.filled
                            /\ call'.op = "pwrite" => call'.want = Len(call'.bytes)

(* While the file stays as it is and a call begins or ends, the invariant  *)
(* stays; what io61_flush_dirty has written must not be forgotten unless   *)
(* it has failed.                                                          *)
LEMMA OnlyCall ==
  ASSUME FileInv, call.op # "closed", UNCHANGED <<os, f, crash>>, NextCall
  PROVE  /\ FileInv'
         /\ KernelInStep /\ (os.mode = "w" => (call'.failed \/ (call.flushed = 0 /\ ~call.failed)))
              => KernelInStep'
<1>1. /\ RecordsInv /\ ReadInv /\ WriteInv /\ PositionedInv /\ CacheInv
      /\ call' \in CallType /\ call'.flushed = 0
  BY Parts DEF NextCall
<1>e. os' = os /\ f' = f /\ crash' = crash
  OBVIOUS
<1>2. RecordsInv'
  BY <1>1, <1>e DEF RecordsInv, OsType, FType, CallType
<1>3. ReadInv'
  BY <1>1, <1>e DEF ReadInv, NextCall, Common, Reads
<1>4. WriteInv'
  BY <1>1, <1>e DEF WriteInv, NextCall, Common, Writes
<1>5. PositionedInv'
  BY <1>1, <1>e DEF PositionedInv, NextCall, Common, Positioned
<1>6. CacheInv'
  BY <1>1, <1>e DEF CacheInv
<1>7. FlushInv'
  BY <1>1, <1>e, FileTypes DEF FlushInv
<1>8. ASSUME KernelInStep, os.mode = "w" => (call'.failed \/ (call.flushed = 0 /\ ~call.failed))
      PROVE  KernelInStep'
  <2>1. CASE os.mode = "w"
    BY <1>1, <1>e, <1>8, <2>1 DEF KernelInStep
  <2>2. CASE os.mode = "r"
    BY <1>1, <1>e, <1>8, <2>2 DEF KernelInStep
  <2>3. CASE os.mode = "rw"
    BY <1>1, <1>e, <1>8, <2>3 DEF KernelInStep
  <2>. QED BY <1>1, <2>1, <2>2, <2>3, FileTypes
<1>. QED BY <1>2, <1>3, <1>4, <1>5, <1>6, <1>7, <1>8 DEF FileInv

(* A new call, after one that was not refused.                             *)
Accepted == os.mode = "w" => ~call.failed

(* A call that begins.                                                     *)
LEMMA StartKeeps ==
  ASSUME FileInv, Ready, UNCHANGED <<os, f, crash>>, NextCall
  PROVE  FileInv' /\ (KernelInStep /\ Accepted => KernelInStep')
<1>1. call.flushed = 0 /\ call.op # "closed"
  BY Parts DEF FlushInv, Flushing, Ready, Writes, Missed, Positioned
<1>. QED BY <1>1, OnlyCall DEF Accepted

(* A call ends without moving the file.                                    *)
LEMMA EndKeeps ==
  ASSUME FileInv, UNCHANGED <<os, f, crash>>, call' \in CallType, call'.flushed = 0,
         call'.op \in {"idle", "closed"}, call.op # "closed",
         os.mode = "w" => (call'.failed \/ (call.flushed = 0 /\ ~call.failed))
  PROVE  FileInv' /\ (KernelInStep => KernelInStep')
<1>1. NextCall
  BY DEF NextCall, Common, Positioned
<1>. QED BY <1>1, OnlyCall

(* io61_write and io61_writec begin.                                       *)
LEMMA StartWriteKeeps ==
  ASSUME FileInv, NEW op \in Writes, NEW b \in Bytes, StartWrite(op, b)
  PROVE  FileInv' /\ (KernelInStep /\ Accepted => KernelInStep')
<1>1. Ready /\ os.mode = "w" /\ Sane(f)
  BY AlwaysSane DEF StartWrite
<1>2. call' = [NoCall EXCEPT !.op = op, !.bytes = b, !.want = Len(b)] /\ UNCHANGED <<os, f, crash>>
  BY <1>1 DEF StartWrite, Begin
<1>3. NextCall
  <2>1. call' = [op |-> op, want |-> Len(b), bytes |-> b, off |-> 0, got |-> << >>,
                 flushed |-> 0, filled |-> FALSE, failed |-> FALSE]
    BY <1>2 DEF NoCall
  <2>2. op \in Ops /\ Len(b) \in Nat
    BY DEF Ops, Bytes
  <2>3. call' \in CallType /\ call'.op = op /\ call'.flushed = 0
    BY <2>1, <2>2, NewCall
  <2>. QED BY <1>1, <2>3 DEF NextCall
<1>. QED BY <1>1, <1>2, <1>3, StartKeeps

(* io61_flush and io61_close begin; a mapped file is not flushed.          *)
LEMMA StartFlushKeeps ==
  ASSUME FileInv, NEW op \in {"flush", "close"}, StartFlush(op),
         op = "flush" => ~os.mappable
  PROVE  FileInv' /\ (KernelInStep /\ Accepted => KernelInStep')
<1>1. Ready /\ call' = [NoCall EXCEPT !.op = op] /\ UNCHANGED <<os, f, crash>>
  BY DEF StartFlush, Begin
<1>2. NextCall
  <2>1. call' = [op |-> op, want |-> 0, bytes |-> << >>, off |-> 0, got |-> << >>,
                 flushed |-> 0, filled |-> FALSE, failed |-> FALSE]
    BY <1>1 DEF NoCall
  <2>2. op \in Ops /\ << >> \in Bytes
    BY DEF Ops, Bytes
  <2>3. call' \in CallType /\ call'.op = op /\ call'.flushed = 0
    BY <2>1, <2>2, NewCall
  <2>. QED BY <2>3 DEF NextCall, Common, Positioned
<1>. QED BY <1>1, <1>2, StartKeeps

(* io61_seek begins, within a file that can be mapped.                     *)
LEMMA StartSeekKeeps ==
  ASSUME FileInv, NEW off \in Nat, StartSeek(off), os.mode # "rw",
         os.mode = "r" /\ os.mappable => off <= Len(os.data)
  PROVE  FileInv' /\ (KernelInStep /\ Accepted => KernelInStep')
<1>1. Ready /\ Sane(f)
  BY AlwaysSane DEF StartSeek
<1>2. call' = [NoCall EXCEPT !.op = "seek", !.off = off] /\ UNCHANGED <<os, f, crash>>
  BY <1>1 DEF StartSeek, Begin
<1>3. NextCall
  <2>1. call' = [op |-> "seek", want |-> 0, bytes |-> << >>, off |-> off, got |-> << >>,
                 flushed |-> 0, filled |-> FALSE, failed |-> FALSE]
    BY <1>2 DEF NoCall
  <2>2. "seek" \in Ops /\ << >> \in Bytes
    BY DEF Ops, Bytes
  <2>3. call' \in CallType /\ call'.op = "seek" /\ call'.off = off /\ call'.flushed = 0
    BY <2>1, <2>2, NewCall
  <2>. QED BY <2>3 DEF NextCall
<1>. QED BY <1>1, <1>2, <1>3, StartKeeps

(* io61_pread and io61_pwrite begin.                                       *)
LEMMA StartPositionedKeeps ==
  ASSUME FileInv, NEW op \in Positioned, NEW n \in Nat, NEW b \in Bytes, NEW off \in Nat,
         StartPositioned(op, n, b, off), op = "pwrite" => n = Len(b)
  PROVE  FileInv' /\ (KernelInStep /\ Accepted => KernelInStep')
<1>1. /\ Ready /\ os.mode = "rw" /\ UNCHANGED <<os, f, crash>>
      /\ call' = [NoCall EXCEPT !.op = op, !.want = n, !.bytes = b, !.off = off]
  BY DEF StartPositioned, Begin
<1>2. NextCall
  <2>1. call' = [op |-> op, want |-> n, bytes |-> b, off |-> off, got |-> << >>,
                 flushed |-> 0, filled |-> FALSE, failed |-> FALSE]
    BY <1>1 DEF NoCall
  <2>2. op \in Ops
    BY DEF Ops
  <2>3. /\ call' \in CallType /\ call'.op = op /\ call'.want = n /\ call'.bytes = b
        /\ call'.off = off /\ call'.flushed = 0 /\ ~call'.filled
    BY <2>1, <2>2, NewCall
  <2>. QED BY <1>1, <2>3 DEF NextCall
<1>. QED BY <1>1, <1>2, StartKeeps

-----------------------------------------------------------------------------
(* Reading.                                                                *)

(* Reading from the mapping ends within it: the subtraction of io61_read   *)
(* does not wrap around.                                                   *)
LEMMA ReadMappedKeeps ==
  ASSUME FileInv, ReadMapped
  PROVE  FileInv' /\ (KernelInStep => KernelInStep')
<1>1. /\ RecordsInv /\ ReadInv /\ WriteInv /\ PositionedInv /\ CacheInv /\ FlushInv
      /\ os \in OsType /\ f \in FType /\ call \in CallType /\ crash = "none"
  BY Parts
<1>2. call.op \in Reads /\ f.map = "mapped"
  BY DEF ReadMapped
<1>3. os.mode = "r"
  BY <1>1, <1>2, FileTypes DEF WriteInv, PositionedInv
<1>4. /\ f.cbuf = << >> /\ f.end = Len(os.data) /\ f.pos <= Len(os.data) /\ os.mappable
      /\ f.tag = 0 /\ ~f.dirty /\ ~f.positioned
  BY <1>1, <1>2, <1>3 DEF ReadInv, Reads
<1>5. call.flushed = 0
  BY <1>1, <1>4 DEF FlushInv, Flushing
<1>. DEFINE x == IF call.op = "readc" THEN Max({0, f.end - f.pos}) ELSE Len(os.data) - f.pos
            n == Moved(x)
            got == SubSeq(os.data, f.pos + 1, f.pos + n)
<1>6. x = Len(os.data) - f.pos
  <2>. DEFINE l == Len(os.data) - f.pos
  <2>1. l \in Int /\ l >= 0 /\ call.want \in Nat
    BY <1>1, <1>4, FileTypes
  <2>2. Max({0, l}) = l
    <3>. HIDE DEF l
    <3>. QED BY <2>1, MovedIs
  <2>. QED BY <1>4, <2>2
<1>7. n \in Nat /\ f.pos + n <= Len(os.data) /\ ~(n > Max({0, x}))
  <2>. HIDE DEF x
  <2>1. x \in Nat /\ call.want \in Nat /\ f.pos \in Nat /\ Len(os.data) \in Nat
    BY <1>1, <1>4, <1>6, FileTypes
  <2>2. (n = IF call.want <= x THEN call.want ELSE x) /\ Max({0, x}) = x
    BY <2>1, MovedIs
  <2>. HIDE DEF n
  <2>. QED BY <1>6, <2>1, <2>2
<1>8. /\ f' = [f EXCEPT !.pos = @ + n] /\ os' = os /\ crash' = crash
      /\ call' = [[call EXCEPT !.got = got] EXCEPT !.op = "idle"]
  BY <1>7 DEF ReadMapped, End
<1>. HIDE DEF n, x
<1>9. got \in Bytes
  BY <1>1, <1>7, FileTypes, SliceIs DEF Bytes
<1>. HIDE DEF got
<1>10. /\ call' \in CallType /\ call'.op = "idle" /\ call'.flushed = 0
  <2>1. call' = [call EXCEPT !.op = "idle", !.got = got, !.failed = call.failed]
    BY <1>1, <1>8 DEF CallType
  <2>2. call.failed \in BOOLEAN /\ "idle" \in Ops
    BY <1>1 DEF CallType, Ops
  <2>. QED BY <1>1, <1>5, <1>9, <2>1, <2>2 DEF CallType
<1>11. /\ f' \in FType /\ f'.map = "mapped" /\ f'.tag = 0 /\ f'.end = f.end
       /\ f'.pos <= Len(os.data) /\ f'.cbuf = << >> /\ ~f'.dirty /\ ~f'.positioned
  <2>0. f.pos \in Nat
    BY <1>1 DEF FType
  <2>1. f.pos + n \in Nat
    BY <1>7, <2>0
  <2>. QED BY <1>1, <1>2, <1>4, <1>7, <1>8, <2>1 DEF FType
<1>12. RecordsInv'
  BY <1>1, <1>8, <1>10, <1>11 DEF RecordsInv, OsType, FType, CallType
<1>13. ReadInv'
  BY <1>3, <1>4, <1>8, <1>10, <1>11 DEF ReadInv, Common, Reads
<1>14. WriteInv' /\ PositionedInv'
  BY <1>3, <1>8 DEF WriteInv, PositionedInv
<1>15. CacheInv'
  <2>1. f'.tag <= f'.pos
    BY <1>11 DEF FType
  <2>. QED BY <1>4, <1>11, <2>1 DEF CacheInv
<1>16. FlushInv'
  BY <1>10, <1>11 DEF FlushInv
<1>17. KernelInStep'
  BY <1>11 DEF KernelInStep
<1>. QED BY <1>12, <1>13, <1>14, <1>15, <1>16, <1>17 DEF FileInv

(* What a read finds that has a cache.                                     *)
LEMMA ReadsCacheHas ==
  ASSUME FileInv, ReadsCache
  PROVE  /\ os.mode = "r" /\ ~os.mappable /\ ~f.dirty /\ ~f.positioned /\ f.map = "failed"
         /\ f.end = f.tag + Len(f.cbuf) /\ Len(f.cbuf) <= CbufSize
         /\ f.tag <= f.pos /\ f.pos <= f.end /\ call.flushed = 0
         /\ call.op \in Reads /\ call.op \in Ops /\ call.failed \in BOOLEAN
<1>1. /\ RecordsInv /\ ReadInv /\ WriteInv /\ PositionedInv /\ CacheInv /\ FlushInv
      /\ os \in OsType /\ f \in FType /\ call \in CallType /\ crash = "none"
  BY Parts
<1>2. call.op \in Reads /\ f.map = "failed"
  BY DEF ReadsCache
<1>3. os.mode = "r"
  BY <1>1, <1>2, FileTypes DEF WriteInv, PositionedInv
<1>4. ~os.mappable /\ ~f.dirty /\ ~f.positioned
  BY <1>1, <1>2, <1>3 DEF ReadInv
<1>5. call.flushed = 0
  BY <1>1, <1>4 DEF FlushInv, Flushing
<1>. QED BY <1>1, <1>2, <1>3, <1>4, <1>5 DEF CacheInv, CallType

(* A step of a read from the cache that leaves the cache in order.         *)
LEMMA ReadsCacheKeeps ==
  ASSUME FileInv, ReadsCache, crash' = crash,
         os' \in OsType, os'.mode = os.mode, os'.mappable = os.mappable,
         f' \in FType, f'.map = "failed", ~f'.dirty, ~f'.positioned,
         f'.end = f'.tag + Len(f'.cbuf), Len(f'.cbuf) <= CbufSize,
         f'.tag <= f'.pos, f'.pos <= f'.end,
         call' \in CallType, call'.op \in Reads \cup {"idle"}, call'.flushed = 0
  PROVE  FileInv' /\ (os'.kpos = f'.end => KernelInStep')
<1>1. os.mode = "r" /\ ~os.mappable
  BY ReadsCacheHas
<1>2. RecordsInv'
  BY Parts DEF RecordsInv, OsType, FType, CallType
<1>3. ReadInv'
  BY <1>1 DEF ReadInv, Common, Reads
<1>4. WriteInv' /\ PositionedInv'
  BY <1>1 DEF WriteInv, PositionedInv
<1>5. CacheInv'
  BY <1>1 DEF CacheInv
<1>6. FlushInv'
  <2>1. Len(f'.cbuf) \in Nat
    BY DEF FType, Bytes
  <2>. QED BY <2>1 DEF FlushInv
<1>7. os'.kpos = f'.end => KernelInStep'
  BY <1>1 DEF KernelInStep
<1>. QED BY <1>2, <1>3, <1>4, <1>5, <1>6, <1>7 DEF FileInv

(* A file that is read has its kernel position at the end of the cache.    *)
LEMMA KernelAtEnd ==
  ASSUME FileInv, ReadsCache, KernelInStep
  PROVE  os.kpos = f.end
BY ReadsCacheHas DEF KernelInStep, Reads

(* Reading from the cache moves the position no further than its end.      *)
LEMMA CopyCachedKeeps ==
  ASSUME FileInv, CopyCached
  PROVE  FileInv' /\ (KernelInStep => KernelInStep')
<1>1. /\ RecordsInv /\ os \in OsType /\ f \in FType /\ call \in CallType
  BY Parts
<1>2. ReadsCache /\ Lacking > 0 /\ f.pos < f.end
  BY DEF CopyCached
<1>. DEFINE n == Min({f.end - f.pos, Lacking})
            from == f.pos - f.tag
            more == SubSeq(f.cbuf, from + 1, from + n)
<1>3. n \in Nat /\ f.pos + n <= f.end /\ from \in Nat /\ from + n <= Len(f.cbuf)
  <2>1. /\ Lacking \in Int /\ f.end - f.pos \in Int /\ f.pos \in Nat /\ f.end \in Nat /\ f.tag \in Nat
        /\ Len(f.cbuf) \in Nat
    <3>. DEFINE g == Len(call.got)
    <3>1. /\ call.want \in Nat /\ g \in Nat /\ f.pos \in Nat /\ f.end \in Nat /\ f.tag \in Nat
          /\ Len(f.cbuf) \in Nat
      BY <1>1, FileTypes
    <3>2. Lacking = call.want - g
      BY DEF Lacking
    <3>. HIDE DEF g
    <3>. QED BY <3>1, <3>2
  <2>2. n = IF f.end - f.pos <= Lacking THEN f.end - f.pos ELSE Lacking
    <3>1. Lacking \in Int /\ f.end - f.pos \in Int
      BY <2>1
    <3>. QED BY <3>1, MinIs
  <2>3. f.tag <= f.pos /\ f.end = f.tag + Len(f.cbuf)
    BY <1>2, ReadsCacheHas
  <2>. HIDE DEF n
  <2>4. n \in Nat /\ n <= f.end - f.pos
    BY <1>2, <2>1, <2>2
  <2>. DEFINE l == Len(f.cbuf)
  <2>5. /\ l \in Nat /\ f.tag \in Nat /\ f.pos \in Nat /\ f.end = f.tag + l
        /\ f.tag <= f.pos /\ n \in Nat /\ n <= f.end - f.pos
    BY <2>1, <2>3, <2>4
  <2>. HIDE DEF l
  <2>6. f.pos + n <= f.end /\ f.pos - f.tag \in Nat /\ (f.pos - f.tag) + n <= l
    BY <2>5
  <2>. QED BY <2>5, <2>6 DEF l
<1>4. /\ f' = [f EXCEPT !.pos = @ + n] /\ os' = os /\ crash' = crash
      /\ call' = [call EXCEPT !.got = @ \o more]
  BY DEF CopyCached
<1>. HIDE DEF n, from
<1>5. more \in Bytes
  BY <1>1, <1>3, FileTypes, SliceIs DEF Bytes
<1>. HIDE DEF more
<1>6. /\ call' \in CallType /\ call'.op = call.op /\ call'.flushed = 0
  <2>. DEFINE x == call.got \o more
  <2>1. x \in Bytes
    BY <1>1, <1>5, FileTypes DEF Bytes
  <2>2. call' = [call EXCEPT !.got = x]
    BY <1>4
  <2>3. call.flushed = 0 /\ call \in CallType
    BY <1>1, <1>2, ReadsCacheHas
  <2>. HIDE DEF x
  <2>. QED BY <2>1, <2>2, <2>3 DEF CallType
<1>7. /\ f' \in FType /\ f'.map = f.map /\ f'.tag = f.tag /\ f'.end = f.end
      /\ f'.pos = f.pos + n /\ f'.cbuf = f.cbuf /\ f'.dirty = f.dirty /\ f'.positioned = f.positioned
  <2>0. f.pos \in Nat
    BY <1>1, FileTypes
  <2>1. f.pos + n \in Nat
    BY <1>3, <2>0
  <2>. QED BY <1>1, <1>4, <2>1 DEF FType
<1>8. f'.tag <= f'.pos /\ f'.pos <= f'.end
  <2>1. f.tag <= f.pos /\ f.tag \in Nat /\ f.pos \in Nat
    BY <1>1, <1>2, FileTypes, ReadsCacheHas
  <2>. QED BY <1>3, <1>7, <2>1
<1>9. FileInv' /\ (os'.kpos = f'.end => KernelInStep')
  BY <1>1, <1>2, <1>4, <1>6, <1>7, <1>8, ReadsCacheHas, ReadsCacheKeeps
<1>. QED BY <1>2, <1>4, <1>7, <1>9, KernelAtEnd

(* An empty cache.                                                         *)
LEMMA EmptiedIs ==
  ASSUME NEW g \in FType, NEW at \in Nat
  PROVE  /\ Emptied(g, at) \in FType /\ Emptied(g, at).tag = at /\ Emptied(g, at).pos = at
         /\ Emptied(g, at).end = at /\ Emptied(g, at).cbuf = << >>
         /\ Emptied(g, at).map = g.map /\ Emptied(g, at).dirty = g.dirty
         /\ Emptied(g, at).positioned = g.positioned
<1>1. << >> \in Bytes
  BY DEF Bytes
<1>. QED BY <1>1 DEF Emptied, FType

(* io61_fill, where the system call gives n bytes.                         *)
LEMMA FillGetsKeeps ==
  ASSUME FileInv, ReadsCache, NEW n \in Nat, n <= CbufSize, n = 0 \/ os.kpos + n <= Len(os.data),
         FillGets(n)
  PROVE  FileInv' /\ (KernelInStep => KernelInStep')
<1>1. /\ RecordsInv /\ os \in OsType /\ f \in FType /\ call \in CallType
  BY Parts
<1>. DEFINE bytes == SubSeq(os.data, os.kpos + 1, os.kpos + n)
            g == Emptied(f, f.end)
<1>2. /\ f' = Filled(f, bytes) /\ os' = [os EXCEPT !.kpos = @ + n] /\ crash' = crash
      /\ \/ call' = [call EXCEPT !.op = "idle"]
         \/ call' = call
  BY DEF FillGets, End
<1>3. bytes \in Bytes /\ Len(bytes) = n
  <2>1. os.data \in Seq(Nat) /\ os.kpos \in Nat
    BY <1>1 DEF OsType, Bytes
  <2>2. bytes \in Seq(Nat) /\ Len(bytes) = n
    BY <2>1, SliceIs
  <2>. QED BY <2>2 DEF Bytes
<1>4. /\ g \in FType /\ g.tag = f.end /\ g.pos = f.end /\ g.end = f.end
      /\ g.map = f.map /\ g.dirty = f.dirty /\ g.positioned = f.positioned
  BY <1>1, FileTypes, EmptiedIs
<1>. HIDE DEF bytes, g
<1>5. /\ f' \in FType /\ f'.map = f.map /\ f'.tag = f.end /\ f'.pos = f.end
      /\ f'.end = f.end + n /\ f'.cbuf = bytes /\ f'.dirty = f.dirty /\ f'.positioned = f.positioned
  <2>. DEFINE e == f.end + n
  <2>1. f' = [g EXCEPT !.cbuf = bytes, !.end = e]
    <3>1. g.end = f.end
      BY <1>4
    <3>. QED BY <1>2, <1>3, <3>1 DEF Filled, g
  <2>2. e \in Nat
    BY <1>1, FileTypes
  <2>3. bytes \in Bytes
    BY <1>3
  <2>. HIDE DEF e
  <2>4. /\ f' \in FType /\ f'.map = g.map /\ f'.tag = g.tag /\ f'.pos = g.pos
        /\ f'.end = e /\ f'.cbuf = bytes /\ f'.dirty = g.dirty /\ f'.positioned = g.positioned
    BY <1>4, <2>1, <2>2, <2>3 DEF FType
  <2>. QED BY <1>4, <2>4 DEF e
<1>6. /\ os' \in OsType /\ os'.mode = os.mode /\ os'.mappable = os.mappable
      /\ os'.kpos = os.kpos + n
  <2>0. os.kpos \in Nat
    BY <1>1, FileTypes
  <2>1. os.kpos + n \in Nat
    BY <2>0
  <2>. QED BY <1>1, <1>2, <2>1 DEF OsType
<1>7. /\ call' \in CallType /\ call'.op \in Reads \cup {"idle"} /\ call'.flushed = 0
  BY <1>1, <1>2, ReadsCacheHas DEF CallType, Ops
<1>8. f'.tag <= f'.pos /\ f'.pos <= f'.end /\ f'.end = f'.tag + Len(f'.cbuf) /\ Len(f'.cbuf) <= CbufSize
  <2>1. f.end \in Nat
    BY <1>1, FileTypes
  <2>. QED BY <1>3, <1>5, <2>1
<1>9. FileInv' /\ (os'.kpos = f'.end => KernelInStep')
  BY <1>2, <1>5, <1>6, <1>7, <1>8, ReadsCacheHas, ReadsCacheKeeps
<1>. QED BY <1>5, <1>6, <1>9, KernelAtEnd

(* io61_fill, whatever the system call gives.                              *)
LEMMA FillKeeps ==
  ASSUME FileInv, Fill
  PROVE  FileInv' /\ (KernelInStep => KernelInStep')
<1>1. RecordsInv /\ ReadsCache
  BY Parts DEF Fill, Filling
<1>. DEFINE x == Len(os.data) - os.kpos
            left == Max({0, x})
<1>2. x \in Int /\ Len(os.data) \in Nat /\ os.kpos \in Nat /\ CbufSize \in Nat
  BY <1>1, FileTypes
<1>. HIDE DEF x
<1>3. left = IF 0 >= x THEN 0 ELSE x
  BY <1>2, MaxIs
<1>. HIDE DEF left
<1>4. CASE \E n \in 1..Min({left, CbufSize}) : FillGets(n)
  <2>1. PICK n \in 1..Min({left, CbufSize}) : FillGets(n)
    BY <1>4
  <2>2. left \in Int
    BY <1>2, <1>3
  <2>3. Min({left, CbufSize}) = IF left <= CbufSize THEN left ELSE CbufSize
    BY <1>2, <2>2, MinIs
  <2>4. n \in Nat /\ n <= CbufSize /\ os.kpos + n <= Len(os.data)
    BY <1>2, <1>3, <2>2, <2>3 DEF x
  <2>. QED BY <1>1, <2>1, <2>4, FillGetsKeeps
<1>5. CASE FillGets(0)
  BY <1>1, <1>2, <1>5, FillGetsKeeps
<1>. QED BY <1>4, <1>5 DEF Fill, left, x

(* io61_fill, where the system call is interrupted or fails.               *)
LEMMA FillAgainKeeps ==
  ASSUME FileInv, FillAgain
  PROVE  FileInv' /\ (KernelInStep => KernelInStep')
<1>1. /\ RecordsInv /\ ReadsCache /\ os \in OsType /\ f \in FType /\ call \in CallType
  BY Parts DEF FillAgain, Filling
<1>2. PICK e \in ReadFaults : FillFails(e)
  BY DEF FillAgain
<1>3. /\ f' = Emptied(f, f.end) /\ os' = os /\ crash' = crash
      /\ \/ call' = [[call EXCEPT !.failed = TRUE] EXCEPT !.op = "idle"]
         \/ call' = call
  BY <1>2 DEF FillFails, End
<1>4. /\ f' \in FType /\ f'.map = f.map /\ f'.tag = f.end /\ f'.pos = f.end /\ f'.end = f.end
      /\ f'.cbuf = << >> /\ f'.dirty = f.dirty /\ f'.positioned = f.positioned /\ f.end \in Nat
  BY <1>1, <1>3, FileTypes, EmptiedIs
<1>5. /\ call' \in CallType /\ call'.op \in Reads \cup {"idle"} /\ call'.flushed = 0
  BY <1>1, <1>3, ReadsCacheHas DEF CallType, Ops
<1>6. /\ f'.tag <= f'.pos /\ f'.pos <= f'.end /\ f'.end = f'.tag + Len(f'.cbuf)
      /\ Len(f'.cbuf) <= CbufSize
  BY <1>1, <1>4, FileTypes
<1>7. FileInv' /\ (os'.kpos = f'.end => KernelInStep')
  BY <1>1, <1>3, <1>4, <1>5, <1>6, ReadsCacheHas, ReadsCacheKeeps
<1>. QED BY <1>1, <1>3, <1>4, <1>7, KernelAtEnd

(* A read returns with everything it was asked for.                        *)
LEMMA ReadReturnsKeeps ==
  ASSUME FileInv, ReadReturns
  PROVE  FileInv' /\ (KernelInStep => KernelInStep')
<1>1. ReadsCache /\ UNCHANGED <<os, f, crash>> /\ call' = [call EXCEPT !.op = "idle"]
  BY DEF ReadReturns, End
<1>2. call' \in CallType /\ call'.op = "idle" /\ call'.flushed = 0
  BY <1>1, Parts, ReadsCacheHas DEF CallType, Ops
<1>. QED BY <1>1, <1>2, EndKeeps, ReadsCacheHas DEF Reads

-----------------------------------------------------------------------------
(* Writing and flushing.                                                   *)

(* A step that leaves a file that is written in order.                     *)
LEMMA WritesKeeps ==
  ASSUME FileInv, os.mode = "w", crash' = crash, os' \in OsType, os'.mode = "w",
         f' \in FType, f'.map = "none", ~f'.positioned, f'.pos = f'.end,
         f'.end = f'.tag + Len(f'.cbuf), Len(f'.cbuf) <= CbufSize,
         f'.dirty <=> f'.cbuf # << >>,
         call' \in CallType, call'.op \in Common \cup Writes \cup {"seek"},
         call'.flushed <= Len(f'.cbuf), call'.flushed # 0 => Flushing'
  PROVE  /\ FileInv'
         /\ call'.op = "closed" \/ call'.failed \/ os'.kpos = f'.tag + call'.flushed
              => KernelInStep'
<1>1. RecordsInv'
  BY Parts DEF RecordsInv, OsType, FType, CallType
<1>2. ReadInv' /\ WriteInv' /\ PositionedInv'
  BY DEF ReadInv, WriteInv, PositionedInv
<1>3. CacheInv'
  <2>1. f'.tag <= f'.pos /\ f'.pos <= f'.end
    <3>1. f'.tag \in Nat /\ f'.pos \in Nat /\ f'.end \in Nat /\ Len(f'.cbuf) \in Nat
      BY DEF FType, Bytes
    <3>. QED BY <3>1
  <2>. QED BY <2>1 DEF CacheInv
<1>4. FlushInv'
  BY DEF FlushInv
<1>5. call'.op = "closed" \/ call'.failed \/ os'.kpos = f'.tag + call'.flushed => KernelInStep'
  BY DEF KernelInStep
<1>. QED BY <1>1, <1>2, <1>3, <1>4, <1>5 DEF FileInv

(* What a write finds.                                                     *)
LEMMA WritesHas ==
  ASSUME FileInv, os.mode = "w"
  PROVE  /\ f.map = "none" /\ ~f.positioned /\ f.pos = f.end
         /\ f.end = f.tag + Len(f.cbuf) /\ Len(f.cbuf) <= CbufSize
         /\ (f.dirty <=> f.cbuf # << >>)
         /\ f.tag \in Nat /\ f.pos \in Nat /\ Len(f.cbuf) \in Nat /\ f.cbuf \in Seq(Nat)
         /\ call.flushed \in Nat /\ call.flushed <= Len(f.cbuf)
         /\ KernelInStep /\ call.op # "closed" /\ ~call.failed => os.kpos = f.tag + call.flushed
<1>1. RecordsInv /\ WriteInv /\ CacheInv /\ FlushInv
  BY Parts
<1>2. f.map = "none" /\ ~f.positioned /\ f.pos = f.end /\ (f.dirty <=> f.cbuf # << >>)
  BY <1>1 DEF WriteInv
<1>3. /\ f.end = f.tag + Len(f.cbuf) /\ Len(f.cbuf) <= CbufSize /\ call.flushed <= Len(f.cbuf)
  BY <1>1, <1>2 DEF CacheInv, FlushInv
<1>4. /\ f.tag \in Nat /\ f.pos \in Nat /\ Len(f.cbuf) \in Nat /\ f.cbuf \in Seq(Nat)
      /\ call.flushed \in Nat
  BY <1>1, FileTypes DEF Bytes
<1>5. KernelInStep /\ call.op # "closed" /\ ~call.failed => os.kpos = f.tag + call.flushed
  BY <1>2 DEF KernelInStep
<1>. QED BY <1>2, <1>3, <1>4, <1>5

(* Copying into the cache fills it no further than its size, and makes it  *)
(* dirty.                                                                  *)
LEMMA CopyInKeeps ==
  ASSUME FileInv, CopyIn
  PROVE  FileInv' /\ (KernelInStep => KernelInStep')
<1>1. /\ RecordsInv /\ ReadInv /\ PositionedInv /\ FlushInv /\ os \in OsType /\ f \in FType
      /\ call \in CallType
  BY Parts
<1>2. call.op \in Writes /\ call.bytes # << >> /\ ~Full(f)
  BY DEF CopyIn
<1>3. os.mode = "w"
  BY <1>1, <1>2, FileTypes DEF ReadInv, PositionedInv, Writes, Common, Reads, Positioned
<1>4. /\ call.bytes \in Seq(Nat) /\ Len(call.bytes) \in Nat /\ Len(call.bytes) > 0
      /\ CbufSize \in Nat
  <2>1. call.bytes \in Seq(Nat)
    BY <1>1 DEF CallType, Bytes
  <2>2. Len(call.bytes) # 0
    BY <1>2, <2>1, EmptySeq
  <2>. QED BY <2>1, <2>2, BufferedFileAssumption
<1>. DEFINE n == Min({CbufSize + f.tag - f.pos, Len(call.bytes)})
            head == SubSeq(call.bytes, 1, n)
            tail == SubSeq(call.bytes, n + 1, Len(call.bytes))
<1>5. /\ n \in Nat /\ n > 0 /\ n <= Len(call.bytes) /\ Len(f.cbuf) + n <= CbufSize
  <2>1. /\ f.pos = f.tag + Len(f.cbuf) /\ Len(f.cbuf) <= CbufSize
        /\ f.tag \in Nat /\ f.pos \in Nat /\ Len(f.cbuf) \in Nat
    BY <1>3, WritesHas
  <2>2. Len(f.cbuf) # CbufSize
    BY <1>2, <1>3, <2>1, WritesHas DEF Full
  <2>. DEFINE x == CbufSize + f.tag - f.pos
  <2>3. x = CbufSize - Len(f.cbuf) /\ x \in Int
    BY <1>4, <2>1
  <2>. HIDE DEF x
  <2>4. n = IF x <= Len(call.bytes) THEN x ELSE Len(call.bytes)
    BY <1>4, <2>3, MinIs DEF x
  <2>. HIDE DEF n
  <2>5. x > 0
    BY <1>4, <2>1, <2>2, <2>3
  <2>6. n \in Nat /\ n > 0 /\ n <= Len(call.bytes) /\ n <= x
    <3>1. CASE x <= Len(call.bytes)
      <4>1. n = x
        BY <2>4, <3>1
      <4>. QED BY <2>3, <2>5, <3>1, <4>1
    <3>2. CASE ~(x <= Len(call.bytes))
      <4>1. n = Len(call.bytes)
        BY <2>4, <3>2
      <4>2. Len(call.bytes) \in Nat /\ Len(call.bytes) > 0 /\ x \in Int
        BY <1>4, <2>3
      <4>3. Len(call.bytes) <= x
        BY <3>2, <4>2
      <4>. QED BY <4>1, <4>2, <4>3
    <3>. QED BY <3>1, <3>2
  <2>. QED BY <1>4, <2>1, <2>3, <2>6
<1>6. /\ f' = Put(f, head) /\ os' = os /\ crash' = crash
      /\ call' = [call EXCEPT !.bytes = tail]
  BY <1>1 DEF CopyIn, CallType
<1>. HIDE DEF n
<1>7. head \in Seq(Nat) /\ Len(head) = n
  <2>1. /\ SubSeq(call.bytes, 0 + 1, 0 + n) \in Seq(Nat)
        /\ Len(SubSeq(call.bytes, 0 + 1, 0 + n)) = n
    BY <1>4, <1>5, SliceIs
  <2>. QED BY <1>5, <2>1
<1>8. tail \in Seq(Nat)
  <2>1. Len(call.bytes) - n \in Nat /\ n + (Len(call.bytes) - n) = Len(call.bytes)
    BY <1>4, <1>5
  <2>2. SubSeq(call.bytes, n + 1, n + (Len(call.bytes) - n)) \in Seq(Nat)
    BY <1>4, <1>5, <2>1, SliceIs
  <2>. QED BY <2>1, <2>2
<1>. HIDE DEF head, tail
<1>9. /\ f.cbuf \o head \in Seq(Nat) /\ Len(f.cbuf \o head) = Len(f.cbuf) + n
  BY <1>3, <1>7, WritesHas, ConcatProperties
<1>10. /\ f' \in FType /\ f'.map = f.map /\ f'.tag = f.tag /\ f'.pos = f.pos + n
       /\ f'.end = f.end + n /\ f'.cbuf = f.cbuf \o head /\ f'.dirty
       /\ f'.positioned = f.positioned
  <2>0. f.pos \in Nat /\ f.end \in Nat
    BY <1>1 DEF FType
  <2>1. f.pos + n \in Nat /\ f.end + n \in Nat
    BY <1>5, <2>0
  <2>2. f' = [f EXCEPT !.cbuf = @ \o head, !.pos = @ + n, !.end = @ + n, !.dirty = TRUE]
    BY <1>6, <1>7 DEF Put
  <2>. QED BY <1>1, <1>9, <2>1, <2>2 DEF FType, Bytes
<1>11. /\ call' \in CallType /\ call'.op = call.op /\ call'.flushed = call.flushed
       /\ call'.failed = call.failed
  BY <1>1, <1>6, <1>8 DEF CallType, Bytes
<1>12. call.flushed = 0
  BY <1>1, <1>2 DEF FlushInv, Flushing, Missed, Writes, Positioned
<1>13. /\ f'.pos = f'.end /\ f'.end = f'.tag + Len(f'.cbuf) /\ Len(f'.cbuf) <= CbufSize
       /\ Len(f'.cbuf) > 0
  <2>1. /\ f.pos = f.end /\ f.end = f.tag + Len(f.cbuf) /\ f.tag \in Nat /\ Len(f.cbuf) \in Nat
    BY <1>3, WritesHas
  <2>. QED BY <1>5, <1>9, <1>10, <2>1
<1>14. f'.cbuf # << >>
  BY <1>13
<1>15. /\ FileInv'
       /\ call'.op = "closed" \/ call'.failed \/ os'.kpos = f'.tag + call'.flushed
              => KernelInStep'
  <2>1. call'.flushed <= Len(f'.cbuf) /\ (call'.flushed # 0 => Flushing')
    BY <1>11, <1>12, <1>13, <1>9, <1>10, <1>5, <1>3, WritesHas
  <2>2. call'.op \in Common \cup Writes \cup {"seek"}
    BY <1>2, <1>11
  <2>. QED BY <1>1, <1>3, <1>6, <1>10, <1>11, <1>13, <1>14, <2>1, <2>2, WritesHas, WritesKeeps
<1>16. call.op # "closed"
  BY <1>2 DEF Writes
<1>. QED BY <1>3, <1>6, <1>10, <1>11, <1>15, <1>16, WritesHas

(* A write returns.                                                        *)
LEMMA WriteReturnsKeeps ==
  ASSUME FileInv, WriteReturns
  PROVE  FileInv' /\ (KernelInStep => KernelInStep')
<1>1. /\ UNCHANGED <<os, f, crash>> /\ call' = [call EXCEPT !.op = "idle"]
      /\ call.op \in Writes /\ call.bytes = << >>
  BY DEF WriteReturns, End
<1>2. call.flushed = 0
  BY <1>1, Parts DEF FlushInv, Flushing, Missed, Writes, Positioned
<1>3. /\ call' \in CallType /\ call'.op = "idle" /\ call'.flushed = 0
      /\ call'.failed = call.failed
  BY <1>1, <1>2, Parts DEF CallType, Ops
<1>. QED BY <1>1, <1>2, <1>3, EndKeeps DEF Writes

(* Whether a flush goes on does not depend on how much of it is written.   *)
LEMMA FlushingStays ==
  ASSUME Flushing, f' = f, os'.mode = os.mode, crash' = crash, call'.op = call.op,
         call'.bytes = call.bytes, call'.off = call.off, call'.filled = call.filled
  PROVE  Flushing'
BY DEF Flushing, Full, InCache, Missed, Hit

(* Only a file with something to write is flushed, and in positioned mode  *)
(* only a window that io61_pfill has read.                                 *)
LEMMA FlushingHas ==
  ASSUME FileInv, Flushing
  PROVE  /\ os.mode \in {"w", "rw"} /\ call.op # "closed" /\ call.op # "idle"
         /\ os.mode = "rw" => f.positioned
         /\ f.end = f.tag + Len(f.cbuf)
<1>1. RecordsInv /\ ReadInv /\ WriteInv /\ PositionedInv /\ CacheInv
  BY Parts
<1>2. f.dirty
  BY DEF Flushing
<1>3. os.mode \in {"w", "rw"}
  BY <1>1, <1>2, FileTypes DEF ReadInv
<1>4. call.op # "closed" /\ call.op # "idle"
  BY DEF Flushing, Writes, Missed, Positioned
<1>5. os.mode = "rw" => f.positioned
  BY <1>1, <1>2 DEF PositionedInv
<1>6. f.map = "none"
  BY <1>1, <1>3 DEF WriteInv, PositionedInv
<1>. QED BY <1>1, <1>3, <1>4, <1>5, <1>6 DEF CacheInv

(* A write system call of the flush: the kernel's position moves along     *)
(* with what is written, and a window's file does not change its length.   *)
LEMMA FlushWritesKeeps ==
  ASSUME FileInv, FlushWrites
  PROVE  FileInv' /\ (KernelInStep => KernelInStep')
<1>1. /\ RecordsInv /\ PositionedInv /\ FlushInv /\ CacheInv /\ ReadInv /\ WriteInv
      /\ os \in OsType /\ f \in FType /\ call \in CallType /\ crash = "none"
  BY Parts
<1>2. Flushing /\ f' = f /\ crash' = crash
  BY DEF FlushWrites
<1>3. PICK n \in 1..(Len(f.cbuf) - call.flushed) :
        /\ os' = IF f.positioned
                 THEN [os EXCEPT !.data = Overwritten(@, f.tag + call.flushed, Unflushed(n))]
                 ELSE [os EXCEPT !.data = Overwritten(@, os.kpos, Unflushed(n)), !.kpos = @ + n]
        /\ call' = [call EXCEPT !.flushed = @ + n]
  BY DEF FlushWrites
<1>4. /\ call.flushed \in Nat /\ Len(f.cbuf) \in Nat /\ f.tag \in Nat /\ os.kpos \in Nat
      /\ os.data \in Seq(Nat) /\ f.cbuf \in Seq(Nat) /\ Len(os.data) \in Nat
  BY <1>1, FileTypes DEF Bytes
<1>5. n \in Nat /\ n > 0 /\ call.flushed + n <= Len(f.cbuf) /\ call.flushed + n \in Nat
  <2>. DEFINE l == Len(f.cbuf)
              w == call.flushed
  <2>1. l \in Nat /\ w \in Nat /\ n \in 1..(l - w)
    BY <1>3, <1>4
  <2>. HIDE DEF l, w
  <2>2. n \in Nat /\ n > 0 /\ w + n <= l /\ w + n \in Nat
    BY <2>1
  <2>. QED BY <2>2 DEF l, w
<1>6. Unflushed(n) \in Seq(Nat) /\ Len(Unflushed(n)) = n
  <2>1. call.flushed \in Nat /\ n \in Nat /\ f.cbuf \in Seq(Nat) /\ call.flushed + n <= Len(f.cbuf)
    BY <1>4, <1>5
  <2>. QED BY <2>1, SliceIs DEF Unflushed
<1>7. /\ call' \in CallType /\ call'.op = call.op /\ call'.bytes = call.bytes
      /\ call'.off = call.off /\ call'.filled = call.filled /\ call'.failed = call.failed
      /\ call'.want = call.want /\ call'.flushed = call.flushed + n
  BY <1>1, <1>3, <1>5 DEF CallType
<1>8. /\ os' \in OsType /\ os'.mode = os.mode
      /\ f.positioned => /\ os'.data = Overwritten(os.data, f.tag + call.flushed, Unflushed(n))
                         /\ os'.kpos = os.kpos
      /\ ~f.positioned => os'.kpos = os.kpos + n
  <2>1. CASE f.positioned
    <3>1. Overwritten(os.data, f.tag + call.flushed, Unflushed(n)) \in Bytes
      BY <1>4, <1>6, OverwrittenIs DEF Bytes
    <3>. QED BY <1>1, <1>3, <2>1, <3>1 DEF OsType
  <2>2. CASE ~f.positioned
    <3>. DEFINE b == Unflushed(n)
    <3>0. os.data \in Seq(Nat) /\ b \in Seq(Nat) /\ os.kpos \in Nat /\ n \in Nat
      BY <1>4, <1>5, <1>6
    <3>. HIDE DEF b
    <3>1. Overwritten(os.data, os.kpos, b) \in Bytes
      BY <3>0, OverwrittenIs DEF Bytes
    <3>2. os.kpos + n \in Nat
      BY <3>0
    <3>. USE DEF b
    <3>. QED BY <1>1, <1>3, <2>2, <3>1, <3>2 DEF OsType
  <2>. QED BY <2>1, <2>2
<1>9. Flushing'
  BY <1>2, <1>7, <1>8, FlushingStays
<1>10. CASE os.mode = "w"
  <2>1. /\ FileInv'
        /\ call'.op = "closed" \/ call'.failed \/ os'.kpos = f'.tag + call'.flushed
              => KernelInStep'
    <3>1. call'.op \in Common \cup Writes \cup {"seek"}
      BY <1>1, <1>7, <1>10 DEF WriteInv
    <3>. QED BY <1>1, <1>2, <1>5, <1>7, <1>8, <1>9, <1>10, <3>1, WritesHas, WritesKeeps
  <2>2. ASSUME KernelInStep, ~call.failed
        PROVE  os'.kpos = f'.tag + call'.flushed
    <3>1. os.kpos = f.tag + call.flushed
      BY <1>2, <1>10, <2>2, WritesHas, FlushingHas
    <3>2. os'.kpos = os.kpos + n
      BY <1>8, <1>10, WritesHas
    <3>3. f'.tag = f.tag /\ call'.flushed = call.flushed + n
      BY <1>2, <1>7
    <3>. DEFINE w == call.flushed
    <3>4. w \in Nat /\ f.tag \in Nat /\ os.kpos = f.tag + w
      BY <1>4, <3>1
    <3>. HIDE DEF w
    <3>5. os.kpos + n = f.tag + (w + n)
      BY <1>5, <3>4
    <3>. QED BY <3>2, <3>3, <3>5 DEF w
  <2>. QED BY <1>7, <2>1, <2>2
<1>11. CASE os.mode = "rw"
  <2>1. f.positioned /\ f.end <= Len(os.data) /\ f.end = f.tag + Len(f.cbuf)
    <3>1. f.cbuf # << >>
      <4>. DEFINE l == Len(f.cbuf)
      <4>1. l > 0
        <5>. HIDE DEF l
        <5>. QED BY <1>4, <1>5 DEF l
      <4>. QED BY <4>1
    <3>. QED BY <1>1, <1>2, <1>11, <3>1, FlushingHas DEF PositionedInv
  <2>2. Len(os'.data) = Len(os.data)
    <3>1. f.tag + call.flushed \in Nat
      BY <1>4
    <3>. DEFINE at == f.tag + call.flushed
                b  == Unflushed(n)
    <3>2. os'.data = Overwritten(os.data, at, b)
      BY <1>8, <2>1
    <3>3. b \in Seq(Nat) /\ Len(b) = n /\ os.data \in Seq(Nat)
      BY <1>4, <1>6
    <3>4. ~(at + n > Len(os.data))
      <4>1. f.tag + (call.flushed + n) <= f.tag + Len(f.cbuf)
        BY <1>4, <1>5
      <4>2. f.tag + (call.flushed + n) <= Len(os.data)
        <5>1. f.tag + Len(f.cbuf) <= Len(os.data)
          BY <2>1
        <5>2. /\ f.tag + (call.flushed + n) \in Nat /\ f.tag + Len(f.cbuf) \in Nat
              /\ Len(os.data) \in Nat
          <6>. DEFINE w == call.flushed + n
                      l == Len(f.cbuf)
          <6>1. w \in Nat /\ l \in Nat /\ f.tag \in Nat /\ Len(os.data) \in Nat
            BY <1>4, <1>5
          <6>. HIDE DEF w, l
          <6>2. f.tag + w \in Nat /\ f.tag + l \in Nat
            BY <6>1
          <6>. QED BY <6>1, <6>2 DEF w, l
        <5>. QED BY <4>1, <5>1, <5>2
      <4>. DEFINE w == call.flushed
                  l == Len(os.data)
      <4>3. w \in Nat /\ f.tag \in Nat /\ n \in Nat /\ l \in Nat /\ f.tag + (w + n) <= l
        BY <1>4, <1>5, <4>2
      <4>. HIDE DEF w, l
      <4>4. ~((f.tag + w) + n > l)
        BY <4>3
      <4>. QED BY <4>4 DEF w, l
    <3>. HIDE DEF at, b
    <3>5. Len(Overwritten(os.data, at, b)) = IF b # << >> /\ at + Len(b) > Len(os.data)
                                             THEN at + Len(b) ELSE Len(os.data)
      BY <3>1, <3>3, OverwrittenIs DEF at
    <3>. QED BY <3>2, <3>3, <3>4, <3>5
  <2>3. RecordsInv'
    BY <1>1, <1>2, <1>7, <1>8 DEF RecordsInv, OsType, FType, CallType
  <2>4. ReadInv' /\ WriteInv'
    BY <1>8, <1>11 DEF ReadInv, WriteInv
  <2>5. PositionedInv'
    BY <1>1, <1>2, <1>7, <1>8, <1>11, <2>2 DEF PositionedInv
  <2>6. CacheInv'
    BY <1>1, <1>2, <1>8, <1>11 DEF CacheInv
  <2>7. FlushInv'
    BY <1>2, <1>5, <1>7, <1>9 DEF FlushInv
  <2>8. KernelInStep => KernelInStep'
    BY <1>2, <1>7, <1>8, <1>11, <2>1 DEF KernelInStep
  <2>. QED BY <2>3, <2>4, <2>5, <2>6, <2>7, <2>8 DEF FileInv
<1>. QED BY <1>2, <1>10, <1>11, FlushingHas

(* A write system call that is interrupted or fails.                       *)
LEMMA FlushFailsKeeps ==
  ASSUME FileInv, NEW e, FlushFails(e)
  PROVE  FileInv' /\ (KernelInStep => KernelInStep')
<1>1. Flushing /\ os' = os /\ f' = f /\ crash' = crash
  BY DEF FlushFails
<1>2. CASE e = "intr"
  <2>1. call' = call
    BY <1>2 DEF FlushFails
  <2>. QED BY <1>1, <2>1
           DEF FileInv, RecordsInv, OsType, FType, CallType, ReadInv, WriteInv, PositionedInv,
               CacheInv, FlushInv, Flushing, Full, InCache, Missed, Hit, KernelInStep
<1>3. CASE e # "intr"
  <2>1. call' = [call EXCEPT !.failed = TRUE, !.flushed = 0,
                             !.op = IF @ = "close" THEN "closed" ELSE "idle"]
    BY <1>3 DEF FlushFails
  <2>2. /\ call' \in CallType /\ call'.flushed = 0 /\ call'.failed
        /\ call'.op \in {"idle", "closed"}
    BY <2>1, Parts DEF CallType, Ops
  <2>. QED BY <1>1, <2>2, EndKeeps, FlushingHas
<1>. QED BY <1>2, <1>3

(* All is written: the cache is empty, or clean in positioned mode.        *)
LEMMA FlushEndsKeeps ==
  ASSUME FileInv, FlushEnds
  PROVE  FileInv' /\ (KernelInStep => KernelInStep')
<1>1. /\ RecordsInv /\ PositionedInv /\ FlushInv /\ CacheInv /\ ReadInv /\ WriteInv
      /\ os \in OsType /\ f \in FType /\ call \in CallType /\ crash = "none"
  BY Parts
<1>2. Flushing /\ call.flushed = Len(f.cbuf) /\ os' = os /\ crash' = crash
  BY DEF FlushEnds
<1>3. /\ call' = [call EXCEPT !.flushed = 0,
                !.op = CASE @ = "flush" -> "idle" [] @ = "close" -> "closed" [] OTHER -> @]
      /\ f' = IF f.positioned THEN [f EXCEPT !.dirty = FALSE]
              ELSE [Emptied(f, f.end) EXCEPT !.dirty = FALSE]
  BY DEF FlushEnds
<1>4. /\ call' \in CallType /\ call'.flushed = 0 /\ call'.op \in Common \cup {call.op}
      /\ call'.want = call.want /\ call'.bytes = call.bytes /\ call'.off = call.off
      /\ call'.filled = call.filled /\ call'.failed = call.failed
  BY <1>1, <1>3 DEF CallType, Ops, Common
<1>5. CASE os.mode = "w"
  <2>1. /\ f' \in FType /\ f'.map = "none" /\ f'.tag = f.end /\ f'.pos = f.end
        /\ f'.end = f.end /\ f'.cbuf = << >> /\ ~f'.dirty /\ ~f'.positioned
    <3>. DEFINE g == Emptied(f, f.end)
    <3>1. /\ g \in FType /\ g.tag = f.end /\ g.pos = f.end /\ g.end = f.end /\ g.cbuf = << >>
          /\ g.map = f.map /\ g.positioned = f.positioned
      BY <1>1, FileTypes, EmptiedIs
    <3>2. f' = [g EXCEPT !.dirty = FALSE] /\ f.map = "none" /\ ~f.positioned
      BY <1>3, <1>5, WritesHas
    <3>. HIDE DEF g
    <3>. QED BY <3>1, <3>2 DEF FType
  <2>2. f.end \in Nat /\ CbufSize \in Nat
    BY <1>1, FileTypes
  <2>3. f'.end = f'.tag + Len(f'.cbuf) /\ Len(f'.cbuf) <= CbufSize /\ call'.flushed <= Len(f'.cbuf)
    BY <1>4, <2>1, <2>2
  <2>4. call'.op \in Common \cup Writes \cup {"seek"}
    BY <1>1, <1>4, <1>5 DEF WriteInv
  <2>5. /\ FileInv'
        /\ call'.op = "closed" \/ call'.failed \/ os'.kpos = f'.tag + call'.flushed
              => KernelInStep'
    BY <1>1, <1>2, <1>4, <1>5, <2>1, <2>3, <2>4, WritesKeeps
  <2>6. ASSUME KernelInStep, ~call.failed
        PROVE  os'.kpos = f'.tag + call'.flushed
    <3>1. os.kpos = f.tag + Len(f.cbuf) /\ f.end = f.tag + Len(f.cbuf)
      BY <1>2, <1>5, <2>6, WritesHas, FlushingHas
    <3>. QED BY <1>2, <1>4, <2>1, <2>2, <3>1
  <2>. QED BY <1>4, <2>5, <2>6
<1>6. CASE os.mode = "rw"
  <2>1. f.positioned /\ f' = [f EXCEPT !.dirty = FALSE]
    BY <1>2, <1>3, <1>6, FlushingHas
  <2>2. /\ f' \in FType /\ f'.map = f.map /\ f'.tag = f.tag /\ f'.pos = f.pos
        /\ f'.end = f.end /\ f'.cbuf = f.cbuf /\ f'.positioned
    BY <1>1, <2>1 DEF FType
  <2>3. RecordsInv'
    BY <1>1, <1>2, <1>4, <2>2 DEF RecordsInv, OsType, FType, CallType
  <2>4. ReadInv' /\ WriteInv'
    BY <1>2, <1>6 DEF ReadInv, WriteInv
  <2>5. PositionedInv'
    BY <1>1, <1>2, <1>4, <1>6, <2>1, <2>2 DEF PositionedInv, Common, Positioned
  <2>6. CacheInv'
    BY <1>1, <1>2, <1>6, <2>2 DEF CacheInv
  <2>7. FlushInv'
    BY <1>1, <1>4, <2>2, FileTypes DEF FlushInv
  <2>8. KernelInStep => KernelInStep'
    BY <1>1, <1>2, <1>6, <2>2, FlushingHas DEF KernelInStep, PositionedInv
  <2>. QED BY <2>3, <2>4, <2>5, <2>6, <2>7, <2>8 DEF FileInv
<1>. QED BY <1>2, <1>5, <1>6, FlushingHas

-----------------------------------------------------------------------------
(* Seeking.                                                                *)

(* io61_flush_clean moves the kernel's position to the program's.          *)
LEMMA FlushCleanKeeps ==
  ASSUME FileInv, FlushClean
  PROVE  FileInv' /\ (KernelInStep => KernelInStep')
<1>1. /\ RecordsInv /\ PositionedInv /\ FlushInv /\ CacheInv /\ ReadInv /\ WriteInv
      /\ os \in OsType /\ f \in FType /\ call \in CallType /\ crash = "none"
  BY Parts
<1>2. call.op \in {"flush", "close"} /\ ~f.dirty /\ crash' = crash
  BY DEF FlushClean
<1>3. call' = [call EXCEPT !.op = IF @ = "close" THEN "closed" ELSE "idle"]
  BY DEF FlushClean
<1>4. call.flushed = 0
  BY <1>1, <1>2 DEF FlushInv, Flushing
<1>5. /\ call' \in CallType /\ call'.flushed = 0 /\ call'.failed = call.failed
      /\ call'.op = IF call.op = "close" THEN "closed" ELSE "idle"
  BY <1>1, <1>3, <1>4 DEF CallType, Ops
<1>6. CASE ~(os.seekable /\ ~f.positioned)
  <2>1. UNCHANGED <<os, f>>
    BY <1>6 DEF FlushClean
  <2>. QED BY <1>2, <1>4, <1>5, <2>1, EndKeeps
<1>7. CASE os.seekable /\ ~f.positioned
  <2>1. os' = [os EXCEPT !.kpos = f.pos] /\ f' = Emptied(f, f.pos)
    BY <1>7 DEF FlushClean
  <2>2. /\ f' \in FType /\ f'.tag = f.pos /\ f'.pos = f.pos /\ f'.end = f.pos /\ f'.cbuf = << >>
        /\ f'.map = f.map /\ f'.dirty = f.dirty /\ f'.positioned = f.positioned /\ f.pos \in Nat
    BY <1>1, <2>1, FileTypes, EmptiedIs
  <2>3. /\ os' \in OsType /\ os'.mode = os.mode /\ os'.data = os.data
        /\ os'.mappable = os.mappable /\ os'.kpos = f.pos
    BY <1>1, <2>1, <2>2 DEF OsType
  <2>4. RecordsInv'
    BY <1>1, <1>2, <1>5, <2>2, <2>3 DEF RecordsInv, OsType, FType, CallType
  <2>5. ReadInv'
    BY <1>1, <1>2, <1>5, <2>2, <2>3 DEF ReadInv, Common, Reads
  <2>6. WriteInv'
    BY <1>1, <1>2, <1>5, <2>2, <2>3 DEF WriteInv, Common
  <2>7. PositionedInv'
    BY <1>1, <1>5, <1>7, <2>2, <2>3 DEF PositionedInv, Common, Positioned
  <2>8. CacheInv'
    BY <2>2, <2>3, BufferedFileAssumption DEF CacheInv
  <2>9. FlushInv'
    BY <1>5, <2>2 DEF FlushInv
  <2>10. KernelInStep'
    BY <1>1, <1>5, <2>2, <2>3, FileTypes DEF KernelInStep
  <2>. QED BY <2>4, <2>5, <2>6, <2>7, <2>8, <2>9, <2>10 DEF FileInv
<1>. QED BY <1>6, <1>7

(* A seek is of a file that is read or written.                            *)
LEMMA SeekingHas ==
  ASSUME FileInv, Seeking
  PROVE  /\ os.mode \in {"r", "w"} /\ call.op = "seek" /\ call.off \in Nat
         /\ ~f.dirty => call.flushed = 0
         /\ os.mode = "r" => call.flushed = 0
<1>1. RecordsInv /\ PositionedInv /\ FlushInv /\ ReadInv
  BY Parts
<1>2. call.op = "seek"
  BY DEF Seeking
<1>3. os.mode \in {"r", "w"}
  BY <1>1, <1>2, FileTypes DEF PositionedInv, Common, Positioned
<1>4. ~f.dirty => call.flushed = 0
  BY <1>1 DEF FlushInv, Flushing
<1>. QED BY <1>1, <1>2, <1>3, <1>4, FileTypes DEF ReadInv

(* The call ends, and a file that is read stays in order.                  *)
LEMMA SoughtKeeps ==
  ASSUME FileInv, Seeking, os.mode = "r", crash' = crash,
         os' \in OsType, os'.mode = "r", os'.mappable = os.mappable, os'.data = os.data,
         f' \in FType, ~f'.dirty, ~f'.positioned,
         f'.map = "mapped" => /\ os.mappable /\ f'.tag = 0 /\ f'.end = Len(os.data)
                              /\ f'.cbuf = << >>,
         f'.map = "none" => f'.cbuf = << >>,
         f'.map # "mapped" => f'.end = f'.tag + Len(f'.cbuf) /\ Len(f'.cbuf) <= CbufSize,
         os.mappable => f'.map # "failed" /\ f'.pos <= Len(os.data),
         f'.tag <= f'.pos, f'.pos <= f'.end,
         call' \in CallType, call'.op = "idle", call'.flushed = 0
  PROVE  FileInv' /\ ((f'.map # "mapped" => os'.kpos = f'.end) => KernelInStep')
<1>1. RecordsInv'
  BY Parts DEF RecordsInv, OsType, FType, CallType
<1>2. ReadInv'
  <2>1. f'.map \in {"none", "mapped", "failed"}
    BY DEF FType
  <2>. QED BY <2>1 DEF ReadInv, Common, Reads
<1>3. WriteInv' /\ PositionedInv'
  BY DEF WriteInv, PositionedInv
<1>4. CacheInv'
  BY DEF CacheInv
<1>5. FlushInv'
  <2>1. Len(f'.cbuf) \in Nat
    BY DEF FType, Bytes
  <2>. QED BY <2>1 DEF FlushInv
<1>6. (f'.map # "mapped" => os'.kpos = f'.end) => KernelInStep'
  BY DEF KernelInStep
<1>. QED BY <1>1, <1>2, <1>3, <1>4, <1>5, <1>6 DEF FileInv

(* A seek to an offset in the cache.                                       *)
LEMMA SeekInCacheKeeps ==
  ASSUME FileInv, SeekInCache
  PROVE  FileInv' /\ (KernelInStep => KernelInStep')
<1>1. /\ RecordsInv /\ CacheInv /\ ReadInv
      /\ os \in OsType /\ f \in FType /\ call \in CallType /\ crash = "none"
  BY Parts
<1>2. /\ Seeking /\ os.mode = "r" /\ f.tag <= call.off /\ call.off < f.end
      /\ f' = [f EXCEPT !.pos = call.off] /\ os' = os /\ crash' = crash
      /\ call' = [call EXCEPT !.op = "idle"]
  BY DEF SeekInCache, InCache, End
<1>3. /\ f' \in FType /\ f'.pos = call.off /\ f'.tag = f.tag /\ f'.end = f.end /\ f'.map = f.map
      /\ f'.cbuf = f.cbuf /\ f'.dirty = f.dirty /\ f'.positioned = f.positioned
  BY <1>1, <1>2 DEF FType, CallType
<1>4. call.off \in Nat /\ f.end \in Nat /\ f'.pos <= f'.end
  BY <1>1, <1>2, <1>3 DEF FType, CallType
<1>5. /\ call' \in CallType /\ call'.op = "idle" /\ call'.flushed = 0
  BY <1>1, <1>2, SeekingHas DEF CallType, Ops
<1>6. /\ ~f.dirty /\ ~f.positioned /\ (f.map # "failed" => f.cbuf = << >>)
      /\ (os.mappable => f.map # "failed" /\ call.off <= Len(os.data))
      /\ (f.map = "mapped" => os.mappable /\ f.tag = 0 /\ f.end = Len(os.data))
  BY <1>1, <1>2, SeekingHas DEF ReadInv
<1>7. f.map # "mapped" => f.end = f.tag + Len(f.cbuf) /\ Len(f.cbuf) <= CbufSize
  BY <1>1 DEF CacheInv
<1>8. FileInv' /\ ((f'.map # "mapped" => os'.kpos = f'.end) => KernelInStep')
  BY <1>1, <1>2, <1>3, <1>4, <1>5, <1>6, <1>7, SoughtKeeps
<1>9. KernelInStep => (f.map # "mapped" => os.kpos = f.end)
  BY <1>2, SeekingHas DEF KernelInStep
<1>. QED BY <1>2, <1>3, <1>8, <1>9

(* A seek that calls lseek, and maps a file that is read.                  *)
LEMMA SeekInKernelKeeps ==
  ASSUME FileInv, SeekInKernel
  PROVE  FileInv' /\ (KernelInStep => KernelInStep')
<1>1. /\ RecordsInv /\ CacheInv /\ ReadInv /\ WriteInv
      /\ os \in OsType /\ f \in FType /\ call \in CallType /\ crash = "none"
  BY Parts
<1>2. /\ Seeking /\ ~f.dirty /\ os' = [os EXCEPT !.kpos = call.off]
      /\ f' = Sought(f, call.off) /\ call' = [call EXCEPT !.op = "idle"] /\ crash' = crash
  BY DEF SeekInKernel, End
<1>3. call.off \in Nat
  BY <1>1 DEF CallType
<1>4. /\ os' \in OsType /\ os'.mode = os.mode /\ os'.data = os.data
      /\ os'.mappable = os.mappable /\ os'.kpos = call.off
  BY <1>1, <1>2, <1>3 DEF OsType
<1>5. /\ call' \in CallType /\ call'.op = "idle" /\ call'.flushed = 0
  BY <1>1, <1>2, SeekingHas DEF CallType, Ops
<1>6. CASE os.mode = "w"
  <2>1. f' = Emptied(f, call.off)
    BY <1>2, <1>6 DEF Sought
  <2>2. /\ f' \in FType /\ f'.tag = call.off /\ f'.pos = call.off /\ f'.end = call.off
        /\ f'.cbuf = << >> /\ f'.map = f.map /\ f'.dirty = f.dirty /\ f'.positioned = f.positioned
    BY <1>1, <1>3, <2>1, EmptiedIs
  <2>3. /\ f'.end = f'.tag + Len(f'.cbuf) /\ Len(f'.cbuf) <= CbufSize /\ call'.flushed <= Len(f'.cbuf)
        /\ call.off = f'.tag + call'.flushed
    BY <1>3, <1>5, <2>2, BufferedFileAssumption
  <2>4. call'.op \in Common \cup Writes \cup {"seek"}
    BY <1>5 DEF Common
  <2>. QED BY <1>2, <1>4, <1>5, <1>6, <2>2, <2>3, <2>4, WritesHas, WritesKeeps
<1>7. CASE os.mode = "r"
  <2>1. /\ ~f.dirty /\ ~f.positioned /\ (f.map # "failed" => f.cbuf = << >>)
        /\ (os.mappable => f.map # "failed" /\ call.off <= Len(os.data))
        /\ (f.map = "mapped" => os.mappable /\ f.tag = 0 /\ f.end = Len(os.data))
    BY <1>1, <1>2, <1>7, SeekingHas DEF ReadInv
  <2>. DEFINE g == Mapped(f)
  <2>2. CASE os.mappable
    <3>1. /\ g \in FType /\ g.map = "mapped" /\ g.tag = 0 /\ g.end = Len(os.data)
          /\ g.cbuf = << >> /\ ~g.dirty /\ ~g.positioned
      BY <1>1, <2>1, <2>2, FileTypes DEF Mapped, FType
    <3>2. f' = [g EXCEPT !.pos = call.off]
      BY <1>2, <1>7, <3>1 DEF Sought
    <3>. HIDE DEF g
    <3>3. /\ f' \in FType /\ f'.map = "mapped" /\ f'.tag = 0 /\ f'.end = Len(os.data)
          /\ f'.pos = call.off /\ f'.cbuf = << >> /\ ~f'.dirty /\ ~f'.positioned
      BY <1>3, <3>1, <3>2 DEF FType
    <3>4. f'.tag <= f'.pos /\ f'.pos <= f'.end
      BY <1>3, <2>1, <2>2, <3>3
    <3>5. FileInv' /\ ((f'.map # "mapped" => os'.kpos = f'.end) => KernelInStep')
      BY <1>2, <1>4, <1>5, <1>7, <2>1, <2>2, <3>3, <3>4, SoughtKeeps
    <3>. QED BY <3>3, <3>5
  <2>3. CASE ~os.mappable
    <3>1. /\ g \in FType /\ g.map = "failed" /\ ~g.dirty /\ ~g.positioned
      BY <1>1, <2>1, <2>3, FileTypes DEF Mapped, FType
    <3>2. f' = Emptied(g, call.off)
      BY <1>2, <1>7, <3>1 DEF Sought
    <3>. HIDE DEF g
    <3>3. /\ f' \in FType /\ f'.map = "failed" /\ f'.tag = call.off /\ f'.end = call.off
          /\ f'.pos = call.off /\ f'.cbuf = << >> /\ ~f'.dirty /\ ~f'.positioned
      <4>1. /\ f' \in FType /\ f'.tag = call.off /\ f'.end = call.off /\ f'.pos = call.off
            /\ f'.cbuf = << >> /\ f'.map = g.map /\ f'.dirty = g.dirty
            /\ f'.positioned = g.positioned
        BY <1>3, <3>1, <3>2, EmptiedIs
      <4>. QED BY <3>1, <4>1
    <3>4. /\ f'.tag <= f'.pos /\ f'.pos <= f'.end
          /\ f'.end = f'.tag + Len(f'.cbuf) /\ Len(f'.cbuf) <= CbufSize
      BY <1>3, <3>3, BufferedFileAssumption
    <3>5. FileInv' /\ ((f'.map # "mapped" => os'.kpos = f'.end) => KernelInStep')
      BY <1>2, <1>4, <1>5, <1>7, <2>3, <3>3, <3>4, SoughtKeeps
    <3>. QED BY <1>4, <3>3, <3>5
  <2>. QED BY <2>2, <2>3
<1>. QED BY <1>2, <1>6, <1>7, SeekingHas

(* A seek of what cannot be sought.                                        *)
LEMMA SeekFailsKeeps ==
  ASSUME FileInv, SeekFails
  PROVE  FileInv' /\ (KernelInStep => KernelInStep')
<1>1. /\ Seeking /\ ~f.dirty /\ UNCHANGED <<os, f, crash>>
      /\ call' = [[call EXCEPT !.failed = TRUE] EXCEPT !.op = "idle"]
  BY DEF SeekFails, End
<1>2. call' \in CallType /\ call'.op = "idle" /\ call'.flushed = 0 /\ call'.failed
  BY <1>1, Parts, SeekingHas DEF CallType, Ops
<1>. QED BY <1>1, <1>2, SeekingHas, EndKeeps

(* A call in positioned mode.                                              *)
LEMMA PositionedHas ==
  ASSUME FileInv, call.op \in Positioned
  PROVE  /\ os.mode = "rw" /\ f.map = "none" /\ call.off \in Nat
         /\ call.want \in Nat /\ (call.op = "pwrite" => call.want = Len(call.bytes))
         /\ f.end = f.tag + Len(f.cbuf) /\ f.tag \in Nat /\ f.end \in Nat /\ f.cbuf \in Seq(Nat)
         /\ Len(f.cbuf) \in Nat /\ os.data \in Seq(Nat) /\ Len(os.data) \in Nat
         /\ call.filled => /\ f.positioned /\ f.tag <= call.off
                           /\ call.off <= f.end \/ call.off > Len(os.data)
         /\ f.positioned => f.end <= Len(os.data) \/ f.cbuf = << >>
         /\ Len(f.cbuf) <= CbufSize
<1>1. RecordsInv /\ ReadInv /\ WriteInv /\ PositionedInv /\ CacheInv
  BY Parts
<1>2. os.mode = "rw"
  BY <1>1, FileTypes DEF ReadInv, WriteInv, Common, Reads, Writes, Positioned
<1>3. /\ f.map = "none"
      /\ (call.op = "pwrite" => call.want = Len(call.bytes))
      /\ call.filled => /\ f.positioned /\ f.tag <= call.off
                        /\ call.off <= f.end \/ call.off > Len(os.data)
      /\ f.positioned => f.end <= Len(os.data) \/ f.cbuf = << >>
  BY <1>1, <1>2 DEF PositionedInv
<1>4. f.end = f.tag + Len(f.cbuf) /\ Len(f.cbuf) <= CbufSize
  BY <1>1, <1>3 DEF CacheInv
<1>. QED BY <1>1, <1>2, <1>3, <1>4, FileTypes DEF Bytes

(* A step in positioned mode that leaves the file in order.                *)
LEMMA PositionedKeeps ==
  ASSUME FileInv, call.op \in Positioned, crash' = crash, os' = os,
         f' \in FType, f'.map = "none", f'.positioned, f'.pos = f.pos,
         f'.end = f'.tag + Len(f'.cbuf), Len(f'.cbuf) <= CbufSize,
         f'.end <= Len(os.data) \/ f'.cbuf = << >>,
         call' \in CallType, call'.flushed = 0, call'.op \in {"idle", call.op},
         call'.off = call.off, call'.want = call.want, call'.bytes = call.bytes,
         \/ call'.op = "idle"
         \/ f'.tag <= call.off /\ (call.off <= f'.end \/ call.off > Len(os.data))
  PROVE  FileInv' /\ (KernelInStep => KernelInStep')
<1>1. os.mode = "rw"
  BY PositionedHas
<1>2. RecordsInv'
  BY Parts DEF RecordsInv, OsType, FType, CallType
<1>3. ReadInv' /\ WriteInv'
  BY <1>1 DEF ReadInv, WriteInv
<1>4. PositionedInv'
  BY <1>1, PositionedHas DEF PositionedInv, Common, Positioned
<1>5. CacheInv'
  BY <1>1 DEF CacheInv
<1>6. FlushInv'
  <2>1. Len(f'.cbuf) \in Nat
    BY DEF FType, Bytes
  <2>. QED BY <2>1 DEF FlushInv
<1>7. KernelInStep => KernelInStep'
  <2>1. f.map = "none" /\ call.op # "closed"
    BY PositionedHas DEF Positioned
  <2>. QED BY <1>1, <2>1 DEF KernelInStep
<1>. QED BY <1>2, <1>3, <1>4, <1>5, <1>6, <1>7 DEF FileInv

(* Where io61_pfill begins to read.                                        *)
LEMMA WindowStart ==
  ASSUME NEW off \in Nat, NEW c \in Nat \ {0}
  PROVE  /\ off - (off % c) \in Nat /\ off - (off % c) <= off
         /\ off < (off - (off % c)) + c
OBVIOUS

-----------------------------------------------------------------------------
(* Positioned mode, and the invariant's theorems.                          *)

(* io61_pfill reads a window that holds the offset, or ends with the file. *)
LEMMA PfillKeeps ==
  ASSUME FileInv, Pfill
  PROVE  FileInv' /\ (KernelInStep => KernelInStep')
<1>1. /\ RecordsInv /\ FlushInv /\ os \in OsType /\ f \in FType /\ call \in CallType
  BY Parts
<1>2. call.op \in Positioned /\ ~f.dirty
  BY DEF Pfill, Missed
<1>. DEFINE tag == call.off - (call.off % CbufSize)
            stop == Min({tag + CbufSize, Len(os.data)})
            read == SubSeq(os.data, tag + 1, stop)
<1>3. /\ f' = [f EXCEPT !.tag = tag, !.end = tag + Len(read), !.cbuf = read, !.positioned = TRUE]
      /\ call' = [call EXCEPT !.filled = TRUE] /\ os' = os /\ crash' = crash
  BY DEF Pfill
<1>4. /\ call.off \in Nat /\ Len(os.data) \in Nat
      /\ os.data \in Seq(Nat) /\ CbufSize \in Nat \ {0}
  BY <1>2, PositionedHas, BufferedFileAssumption
<1>5. tag \in Nat /\ tag <= call.off /\ call.off < tag + CbufSize
  BY <1>4, WindowStart
<1>. HIDE DEF tag
<1>6. /\ stop \in Nat /\ stop <= Len(os.data) /\ stop <= tag + CbufSize
      /\ call.off <= stop \/ call.off > Len(os.data)
      /\ tag <= stop \/ call.off > Len(os.data)
  <2>. DEFINE x == tag + CbufSize
  <2>1. x \in Int /\ Len(os.data) \in Int
    BY <1>4, <1>5
  <2>2. stop = IF x <= Len(os.data) THEN x ELSE Len(os.data)
    <3>. HIDE DEF x
    <3>1. Min({x, Len(os.data)}) = IF x <= Len(os.data) THEN x ELSE Len(os.data)
      BY <2>1, MinIs
    <3>. QED BY <3>1 DEF x
  <2>. HIDE DEF stop
  <2>. QED BY <1>4, <1>5, <2>2
<1>. HIDE DEF stop
<1>7. /\ read \in Seq(Nat) /\ Len(read) <= CbufSize /\ tag + Len(read) \in Nat
      /\ \/ tag <= stop /\ tag + Len(read) = stop
         \/ tag > stop /\ read = << >> /\ tag + Len(read) = tag
  <2>1. CASE tag <= stop
    <3>1. stop - tag \in Nat /\ tag + (stop - tag) = stop
      BY <1>5, <1>6, <2>1
    <3>2. /\ SubSeq(os.data, tag + 1, tag + (stop - tag)) \in Seq(Nat)
          /\ Len(SubSeq(os.data, tag + 1, tag + (stop - tag))) = stop - tag
      BY <1>4, <1>5, <1>6, <3>1, SliceIs
    <3>3. read \in Seq(Nat) /\ Len(read) = stop - tag
      BY <3>1, <3>2
    <3>. HIDE DEF read
    <3>. QED BY <1>4, <1>5, <1>6, <2>1, <3>1, <3>3
  <2>2. CASE tag > stop
    <3>1. read = << >>
      <4>1. tag + 1 \in Int /\ stop \in Int /\ ~(tag + 1 <= stop)
        BY <1>5, <1>6, <2>2
      <4>2. \A i \in (tag + 1)..stop : os.data[i] \in Nat
        BY <4>1
      <4>3. read \in Seq(Nat) /\ Len(read) = 0
        BY <4>1, <4>2, SubSeqProperties
      <4>. HIDE DEF read
      <4>. QED BY <4>3, EmptySeq
    <3>. HIDE DEF read
    <3>2. read \in Seq(Nat) /\ Len(read) = 0
      BY <3>1
    <3>. QED BY <1>4, <1>5, <2>2, <3>1, <3>2
  <2>3. tag <= stop \/ tag > stop
    BY <1>5, <1>6
  <2>. QED BY <2>1, <2>2, <2>3
<1>. HIDE DEF read
<1>9. /\ f' \in FType /\ f'.map = f.map /\ f'.positioned /\ f'.pos = f.pos
      /\ f'.tag = tag /\ f'.end = tag + Len(read) /\ f'.cbuf = read
  BY <1>1, <1>3, <1>5, <1>7 DEF FType, Bytes
<1>10. call.flushed = 0
  BY <1>1, <1>2 DEF FlushInv, Flushing
<1>11. /\ call' \in CallType /\ call'.flushed = 0 /\ call'.op = call.op
       /\ call'.off = call.off /\ call'.want = call.want /\ call'.bytes = call.bytes
  BY <1>1, <1>3, <1>10 DEF CallType
<1>12. /\ f'.end <= Len(os.data) \/ f'.cbuf = << >>
       /\ f'.tag <= call.off /\ (call.off <= f'.end \/ call.off > Len(os.data))
       /\ f'.end = f'.tag + Len(f'.cbuf) /\ Len(f'.cbuf) <= CbufSize
  BY <1>4, <1>5, <1>6, <1>7, <1>9
<1>. QED BY <1>2, <1>3, <1>9, <1>11, <1>12, PositionedHas, PositionedKeeps

(* io61_pfill, where the system call fails.                                *)
LEMMA PfillFailsKeeps ==
  ASSUME FileInv, NEW e, PfillFails(e)
  PROVE  FileInv' /\ (KernelInStep => KernelInStep')
<1>1. /\ call.op \in Positioned /\ ~f.dirty /\ UNCHANGED <<os, f, crash>>
      /\ call' = [[call EXCEPT !.failed = TRUE] EXCEPT !.op = "idle"]
  BY DEF PfillFails, Missed, End
<1>2. call.flushed = 0
  BY <1>1, Parts DEF FlushInv, Flushing
<1>3. call' \in CallType /\ call'.op = "idle" /\ call'.flushed = 0 /\ call'.failed
  BY <1>1, <1>2, Parts DEF CallType, Ops
<1>. QED BY <1>1, <1>3, EndKeeps DEF Positioned

(* A step at which a call crashes, because of something behind the end.    *)
Crashes ==
  /\ crash' # "none" /\ UNCHANGED <<os, f, call>>
  /\ \/ os.mode = "r" /\ os.mappable /\ f.pos > Len(os.data)
     \/ os.mode = "rw" /\ call.off > Len(os.data)

(* The copy from or to the window stays within it, or else the offset is   *)
(* behind the end of the file, and the size of the copy wraps around.      *)
LEMMA CopyPositionedKeeps ==
  ASSUME FileInv, CopyPositioned
  PROVE  (FileInv' /\ (KernelInStep => KernelInStep')) \/ Crashes
<1>1. /\ RecordsInv /\ FlushInv /\ os \in OsType /\ f \in FType /\ call \in CallType
  BY Parts
<1>2. call.op \in Positioned /\ (call.filled \/ Hit)
  BY DEF CopyPositioned
<1>3. /\ os.mode = "rw" /\ f.map = "none" /\ call.off \in Nat /\ call.want \in Nat
      /\ (call.op = "pwrite" => call.want = Len(call.bytes))
      /\ f.end = f.tag + Len(f.cbuf) /\ f.tag \in Nat /\ f.end \in Nat /\ f.cbuf \in Seq(Nat)
      /\ Len(f.cbuf) \in Nat /\ Len(f.cbuf) <= CbufSize /\ Len(os.data) \in Nat
  BY <1>2, PositionedHas
<1>4. f.positioned /\ f.tag <= call.off /\ (call.off <= f.end \/ call.off > Len(os.data))
  <2>1. CASE call.filled
    BY <1>2, <2>1, PositionedHas
  <2>2. CASE Hit
    BY <1>3, <2>2 DEF Hit
  <2>. QED BY <1>2, <2>1, <2>2
<1>5. f.end <= Len(os.data) \/ f.cbuf = << >>
  BY <1>2, <1>4, PositionedHas
<1>6. call.flushed = 0
  BY <1>1, <1>2 DEF FlushInv, Flushing, Missed, Writes, Positioned
<1>. DEFINE x == f.end - call.off
            n == Moved(x)
            from == call.off - f.tag
            got == SubSeq(f.cbuf, from + 1, from + n)
            head == SubSeq(call.bytes, 1, n)
            cbuf == Overwritten(f.cbuf, from, head)
<1>7. /\ n \in Nat /\ n <= call.want /\ from \in Nat
      /\ n > Max({0, x}) => call.off > Len(os.data)
      /\ ~(n > Max({0, x})) => n = 0 \/ from + n <= Len(f.cbuf)
  <2>1. x \in Int /\ from \in Nat /\ from + x = Len(f.cbuf) /\ (x < 0 => call.off > Len(os.data))
    BY <1>3, <1>4
  <2>. HIDE DEF x, from
  <2>2. /\ n = IF x < 0 \/ call.want <= x THEN call.want ELSE x
        /\ Max({0, x}) = IF x < 0 THEN 0 ELSE x
    BY <1>3, <2>1, MovedIs
  <2>. HIDE DEF n
  <2>. QED BY <1>3, <2>1, <2>2
<1>c. CASE n > Max({0, x})
  <2>1. Crash("wild")
    BY <1>c DEF CopyPositioned
  <2>2. call.off > Len(os.data)
    BY <1>7, <1>c
  <2>. HIDE DEF n, x
  <2>. QED BY <1>3, <2>1, <2>2 DEF Crashes, Crash
<1>. SUFFICES ASSUME ~(n > Max({0, x}))
              PROVE  FileInv' /\ (KernelInStep => KernelInStep')
  BY <1>c
<1>8. /\ os' = os /\ crash' = crash
      /\ \/ /\ call.op = "pread" /\ f' = f
            /\ call' = [[call EXCEPT !.got = got] EXCEPT !.op = "idle"]
         \/ /\ call.op = "pwrite" /\ f' = [f EXCEPT !.dirty = TRUE, !.cbuf = cbuf]
            /\ call' = [call EXCEPT !.op = "idle"]
  BY <1>2 DEF CopyPositioned, End, Positioned
<1>n. n = 0 \/ from + n <= Len(f.cbuf)
  BY <1>7
<1>. HIDE DEF n, from, x
<1>9. CASE call.op = "pread"
  <2>1. got \in Bytes
    BY <1>3, <1>7, <1>n, SliceIs DEF Bytes
  <2>. HIDE DEF got
  <2>2. /\ call' \in CallType /\ call'.op = "idle" /\ call'.flushed = 0
    BY <1>1, <1>6, <1>8, <1>9, <2>1 DEF CallType, Ops
  <2>. QED BY <1>3, <1>8, <1>9, <2>2, EndKeeps
<1>10. CASE call.op = "pwrite"
  <2>1. head \in Seq(Nat) /\ Len(head) = n
    <3>1. call.bytes \in Seq(Nat) /\ n <= Len(call.bytes)
      BY <1>1, <1>3, <1>7, <1>10 DEF CallType, Bytes
    <3>2. /\ SubSeq(call.bytes, 0 + 1, 0 + n) \in Seq(Nat)
          /\ Len(SubSeq(call.bytes, 0 + 1, 0 + n)) = n
      BY <1>7, <3>1, SliceIs
    <3>. QED BY <1>7, <3>2
  <2>. HIDE DEF head
  <2>2. cbuf \in Seq(Nat) /\ Len(cbuf) = Len(f.cbuf)
    <3>0. head \in Seq(Nat) /\ Len(head) = n /\ from \in Nat /\ f.cbuf \in Seq(Nat)
      BY <1>3, <1>7, <2>1
    <3>1. /\ cbuf \in Seq(Nat)
          /\ Len(cbuf) = IF head # << >> /\ from + n > Len(f.cbuf) THEN from + n ELSE Len(f.cbuf)
      BY <3>0, OverwrittenIs
    <3>2. ~(head # << >> /\ from + n > Len(f.cbuf))
      <4>1. n = 0 => head = << >>
        BY <2>1, EmptySeq
      <4>. QED BY <1>3, <1>7, <1>n, <4>1
    <3>. QED BY <3>1, <3>2
  <2>. HIDE DEF cbuf
  <2>3. /\ f' \in FType /\ f'.map = f.map /\ f'.positioned = f.positioned /\ f'.pos = f.pos
        /\ f'.tag = f.tag /\ f'.end = f.end /\ f'.cbuf = cbuf
    BY <1>1, <1>8, <1>10, <2>2 DEF FType, Bytes
  <2>4. /\ call' \in CallType /\ call'.flushed = 0 /\ call'.op = "idle"
        /\ call'.off = call.off /\ call'.want = call.want /\ call'.bytes = call.bytes
    BY <1>1, <1>6, <1>8, <1>10 DEF CallType, Ops
  <2>5. f'.end = f'.tag + Len(f'.cbuf) /\ Len(f'.cbuf) <= CbufSize
    BY <1>3, <2>2, <2>3
  <2>6. f'.end <= Len(os.data) \/ f'.cbuf = << >>
    BY <1>5, <2>2, <2>3, EmptySeq
  <2>. QED BY <1>2, <1>3, <1>4, <1>8, <2>3, <2>4, <2>5, <2>6, PositionedKeeps
<1>. QED BY <1>2, <1>9, <1>10 DEF Positioned

(* Any call begins.  After a refused one KernelInStep needs that the       *)
(* program gives up.                                                       *)
LEMMA CallKeeps ==
  ASSUME FileInv, Call, ~(os.mode = "r" /\ os.mappable)
  PROVE  FileInv' /\ (KernelInStep /\ ~Retries => KernelInStep')
<1>1. call.failed => Retries \/ os.mode = "rw"
  BY DEF Call
<1>2. ~Retries => Accepted
  BY <1>1 DEF Accepted
<1>3. /\ Wants \subseteq Nat /\ Offsets \subseteq Nat /\ \A t \in Texts : t \in Bytes /\ Len(t) \in Nat
      /\ << >> \in Bytes
  BY BufferedFileAssumption DEF Bytes
<1>4. CASE StartRead("readc", 1)
  BY <1>4, StartReadKeeps DEF Reads
<1>5. CASE \E n \in Wants : StartRead("read", n)
  BY <1>3, <1>5, StartReadKeeps DEF Reads
<1>6. CASE \E t \in Texts : StartWrite(IF Len(t) = 1 THEN "writec" ELSE "write", t)
  <2>1. PICK t \in Texts : StartWrite(IF Len(t) = 1 THEN "writec" ELSE "write", t)
    BY <1>6
  <2>2. (IF Len(t) = 1 THEN "writec" ELSE "write") \in Writes
    BY DEF Writes
  <2>. QED BY <1>2, <1>3, <2>1, <2>2, StartWriteKeeps
<1>7. CASE ~os.mappable /\ StartFlush("flush")
  BY <1>2, <1>7, StartFlushKeeps
<1>8. CASE StartFlush("close")
  BY <1>2, <1>8, StartFlushKeeps
<1>9. ASSUME NEW off \in Offsets,
             \/ os.mode # "rw" /\ StartSeek(off)
             \/ \E n \in Wants : StartPositioned("pread", n, << >>, off)
             \/ \E t \in Texts : StartPositioned("pwrite", Len(t), t, off)
      PROVE  FileInv' /\ (KernelInStep /\ ~Retries => KernelInStep')
  <2>1. CASE os.mode # "rw" /\ StartSeek(off)
    BY <1>2, <1>3, <1>9, <2>1, StartSeekKeeps
  <2>2. CASE \E n \in Wants : StartPositioned("pread", n, << >>, off)
    <3>1. PICK n \in Wants : StartPositioned("pread", n, << >>, off)
      BY <2>2
    <3>2. os.mode = "rw" /\ "pread" \in Positioned
      BY <3>1 DEF StartPositioned, Positioned
    <3>3. n \in Nat /\ off \in Nat
      BY <1>3, <1>9
    <3>. QED BY <1>2, <1>3, <3>1, <3>2, <3>3, StartPositionedKeeps
  <2>3. CASE \E t \in Texts : StartPositioned("pwrite", Len(t), t, off)
    <3>1. PICK t \in Texts : StartPositioned("pwrite", Len(t), t, off)
      BY <2>3
    <3>2. os.mode = "rw" /\ "pwrite" \in Positioned
      BY <3>1 DEF StartPositioned, Positioned
    <3>3. t \in Bytes /\ Len(t) \in Nat /\ off \in Nat
      BY <1>3, <1>9
    <3>. QED BY <1>2, <3>1, <3>2, <3>3, StartPositionedKeeps
  <2>. QED BY <1>9, <2>1, <2>2, <2>3
<1>. QED BY <1>4, <1>5, <1>6, <1>7, <1>8, <1>9 DEF Call

(* Any step of a call in progress.                                         *)
LEMMA StepKeeps ==
  ASSUME FileInv, Step
  PROVE  (FileInv' /\ (KernelInStep => KernelInStep')) \/ Crashes
BY ReadMappedKeeps, CopyCachedKeeps, FillKeeps, ReadReturnsKeeps, CopyInKeeps, WriteReturnsKeeps,
   FlushWritesKeeps, FlushEndsKeeps, FlushCleanKeeps, SeekInCacheKeeps, SeekInKernelKeeps,
   SeekFailsKeeps, PfillKeeps, CopyPositionedKeeps DEF Step

(* Any fault.                                                              *)
LEMMA FaultKeeps ==
  ASSUME FileInv, Fault
  PROVE  FileInv' /\ (KernelInStep => KernelInStep')
BY FillAgainKeeps, FlushFailsKeeps, PfillFailsKeeps DEF Fault

(* Steps that change nothing here.                                         *)
LEMMA StutterKeeps ==
  ASSUME FileInv, UNCHANGED vars
  PROVE  FileInv' /\ (KernelInStep => KernelInStep')
<1>1. os' = os /\ f' = f /\ call' = call /\ crash' = crash
  BY DEF vars
<1>. QED BY <1>1
         DEF FileInv, RecordsInv, OsType, FType, CallType, ReadInv, WriteInv, PositionedInv,
             CacheInv, FlushInv, Flushing, Full, InCache, Missed, Hit, KernelInStep

-----------------------------------------------------------------------------
(* What writes at various places make of a file.                           *)

(* The bytes b are those of the file d from offset at on.                  *)
Shows(d, at, b) == \A i \in 1..Len(b) : at + i <= Len(d) /\ b[i] = d[at + i]

(* PlainFile's way of writing into a file is BufferedFile's.               *)
LEMMA PlainOverwritten ==
  ASSUME NEW s \in Seq(Nat), NEW at \in Nat, NEW b \in Seq(Nat)
  PROVE  Plain!Overwritten(s, at, b) = Overwritten(s, at, b)
<1>. DEFINE end == at + Len(b)
            size == IF b # << >> THEN Max({end, Len(s)}) ELSE Len(s)
            sizeP == IF b # << >> /\ end > Len(s) THEN end ELSE Len(s)
            e(i) == IF at < i /\ i <= end THEN b[i - at]
                    ELSE IF i <= Len(s) THEN s[i] ELSE 0
            eP(i) == IF i \in (at + 1)..end THEN b[i - at]
                     ELSE IF i <= Len(s) THEN s[i] ELSE 0
<1>1. Overwritten(s, at, b) = [i \in 1..size |-> e(i)]
  BY DEF Overwritten
<1>2. Plain!Overwritten(s, at, b) = [i \in 1..sizeP |-> eP(i)]
  BY DEF Plain!Overwritten
<1>3. end \in Nat /\ Len(s) \in Nat /\ Len(b) \in Nat
  OBVIOUS
<1>4. size = sizeP
  <2>1. Max({end, Len(s)}) = IF end >= Len(s) THEN end ELSE Len(s)
    <3>. HIDE DEF end
    <3>1. end \in Int /\ Len(s) \in Int
      BY <1>3
    <3>. QED BY <3>1, MaxIs
  <2>. QED BY <1>3, <2>1
<1>5. \A i \in 1..sizeP : e(i) = eP(i)
  <2>. SUFFICES ASSUME NEW i \in 1..sizeP PROVE e(i) = eP(i)
    OBVIOUS
  <2>1. i \in Int
    OBVIOUS
  <2>2. (i \in (at + 1)..end) <=> (at < i /\ i <= end)
    BY <1>3, <2>1
  <2>. QED BY <2>2
<1>. HIDE DEF size, sizeP, e, eP
<1>. QED BY <1>1, <1>2, <1>4, <1>5

(* Writing nothing changes nothing.                                        *)
LEMMA EmptyOverwrites ==
  ASSUME NEW s \in Seq(Nat), NEW at \in Nat
  PROVE  Overwritten(s, at, << >>) = s
<1>1. << >> \in Seq(Nat) /\ Len(<< >>) = 0
  OBVIOUS
<1>. DEFINE o == Overwritten(s, at, << >>)
<1>2. /\ o \in Seq(Nat) /\ Len(o) = Len(s)
      /\ \A i \in 1..Len(o) : o[i] = IF at < i /\ i <= at + 0 THEN << >>[i - at]
                                     ELSE IF i <= Len(s) THEN s[i] ELSE 0
  BY <1>1, OverwrittenIs
<1>. HIDE DEF o
<1>3. ASSUME NEW i \in 1..Len(o)
      PROVE  o[i] = s[i]
  <2>1. ~(at < i /\ i <= at + 0) /\ i <= Len(s)
    BY <1>2
  <2>. QED BY <1>2, <2>1
<1>4. o = s
  BY <1>2, <1>3, SeqEqual
<1>. QED BY <1>4 DEF o

(* Nor does writing what is there already.                                 *)
LEMMA ShownOverwrites ==
  ASSUME NEW s \in Seq(Nat), NEW at \in Nat, NEW b \in Seq(Nat), Shows(s, at, b)
  PROVE  Overwritten(s, at, b) = s
<1>. DEFINE o == Overwritten(s, at, b)
<1>1. /\ o \in Seq(Nat)
      /\ Len(o) = IF b # << >> /\ at + Len(b) > Len(s) THEN at + Len(b) ELSE Len(s)
      /\ \A i \in 1..Len(o) : o[i] = IF at < i /\ i <= at + Len(b) THEN b[i - at]
                                     ELSE IF i <= Len(s) THEN s[i] ELSE 0
  BY OverwrittenIs
<1>2. Len(b) \in Nat /\ Len(s) \in Nat
  OBVIOUS
<1>3. Len(o) = Len(s)
  <2>1. ASSUME b # << >>
        PROVE  at + Len(b) <= Len(s)
    <3>1. Len(b) \in 1..Len(b)
      BY <2>1, <1>2, EmptySeq
    <3>. QED BY <3>1 DEF Shows
  <2>. HIDE DEF o
  <2>. QED BY <1>1, <1>2, <2>1
<1>. HIDE DEF o
<1>4. ASSUME NEW i \in 1..Len(o)
      PROVE  o[i] = s[i]
  <2>1. CASE at < i /\ i <= at + Len(b)
    <3>1. i - at \in 1..Len(b) /\ at + (i - at) = i
      BY <1>2, <1>3, <2>1
    <3>2. b[i - at] = s[at + (i - at)]
      BY <3>1 DEF Shows
    <3>. QED BY <1>1, <2>1, <3>1, <3>2
  <2>2. CASE ~(at < i /\ i <= at + Len(b))
    BY <1>1, <1>2, <1>3, <2>2
  <2>. QED BY <2>1, <2>2
<1>5. o = s
  BY <1>1, <1>3, <1>4, SeqEqual
<1>. QED BY <1>5 DEF o

(* That n of the bytes b, from the k-th on, were written first, makes no   *)
(* difference.                                                             *)
Absorbed(d, t, b, k, n) ==
  Overwritten(Overwritten(d, t + k, SubSeq(b, k + 1, k + n)), t, b) = Overwritten(d, t, b)

(* So it is for every part of b: writing a part first and the whole        *)
(* afterwards is writing the whole.                                        *)
LEMMA PartOverwrites ==
  ASSUME NEW d \in Seq(Nat), NEW t \in Nat, NEW b \in Seq(Nat), NEW k \in Nat, NEW n \in Nat,
         n > 0, k + n <= Len(b)
  PROVE  Absorbed(d, t, b, k, n)
<1>. DEFINE h == SubSeq(b, k + 1, k + n)
            m == Overwritten(d, t + k, h)
            o == Overwritten(m, t, b)
            w == Overwritten(d, t, b)
<1>1. /\ h \in Seq(Nat) /\ Len(h) = n /\ \A i \in 1..n : h[i] = b[k + i]
  BY SliceIs
<1>. HIDE DEF h
<1>2. t + k \in Nat /\ Len(b) \in Nat /\ Len(d) \in Nat
  OBVIOUS
<1>3. h # << >> /\ b # << >>
  BY <1>1, <1>2
<1>4. /\ m \in Seq(Nat)
      /\ Len(m) = IF (t + k) + n > Len(d) THEN (t + k) + n ELSE Len(d)
      /\ \A i \in 1..Len(m) : m[i] = IF t + k < i /\ i <= (t + k) + n THEN h[i - (t + k)]
                                     ELSE IF i <= Len(d) THEN d[i] ELSE 0
  <2>. DEFINE q == t + k
  <2>1. q \in Nat
    BY <1>2
  <2>2. m = Overwritten(d, q, h)
    OBVIOUS
  <2>. HIDE DEF q, m
  <2>3. /\ m \in Seq(Nat) /\ Len(m) = IF q + n > Len(d) THEN q + n ELSE Len(d)
        /\ \A i \in 1..Len(m) : m[i] = IF q < i /\ i <= q + n THEN h[i - q]
                                       ELSE IF i <= Len(d) THEN d[i] ELSE 0
    <3>1. Len(h) = n
      BY <1>1
    <3>2. /\ m \in Seq(Nat)
          /\ Len(m) = IF h # << >> /\ q + Len(h) > Len(d) THEN q + Len(h) ELSE Len(d)
          /\ \A i \in 1..Len(m) : m[i] = IF q < i /\ i <= q + Len(h) THEN h[i - q]
                                         ELSE IF i <= Len(d) THEN d[i] ELSE 0
      <4>1. h \in Seq(Nat)
        BY <1>1
      <4>. DEFINE v == Overwritten(d, q, h)
      <4>2. /\ v \in Seq(Nat)
            /\ Len(v) = IF h # << >> /\ q + Len(h) > Len(d) THEN q + Len(h) ELSE Len(d)
            /\ \A i \in 1..Len(v) : v[i] = IF q < i /\ i <= q + Len(h) THEN h[i - q]
                                           ELSE IF i <= Len(d) THEN d[i] ELSE 0
        BY <2>1, <4>1, OverwrittenIs
      <4>3. m = v
        BY <2>2
      <4>. HIDE DEF v
      <4>. QED BY <4>2, <4>3
    <3>. QED BY <1>3, <3>1, <3>2
  <2>. QED BY <2>3 DEF q
<1>. HIDE DEF m
<1>5. /\ o \in Seq(Nat)
      /\ Len(o) = IF t + Len(b) > Len(m) THEN t + Len(b) ELSE Len(m)
      /\ \A i \in 1..Len(o) : o[i] = IF t < i /\ i <= t + Len(b) THEN b[i - t]
                                     ELSE IF i <= Len(m) THEN m[i] ELSE 0
  BY <1>3, <1>4, OverwrittenIs
<1>6. /\ w \in Seq(Nat)
      /\ Len(w) = IF t + Len(b) > Len(d) THEN t + Len(b) ELSE Len(d)
      /\ \A i \in 1..Len(w) : w[i] = IF t < i /\ i <= t + Len(b) THEN b[i - t]
                                     ELSE IF i <= Len(d) THEN d[i] ELSE 0
  BY <1>3, OverwrittenIs
<1>. HIDE DEF o, w
<1>7. Len(m) \in Nat /\ Len(o) = Len(w) /\ Len(w) \in Nat
  <2>1. Len(m) = IF (t + k) + n > Len(d) THEN (t + k) + n ELSE Len(d)
    BY <1>4
  <2>2. Len(o) = IF t + Len(b) > Len(m) THEN t + Len(b) ELSE Len(m)
    BY <1>5
  <2>3. Len(w) = IF t + Len(b) > Len(d) THEN t + Len(b) ELSE Len(d)
    BY <1>6
  <2>. DEFINE x == (t + k) + n
              y == t + Len(b)
  <2>4. x <= y /\ x \in Nat /\ y \in Nat /\ Len(d) \in Nat
    BY <1>2
  <2>. HIDE DEF x, y
  <2>5. Len(m) = IF x > Len(d) THEN x ELSE Len(d)
    BY <2>1 DEF x
  <2>6. Len(o) = IF y > Len(m) THEN y ELSE Len(m)
    BY <2>2 DEF y
  <2>7. Len(w) = IF y > Len(d) THEN y ELSE Len(d)
    BY <2>3 DEF y
  <2>. QED BY <2>4, <2>5, <2>6, <2>7
<1>8. ASSUME NEW i \in 1..Len(o)
      PROVE  o[i] = w[i]
  <2>1. i \in Nat /\ i >= 1 /\ i \in 1..Len(w)
    BY <1>7
  <2>2. CASE t < i /\ i <= t + Len(b)
    BY <1>5, <1>6, <2>1, <2>2
  <2>3. CASE ~(t < i /\ i <= t + Len(b))
    <3>1. ~(t + k < i /\ i <= (t + k) + n)
      BY <1>2, <2>1, <2>3
    <3>2. o[i] = IF i <= Len(m) THEN m[i] ELSE 0
      BY <1>5, <2>3
    <3>3. w[i] = IF i <= Len(d) THEN d[i] ELSE 0
      BY <1>6, <2>1, <2>3
    <3>4. CASE i <= Len(m)
      <4>1. i \in 1..Len(m)
        BY <1>7, <2>1, <3>4
      <4>2. m[i] = IF i <= Len(d) THEN d[i] ELSE 0
        BY <1>4, <3>1, <4>1
      <4>. QED BY <3>2, <3>3, <3>4, <4>2
    <3>5. CASE ~(i <= Len(m))
      <4>1. ~(i <= Len(d))
        BY <1>2, <1>4, <1>7, <2>1, <3>5
      <4>. QED BY <3>2, <3>3, <3>5, <4>1
    <3>. QED BY <3>4, <3>5
  <2>. QED BY <2>2, <2>3
<1>9. o = w
  BY <1>5, <1>6, <1>7, <1>8, SeqEqual
<1>. QED BY <1>9 DEF o, w, m, h, Absorbed

(* Appending to the bytes is writing behind them.                          *)
LEMMA AppendOverwrites ==
  ASSUME NEW d \in Seq(Nat), NEW t \in Nat, NEW b \in Seq(Nat), NEW h \in Seq(Nat), h # << >>
  PROVE  Overwritten(Overwritten(d, t, b), t + Len(b), h) = Overwritten(d, t, b \o h)
<1>. DEFINE c == b \o h
            m == Overwritten(d, t, b)
            p == t + Len(b)
            o == Overwritten(m, p, h)
            w == Overwritten(d, t, c)
<1>1. Len(b) \in Nat /\ Len(d) \in Nat /\ Len(h) \in Nat /\ Len(h) > 0 /\ p \in Nat
  BY EmptySeq
<1>2. /\ c \in Seq(Nat) /\ Len(c) = Len(b) + Len(h)
      /\ \A i \in 1..(Len(b) + Len(h)) : c[i] = IF i <= Len(b) THEN b[i] ELSE h[i - Len(b)]
  BY ConcatProperties
<1>. HIDE DEF c
<1>3. c # << >>
  BY <1>1, <1>2
<1>4. /\ m \in Seq(Nat)
      /\ Len(m) = IF b # << >> /\ p > Len(d) THEN p ELSE Len(d)
      /\ \A i \in 1..Len(m) : m[i] = IF t < i /\ i <= p THEN b[i - t]
                                     ELSE IF i <= Len(d) THEN d[i] ELSE 0
  BY OverwrittenIs
<1>. HIDE DEF m
<1>5. /\ o \in Seq(Nat)
      /\ Len(o) = IF p + Len(h) > Len(m) THEN p + Len(h) ELSE Len(m)
      /\ \A i \in 1..Len(o) : o[i] = IF p < i /\ i <= p + Len(h) THEN h[i - p]
                                     ELSE IF i <= Len(m) THEN m[i] ELSE 0
  <2>. HIDE DEF p
  <2>. QED BY <1>1, <1>4, OverwrittenIs
<1>6. /\ w \in Seq(Nat)
      /\ Len(w) = IF t + Len(c) > Len(d) THEN t + Len(c) ELSE Len(d)
      /\ \A i \in 1..Len(w) : w[i] = IF t < i /\ i <= t + Len(c) THEN c[i - t]
                                     ELSE IF i <= Len(d) THEN d[i] ELSE 0
  BY <1>2, <1>3, OverwrittenIs
<1>. HIDE DEF o, w
<1>7. Len(m) \in Nat /\ Len(o) = Len(w) /\ Len(w) \in Nat
  <2>1. Len(m) = IF b # << >> /\ p > Len(d) THEN p ELSE Len(d)
    BY <1>4
  <2>2. Len(o) = IF p + Len(h) > Len(m) THEN p + Len(h) ELSE Len(m)
    BY <1>5
  <2>3. Len(w) = IF p + Len(h) > Len(d) THEN p + Len(h) ELSE Len(d)
    <3>1. t + Len(c) = p + Len(h)
      BY <1>1, <1>2
    <3>. QED BY <1>6, <3>1
  <2>. HIDE DEF p
  <2>. QED BY <1>1, <2>1, <2>2, <2>3
<1>8. ASSUME NEW i \in 1..Len(o)
      PROVE  o[i] = w[i]
  <2>1. i \in Nat /\ i >= 1 /\ i \in 1..Len(w)
    BY <1>7
  <2>2. CASE p < i /\ i <= p + Len(h)
    <3>1. o[i] = h[i - p]
      BY <1>5, <2>2
    <3>2. w[i] = c[i - t]
      <4>1. t < i /\ i <= t + Len(c)
        BY <1>1, <1>2, <2>1, <2>2
      <4>. QED BY <1>6, <2>1, <4>1
    <3>3. i - t \in 1..(Len(b) + Len(h)) /\ ~(i - t <= Len(b)) /\ (i - t) - Len(b) = i - p
      BY <1>1, <2>1, <2>2
    <3>4. c[i - t] = h[(i - t) - Len(b)]
      BY <1>2, <3>3
    <3>. QED BY <3>1, <3>2, <3>3, <3>4
  <2>3. CASE t < i /\ i <= p
    <3>1. b # << >> /\ i - t \in 1..Len(b)
      BY <1>1, <2>1, <2>3
    <3>2. i \in 1..Len(m)
      BY <1>1, <1>4, <1>7, <2>1, <2>3, <3>1
    <3>3. o[i] = m[i] /\ m[i] = b[i - t]
      <4>1. ~(p < i /\ i <= p + Len(h)) /\ i <= Len(m)
        BY <1>1, <1>7, <2>1, <2>3, <3>2
      <4>2. o[i] = m[i]
        BY <1>5, <4>1
      <4>3. m[i] = b[i - t]
        BY <1>4, <2>3, <3>2
      <4>. QED BY <4>2, <4>3
    <3>4. w[i] = c[i - t]
      <4>1. t < i /\ i <= t + Len(c)
        BY <1>1, <1>2, <2>1, <2>3
      <4>. QED BY <1>6, <2>1, <4>1
    <3>5. c[i - t] = b[i - t]
      <4>. DEFINE j == i - t
      <4>1. j \in 1..(Len(b) + Len(h)) /\ j <= Len(b)
        BY <1>1, <3>1
      <4>. HIDE DEF j
      <4>2. c[j] = b[j]
        BY <1>2, <4>1
      <4>. QED BY <4>2 DEF j
    <3>. QED BY <3>3, <3>4, <3>5
  <2>4. CASE ~(t < i /\ i <= p + Len(h))
    <3>1. ~(p < i /\ i <= p + Len(h)) /\ ~(t < i /\ i <= p)
      BY <1>1, <2>1, <2>4
    <3>2. o[i] = IF i <= Len(m) THEN m[i] ELSE 0
      BY <1>5, <3>1
    <3>3. w[i] = IF i <= Len(d) THEN d[i] ELSE 0
      <4>1. ~(t < i /\ i <= t + Len(c))
        BY <1>1, <1>2, <2>1, <2>4
      <4>. QED BY <1>6, <2>1, <4>1
    <3>4. CASE i <= Len(m)
      <4>1. i \in 1..Len(m)
        BY <1>7, <2>1, <3>4
      <4>2. m[i] = IF i <= Len(d) THEN d[i] ELSE 0
        BY <1>4, <3>1, <4>1
      <4>. QED BY <3>2, <3>3, <3>4, <4>2
    <3>5. CASE ~(i <= Len(m))
      <4>1. ~(i <= Len(d))
        BY <1>1, <1>4, <1>7, <2>1, <3>5
      <4>. QED BY <3>2, <3>3, <3>5, <4>1
    <3>. QED BY <3>4, <3>5
  <2>. QED BY <1>1, <2>1, <2>2, <2>3, <2>4
<1>9. o = w
  BY <1>5, <1>6, <1>7, <1>8, SeqEqual
<1>. QED BY <1>9 DEF o, w, m, c, p

-----------------------------------------------------------------------------
(* Windows.                                                                *)

(* n bytes of s from offset a on are those of c from offset e on.          *)
Matches(s, c, a, e, n) == \A k \in 1..n : s[a + k] = c[e + k]

(* Matching bytes make equal buffers.                                      *)
LEMMA SlicesAgree ==
  ASSUME NEW s \in Seq(Nat), NEW c \in Seq(Nat), NEW a \in Nat, NEW e \in Nat, NEW n \in Nat,
         a + n <= Len(s), e + n <= Len(c), Matches(s, c, a, e, n)
  PROVE  SubSeq(s, a + 1, a + n) = SubSeq(c, e + 1, e + n)
<1>. DEFINE x == SubSeq(s, a + 1, a + n)
            y == SubSeq(c, e + 1, e + n)
<1>1. x \in Seq(Nat) /\ Len(x) = n /\ \A k \in 1..n : x[k] = s[a + k]
  BY SliceIs
<1>2. y \in Seq(Nat) /\ Len(y) = n /\ \A k \in 1..n : y[k] = c[e + k]
  BY SliceIs
<1>. HIDE DEF x, y
<1>3. Len(x) = Len(y) /\ \A k \in 1..Len(x) : x[k] = y[k]
  BY <1>1, <1>2 DEF Matches
<1>4. x = y
  BY <1>1, <1>2, <1>3, SeqEqual
<1>. QED BY <1>4 DEF x, y

(* Within the file, overwriting a window of it.                            *)
LEMMA WindowOverwritten ==
  ASSUME NEW d \in Seq(Nat), NEW t \in Nat, NEW c \in Seq(Nat), t + Len(c) <= Len(d)
  PROVE  /\ Overwritten(d, t, c) \in Seq(Nat) /\ Len(Overwritten(d, t, c)) = Len(d)
         /\ \A i \in 1..Len(d) :
              Overwritten(d, t, c)[i] = IF t < i /\ i <= t + Len(c) THEN c[i - t] ELSE d[i]
<1>. DEFINE o == Overwritten(d, t, c)
<1>1. /\ o \in Seq(Nat)
      /\ Len(o) = IF c # << >> /\ t + Len(c) > Len(d) THEN t + Len(c) ELSE Len(d)
      /\ \A i \in 1..Len(o) : o[i] = IF t < i /\ i <= t + Len(c) THEN c[i - t]
                                     ELSE IF i <= Len(d) THEN d[i] ELSE 0
  BY OverwrittenIs
<1>. HIDE DEF o
<1>2. Len(c) \in Nat /\ Len(d) \in Nat
  OBVIOUS
<1>3. ~(t + Len(c) > Len(d))
  BY <1>2
<1>4. Len(o) = Len(d)
  BY <1>1, <1>3
<1>5. \A i \in 1..Len(d) : o[i] = IF t < i /\ i <= t + Len(c) THEN c[i - t] ELSE d[i]
  <2>. SUFFICES ASSUME NEW i \in 1..Len(d)
                PROVE  o[i] = IF t < i /\ i <= t + Len(c) THEN c[i - t] ELSE d[i]
    OBVIOUS
  <2>1. i <= Len(d)
    OBVIOUS
  <2>. QED BY <1>1, <1>4, <2>1
<1>. QED BY <1>1, <1>4, <1>5 DEF o

(* Writing into the window is writing at its place in the file.            *)
Placed(d, t, c, e, h) ==
  Overwritten(Overwritten(d, t, c), t + e, h) = Overwritten(d, t, Overwritten(c, e, h))

(* So it is for a window within the file and a write within the window.    *)
LEMMA PlaceOverwrites ==
  ASSUME NEW d \in Seq(Nat), NEW t \in Nat, NEW c \in Seq(Nat), t + Len(c) <= Len(d),
         NEW e \in Nat, NEW h \in Seq(Nat), e + Len(h) <= Len(c)
  PROVE  Placed(d, t, c, e, h)
<1>. DEFINE m == Overwritten(d, t, c)
            g == Overwritten(c, e, h)
            p == t + e
            o == Overwritten(m, p, h)
            w == Overwritten(d, t, g)
<1>1. Len(c) \in Nat /\ Len(d) \in Nat /\ Len(h) \in Nat /\ p \in Nat
  OBVIOUS
<1>2. /\ m \in Seq(Nat) /\ Len(m) = Len(d)
      /\ \A i \in 1..Len(d) : m[i] = IF t < i /\ i <= t + Len(c) THEN c[i - t] ELSE d[i]
  BY WindowOverwritten
<1>3. /\ g \in Seq(Nat) /\ Len(g) = Len(c)
      /\ \A i \in 1..Len(c) : g[i] = IF e < i /\ i <= e + Len(h) THEN h[i - e] ELSE c[i]
  BY WindowOverwritten
<1>. HIDE DEF m, g
<1>4. /\ o \in Seq(Nat) /\ Len(o) = Len(d)
      /\ \A i \in 1..Len(d) : o[i] = IF p < i /\ i <= p + Len(h) THEN h[i - p] ELSE m[i]
  <2>1. p + Len(h) <= Len(m)
    BY <1>1, <1>2
  <2>. HIDE DEF p, o
  <2>2. o = Overwritten(m, p, h)
    BY DEF o
  <2>3. Len(m) = Len(d) /\ m \in Seq(Nat)
    BY <1>2
  <2>. DEFINE v == Overwritten(m, p, h)
  <2>4. /\ v \in Seq(Nat) /\ Len(v) = Len(m)
        /\ \A i \in 1..Len(m) : v[i] = IF p < i /\ i <= p + Len(h) THEN h[i - p] ELSE m[i]
    BY <1>1, <2>1, <2>3, WindowOverwritten
  <2>. HIDE DEF v
  <2>5. o = v
    BY <2>2 DEF v
  <2>. QED BY <2>3, <2>4, <2>5
<1>5. /\ w \in Seq(Nat) /\ Len(w) = Len(d)
      /\ \A i \in 1..Len(d) : w[i] = IF t < i /\ i <= t + Len(c) THEN g[i - t] ELSE d[i]
  <2>1. t + Len(g) <= Len(d) /\ g \in Seq(Nat)
    BY <1>3
  <2>2. /\ w \in Seq(Nat) /\ Len(w) = Len(d)
        /\ \A i \in 1..Len(d) : w[i] = IF t < i /\ i <= t + Len(g) THEN g[i - t] ELSE d[i]
    BY <2>1, WindowOverwritten
  <2>3. Len(g) = Len(c)
    BY <1>3
  <2>. HIDE DEF w
  <2>. QED BY <2>2, <2>3
<1>. HIDE DEF o, w
<1>6. ASSUME NEW i \in 1..Len(d)
      PROVE  o[i] = w[i]
  <2>. DEFINE j == i - t
  <2>1. i \in Nat /\ j \in Int /\ j - e = i - p
    BY <1>1
  <2>2. CASE t < i /\ i <= t + Len(c)
    <3>1. j \in 1..Len(c)
      BY <1>1, <2>1, <2>2
    <3>2. w[i] = g[j] /\ m[i] = c[j]
      BY <1>2, <1>5, <2>2
    <3>3. (e < j /\ j <= e + Len(h)) <=> (p < i /\ i <= p + Len(h))
      BY <1>1, <2>1
    <3>. HIDE DEF j
    <3>4. g[j] = IF e < j /\ j <= e + Len(h) THEN h[j - e] ELSE c[j]
      BY <1>3, <3>1
    <3>5. o[i] = IF p < i /\ i <= p + Len(h) THEN h[i - p] ELSE m[i]
      BY <1>4
    <3>. HIDE DEF p
    <3>. QED BY <2>1, <3>2, <3>3, <3>4, <3>5
  <2>3. CASE ~(t < i /\ i <= t + Len(c))
    <3>1. ~(p < i /\ i <= p + Len(h))
      BY <1>1, <2>1, <2>3
    <3>2. o[i] = m[i] /\ m[i] = d[i]
      BY <1>2, <1>4, <2>3, <3>1
    <3>3. w[i] = d[i]
      BY <1>5, <2>3
    <3>. QED BY <3>2, <3>3
  <2>. QED BY <2>2, <2>3
<1>7. o = w
  BY <1>4, <1>5, <1>6, SeqEqual
<1>. QED BY <1>7 DEF o, w, m, g, p, Placed

(* What the window shows of the file.                                      *)
Sliced(d, t, c, e, n) ==
  /\ SubSeq(Overwritten(d, t, c), t + e + 1, t + e + n) = SubSeq(c, e + 1, e + n)
  /\ t + e + n <= Len(Overwritten(d, t, c))

(* So it is for a window within the file and a read within the window.     *)
LEMMA WindowSlice ==
  ASSUME NEW d \in Seq(Nat), NEW t \in Nat, NEW c \in Seq(Nat), t + Len(c) <= Len(d),
         NEW e \in Nat, NEW n \in Nat, e + n <= Len(c)
  PROVE  Sliced(d, t, c, e, n)
<1>. DEFINE m == Overwritten(d, t, c)
            p == t + e
<1>1. Len(c) \in Nat /\ Len(d) \in Nat /\ p \in Nat
  OBVIOUS
<1>2. /\ m \in Seq(Nat) /\ Len(m) = Len(d)
      /\ \A i \in 1..Len(d) : m[i] = IF t < i /\ i <= t + Len(c) THEN c[i - t] ELSE d[i]
  BY WindowOverwritten
<1>. HIDE DEF m
<1>3. p + n <= Len(m)
  BY <1>1, <1>2
<1>4. ASSUME NEW k \in 1..n
      PROVE  m[p + k] = c[e + k]
  <2>. DEFINE i == p + k
  <2>1. i \in 1..Len(d) /\ t < i /\ i <= t + Len(c) /\ i - t = e + k
    BY <1>1, <1>2, <1>3
  <2>. HIDE DEF i
  <2>2. m[i] = c[i - t]
    BY <1>2, <2>1
  <2>. QED BY <2>1, <2>2 DEF i
<1>. HIDE DEF p
<1>5. SubSeq(m, p + 1, p + n) = SubSeq(c, e + 1, e + n)
  <2>1. m \in Seq(Nat) /\ p \in Nat
    BY <1>1, <1>2
  <2>2. Matches(m, c, p, e, n)
    BY <1>4 DEF Matches
  <2>. QED BY <1>3, <2>1, <2>2, SlicesAgree
<1>. QED BY <1>3, <1>5 DEF m, p, Sliced

(* A slice without bytes.                                                  *)
NothingOf(s, at, n) == SubSeq(s, at + 1, at + n) = << >>

(* It is so anywhere, even behind the end of the file.                     *)
LEMMA NoSlice ==
  ASSUME NEW s \in Seq(Nat), NEW at \in Nat, NEW n, n = 0
  PROVE  NothingOf(s, at, n)
<1>1. at + 1 \in Int /\ at + n \in Int /\ ~(at + 1 <= at + n)
  OBVIOUS
<1>2. \A i \in (at + 1)..(at + n) : s[i] \in Nat
  BY <1>1
<1>. DEFINE b == SubSeq(s, at + 1, at + n)
<1>3. b \in Seq(Nat) /\ Len(b) = 0
  BY <1>1, <1>2, SubSeqProperties
<1>. HIDE DEF b
<1>4. b = << >>
  BY <1>3, EmptySeq
<1>. QED BY <1>4 DEF b, NothingOf

-----------------------------------------------------------------------------
(* PlainFile's actions, and the invariant that refines them.               *)

(* The file as the program sees it.                                        *)
Seen == IF f.dirty THEN Overwritten(os.data, f.tag, f.cbuf) ELSE os.data

(* The call as PlainFile has it.                                           *)
Asked == [op |-> call.op, want |-> call.want, bytes |-> call.bytes, off |-> call.off,
          got |-> call.got]

(* What a file does that has no cache.                                     *)
PlainStep == [Plain!Next]_Plain!vars

(* A step that the program does not see.                                   *)
LEMMA Stutters ==
  ASSUME Seen' = Seen, os'.data = os.data, f'.pos = f.pos, Asked' = Asked,
         call'.failed = call.failed
  PROVE  PlainStep
BY DEF PlainStep, Plain!vars, Seen, Asked

(* A call begins, and the program sees no change.                          *)
LEMMA Begins ==
  ASSUME call.op = "idle", call'.op # "idle", call'.got = << >>, ~call'.failed,
         Seen' = Seen, os'.data = os.data, f'.pos = f.pos
  PROVE  PlainStep
<1>1. Plain!Begin
  BY DEF Plain!Begin, Seen
<1>. QED BY <1>1 DEF PlainStep, Plain!Next

(* n bytes are read from what the program sees, at its position.           *)
LEMMA ReadsMore ==
  ASSUME call.op \in Reads, Seen' = Seen, os'.data = os.data, call'.failed = call.failed,
         NEW n \in 1..(call.want - Len(call.got)), f.pos + n <= Len(Seen), f'.pos = f.pos + n,
         call'.got = call.got \o SubSeq(Seen, f.pos + 1, f.pos + n),
         call'.op = "idle" => Len(call'.got) = call.want \/ f'.pos = Len(Seen)
  PROVE  PlainStep
<1>1. Plain!Read
  BY DEF Plain!Read, Seen, Reads
<1>. QED BY <1>1 DEF PlainStep, Plain!Next

(* n bytes are written to what the program sees, at its position.          *)
LEMMA WritesMore ==
  ASSUME call.op \in Writes, os'.data = os.data, call'.failed = call.failed,
         NEW n \in 1..Len(call.bytes),
         Seen' = Plain!Overwritten(Seen, f.pos, SubSeq(call.bytes, 1, n)), f'.pos = f.pos + n,
         Asked' = [Asked EXCEPT !.bytes = SubSeq(@, n + 1, Len(@))]
  PROVE  PlainStep
<1>1. Plain!Write
  BY DEF Plain!Write, Seen, Writes, Asked
<1>. QED BY <1>1 DEF PlainStep, Plain!Next

(* io61_pread returns n bytes of what the program sees.                    *)
LEMMA Preads ==
  ASSUME call.op = "pread", call'.op = "idle", Seen' = Seen, os'.data = os.data,
         f'.pos = f.pos, call'.failed = call.failed, NEW n \in 0..call.want,
         n = 0 => call.want = 0 \/ call.off >= Len(Seen),
         n > 0 => call.off + n <= Len(Seen),
         call'.got = SubSeq(Seen, call.off + 1, call.off + n)
  PROVE  PlainStep
<1>1. Plain!Pread
  BY DEF Plain!Pread, Seen
<1>. QED BY <1>1 DEF PlainStep, Plain!Next

(* io61_pwrite returns, n bytes being written to what the program sees.    *)
LEMMA Pwrites ==
  ASSUME call.op = "pwrite", call'.op = "idle", os'.data = os.data,
         f'.pos = f.pos, call'.failed = call.failed, NEW n \in 0..Len(call.bytes),
         n = 0 => call.bytes = << >> \/ call.off >= Len(Seen),
         Seen' = Plain!Overwritten(Seen, call.off, SubSeq(call.bytes, 1, n))
  PROVE  PlainStep
<1>1. Plain!Pwrite
  BY DEF Plain!Pwrite, Seen
<1>. QED BY <1>1 DEF PlainStep, Plain!Next

(* A seek returns at the offset.                                           *)
LEMMA Seeks ==
  ASSUME call.op = "seek", call'.op = "idle", f'.pos = call.off, Seen' = Seen,
         os'.data = os.data, call'.failed = call.failed
  PROVE  PlainStep
<1>1. Plain!Seek
  BY DEF Plain!Seek, Seen
<1>. QED BY <1>1 DEF PlainStep, Plain!Next

(* Bytes that the program sees already reach the file.                     *)
LEMMA Stores ==
  ASSUME Seen' = Seen, f'.pos = f.pos, Asked' = Asked, call'.failed = call.failed
  PROVE  PlainStep
<1>1. CASE os'.data = os.data
  BY <1>1, Stutters
<1>2. CASE os'.data # os.data
  <2>1. Plain!Store
    BY <1>2 DEF Plain!Store, Seen, Asked
  <2>. QED BY <2>1 DEF PlainStep, Plain!Next
<1>. QED BY <1>1, <1>2

(* A call fails without any change.                                        *)
LEMMA Refuses ==
  ASSUME ~call.failed, call'.failed, call.op # "idle", call'.op \in {"idle", "closed"},
         Seen' = Seen, os'.data = os.data, f'.pos = f.pos
  PROVE  PlainStep
<1>1. Plain!Refuse
  BY DEF Plain!Refuse, Seen
<1>. QED BY <1>1 DEF PlainStep, Plain!Next

(* A call returns because it is done.                                      *)
LEMMA ReturnsNow ==
  ASSUME call.op # "idle", call'.op \in {"idle", "closed"}, call'.got = call.got,
         \/ call.op \in Reads /\ (Len(call.got) = call.want \/ f.pos >= Len(Seen))
         \/ call.op \in Writes /\ call.bytes = << >>
         \/ call.op \in {"flush", "close"} /\ os.data = Seen,
         Seen' = Seen, os'.data = os.data, f'.pos = f.pos, call'.failed = call.failed
  PROVE  PlainStep
<1>1. Plain!Return
  BY DEF Plain!Return, Seen, Reads, Writes
<1>. QED BY <1>1 DEF PlainStep, Plain!Next

(* The first n bytes of the cache are in the file.                         *)
Written(n) ==
  \A i \in 1..n : f.tag + i <= Len(os.data) /\ f.cbuf[i] = os.data[f.tag + i]

(* A clean cache shows what the file holds.                                *)
ShownInv ==
  /\ os.mode = "r" /\ f.map # "mapped" => Shows(os.data, f.tag, f.cbuf)
  /\ os.mode = "rw" /\ f.positioned /\ ~f.dirty => Shows(os.data, f.tag, f.cbuf)

(* A call that was refused is over; a read from a mapping gets all at      *)
(* once; and a window that ends at the offset asked for reaches the end of *)
(* the file.                                                               *)
CallInv ==
  /\ call.failed => call.op \in {"idle", "closed"}
  /\ call.op \in Reads /\ f.map = "mapped" => call.got = << >>
  /\ os.mode = "rw" /\ call.op \in Positioned /\ call.filled /\ call.off = f.end
       => f.end >= Len(os.data)

(* What ReadsAndWrites needs of the data, besides KernelInStep: clean      *)
(* caches show the file, and so does the flushed part of a dirty one.      *)
DataInv == ShownInv /\ CallInv /\ Written(call.flushed)

(* The inductive invariant behind ReadsAndWrites.                          *)
Good == FileInv /\ KernelInStep /\ DataInv

(* A file that has just been opened has an empty cache.                    *)
LEMMA InitData == Init => DataInv
<1>. SUFFICES ASSUME Init PROVE DataInv
  OBVIOUS
<1>1. PICK k \in Kinds : Opened(k)
  BY DEF Init
<1>2. f.cbuf = << >> /\ call = NoCall
  BY <1>1 DEF Opened
<1>3. Shows(os.data, f.tag, f.cbuf)
  BY <1>2 DEF Shows
<1>. QED BY <1>2, <1>3 DEF DataInv, ShownInv, CallInv, Written, NoCall, Reads, Positioned

(* A file that has just been opened is PlainFile's initial state.          *)
LEMMA InitPlain == Init => Plain!Init
<1>. SUFFICES ASSUME Init PROVE Plain!Init
  OBVIOUS
<1>1. PICK k \in Kinds : Opened(k)
  BY DEF Init
<1>2. ~f.dirty /\ call = NoCall
  BY <1>1 DEF Opened
<1>. QED BY <1>2 DEF Plain!Init, NoCall

(* Nothing but the call changes, and not how much is flushed.              *)
LEMMA SameFile ==
  ASSUME FileInv, DataInv, os' = os, f' = f, CallInv', call'.flushed = 0 \/ call'.flushed = call.flushed
  PROVE  DataInv' /\ Seen' = Seen
<1>1. ShownInv' /\ Seen' = Seen
  BY DEF DataInv, ShownInv, Seen
<1>2. Written(call.flushed)'
  BY DEF DataInv, Written
<1>. QED BY <1>1, <1>2 DEF DataInv, Written

-----------------------------------------------------------------------------
(* Reading refines.                                                        *)

(* The parts of the invariant, by name.                                    *)
LEMMA GoodParts ==
  ASSUME Good
  PROVE  /\ FileInv /\ KernelInStep /\ DataInv /\ ShownInv /\ CallInv /\ Written(call.flushed)
         /\ RecordsInv /\ ReadInv /\ WriteInv /\ PositionedInv /\ CacheInv /\ FlushInv
         /\ os \in OsType /\ f \in FType /\ call \in CallType /\ crash = "none"
BY Parts DEF Good, DataInv

(* A read that begins, and maps the file or fails to.                      *)
LEMMA StartReadRefines ==
  ASSUME Good, NEW op \in Reads, NEW n \in Nat, StartRead(op, n)
  PROVE  DataInv' /\ PlainStep
<1>1. /\ FileInv /\ ShownInv /\ f \in FType
  BY GoodParts
<1>2. Ready /\ os.mode = "r" /\ Sane(f) /\ Sane(Mapped(f))
  BY <1>1, AlwaysSane DEF StartRead
<1>3. call' = [NoCall EXCEPT !.op = op, !.want = n] /\ f' = Mapped(f) /\ os' = os
  BY <1>2 DEF StartRead, Begin
<1>4. call'.op = op /\ call'.flushed = 0 /\ call'.got = << >> /\ ~call'.failed
  BY <1>3 DEF NoCall
<1>5. /\ f'.dirty = f.dirty /\ f'.pos = f.pos /\ f'.cbuf = f.cbuf
      /\ f'.map # "mapped" => f'.tag = f.tag /\ f.map # "mapped"
  BY <1>1, <1>3 DEF Mapped, FType
<1>6. ~f.dirty
  BY <1>2, GoodParts DEF ReadInv
<1>7. Seen' = Seen
  BY <1>3, <1>5, <1>6 DEF Seen
<1>8. ShownInv'
  BY <1>1, <1>2, <1>3, <1>5 DEF ShownInv
<1>9. CallInv' /\ Written(call.flushed)'
  BY <1>2, <1>3, <1>4 DEF CallInv, Written
<1>10. PlainStep
  BY <1>2, <1>3, <1>4, <1>5, <1>7, Begins DEF Ready, Reads
<1>. QED BY <1>8, <1>9, <1>10 DEF DataInv

(* Reading from the mapping is reading the file, and returns early only at *)
(* its end.                                                                *)
LEMMA ReadMappedRefines ==
  ASSUME Good, ReadMapped
  PROVE  DataInv' /\ PlainStep
<1>1. /\ RecordsInv /\ ReadInv /\ WriteInv /\ PositionedInv /\ FlushInv /\ CallInv
      /\ os \in OsType /\ f \in FType /\ call \in CallType /\ crash = "none"
  BY GoodParts
<1>2. call.op \in Reads /\ f.map = "mapped"
  BY DEF ReadMapped
<1>3. os.mode = "r"
  BY <1>1, <1>2, FileTypes DEF WriteInv, PositionedInv
<1>4. /\ f.end = Len(os.data) /\ f.pos <= Len(os.data) /\ ~f.dirty
  BY <1>1, <1>2, <1>3 DEF ReadInv, Reads
<1>5. call.flushed = 0 /\ call.got = << >>
  BY <1>1, <1>2, <1>4 DEF FlushInv, Flushing, CallInv
<1>. DEFINE x == IF call.op = "readc" THEN Max({0, f.end - f.pos}) ELSE Len(os.data) - f.pos
            n == Moved(x)
            got == SubSeq(os.data, f.pos + 1, f.pos + n)
<1>6. x = Len(os.data) - f.pos
  <2>. DEFINE l == Len(os.data) - f.pos
  <2>1. l \in Int /\ l >= 0 /\ call.want \in Nat
    BY <1>1, <1>4, FileTypes
  <2>2. Max({0, l}) = l
    <3>. HIDE DEF l
    <3>. QED BY <2>1, MovedIs
  <2>. QED BY <1>4, <2>2
<1>7. /\ n \in Nat /\ n <= call.want /\ f.pos + n <= Len(os.data) /\ ~(n > Max({0, x}))
      /\ n = call.want \/ f.pos + n = Len(os.data)
  <2>. HIDE DEF x
  <2>1. x \in Nat /\ call.want \in Nat /\ f.pos \in Nat /\ Len(os.data) \in Nat
    <3>. DEFINE l == Len(os.data)
    <3>1. l \in Nat /\ f.pos \in Nat /\ call.want \in Nat
      BY <1>1, FileTypes
    <3>2. x = l - f.pos /\ f.pos <= l
      BY <1>4, <1>6
    <3>. HIDE DEF l
    <3>3. x \in Nat
      BY <3>1, <3>2
    <3>. QED BY <3>1, <3>3 DEF l
  <2>2. (n = IF call.want <= x THEN call.want ELSE x) /\ Max({0, x}) = x
    BY <2>1, MovedIs
  <2>. HIDE DEF n
  <2>. QED BY <1>6, <2>1, <2>2
<1>8. /\ f' = [f EXCEPT !.pos = @ + n] /\ os' = os
      /\ call' = [[call EXCEPT !.got = got] EXCEPT !.op = "idle"]
  BY <1>7 DEF ReadMapped, End
<1>. HIDE DEF n, x
<1>9. got \in Seq(Nat) /\ Len(got) = n
  <2>1. os.data \in Seq(Nat) /\ f.pos \in Nat
    BY <1>1 DEF OsType, FType, Bytes
  <2>. QED BY <1>7, <2>1, SliceIs
<1>. HIDE DEF got
<1>10. /\ call'.op = "idle" /\ call'.flushed = 0 /\ call'.got = got /\ call'.failed = call.failed
       /\ call'.filled = call.filled
  BY <1>1, <1>5, <1>8 DEF CallType
<1>11. /\ f'.map = "mapped" /\ f'.pos = f.pos + n /\ f'.dirty = f.dirty
  BY <1>1, <1>2, <1>8 DEF FType
<1>12. Seen' = os.data /\ Seen = os.data
  BY <1>4, <1>8, <1>11 DEF Seen
<1>13. DataInv'
  <2>1. ShownInv'
    BY <1>3, <1>8, <1>11 DEF ShownInv
  <2>2. CallInv'
    BY <1>3, <1>8, <1>10 DEF CallInv, Reads
  <2>3. Written(call.flushed)'
    BY <1>10 DEF Written
  <2>. QED BY <2>1, <2>2, <2>3 DEF DataInv
<1>14. CASE n = 0
  <2>1. call'.got = call.got /\ f'.pos = f.pos
    <3>1. f.pos + 0 = f.pos
      BY <1>1 DEF FType
    <3>2. got = << >>
      BY <1>9, <1>14, EmptySeq
    <3>. QED BY <1>5, <1>10, <1>11, <1>14, <3>1, <3>2
  <2>2. Len(call.got) = call.want \/ f.pos >= Len(Seen)
    <3>1. f.pos \in Nat /\ Len(os.data) \in Nat /\ Len(<< >>) = 0
      BY <1>1, FileTypes
    <3>. QED BY <1>5, <1>7, <1>12, <1>14, <3>1
  <2>3. call.op # "idle"
    BY <1>2 DEF Reads
  <2>4. PlainStep
    BY <1>2, <1>8, <1>10, <1>12, <2>1, <2>2, <2>3, ReturnsNow
  <2>. QED BY <1>13, <2>4
<1>15. CASE n # 0
  <2>1. n \in 1..(call.want - Len(call.got))
    <3>1. call.want \in Nat /\ Len(<< >>) = 0
      BY <1>1, FileTypes
    <3>. QED BY <1>5, <1>7, <1>15, <3>1
  <2>2. call'.got = call.got \o SubSeq(Seen, f.pos + 1, f.pos + n)
    <3>1. << >> \o got = got
      BY <1>9, ConcatEmptySeq
    <3>. QED BY <1>5, <1>10, <1>12, <3>1 DEF got
  <2>3. Len(call'.got) = call.want \/ f'.pos = Len(Seen)
    BY <1>7, <1>9, <1>10, <1>11, <1>12
  <2>4. PlainStep
    BY <1>2, <1>7, <1>8, <1>10, <1>11, <1>12, <2>1, <2>2, <2>3, ReadsMore
  <2>. QED BY <1>13, <2>4
<1>. QED BY <1>14, <1>15

(* While a read uses the cache, the program sees the file itself.          *)
LEMMA ReadsCacheSees ==
  ASSUME Good, ReadsCache
  PROVE  /\ Seen = os.data /\ Shows(os.data, f.tag, f.cbuf) /\ ~call.failed
         /\ os.kpos = f.end /\ call.op # "idle" /\ call.op \notin {"idle", "closed"}
<1>1. FileInv /\ ShownInv /\ CallInv /\ KernelInStep
  BY GoodParts
<1>2. os.mode = "r" /\ f.map = "failed" /\ ~f.dirty /\ call.op \in Reads
  BY <1>1, ReadsCacheHas
<1>3. os.kpos = f.end
  BY <1>1, KernelAtEnd
<1>. QED BY <1>1, <1>2, <1>3 DEF Seen, ShownInv, CallInv, Reads

(* The rest of DataInv when a read goes on with a cache that shows the     *)
(* file.                                                                   *)
LEMMA ReadsCacheShows ==
  ASSUME Good, ReadsCache, os'.mode = os.mode, os'.data = os.data,
         f'.map = f.map, f'.dirty = f.dirty, f'.positioned = f.positioned,
         Shows(os.data, f'.tag, f'.cbuf), call'.flushed = 0,
         call'.failed => call'.op = "idle"
  PROVE  DataInv' /\ Seen' = Seen
<1>1. os.mode = "r" /\ f.map = "failed" /\ ~f.dirty /\ ~f.positioned
  BY GoodParts, ReadsCacheHas
<1>2. Seen' = Seen
  BY <1>1 DEF Seen
<1>3. ShownInv'
  BY <1>1 DEF ShownInv
<1>4. CallInv'
  BY <1>1 DEF CallInv
<1>5. Written(call.flushed)'
  BY DEF Written
<1>. QED BY <1>2, <1>3, <1>4, <1>5 DEF DataInv

(* Reading from the cache is reading the file at the position.             *)
LEMMA CopyCachedRefines ==
  ASSUME Good, CopyCached
  PROVE  DataInv' /\ PlainStep
<1>1. /\ FileInv /\ RecordsInv /\ os \in OsType /\ f \in FType /\ call \in CallType
  BY GoodParts
<1>2. ReadsCache /\ Lacking > 0 /\ f.pos < f.end
  BY DEF CopyCached
<1>. DEFINE n == Min({f.end - f.pos, Lacking})
            from == f.pos - f.tag
            more == SubSeq(f.cbuf, from + 1, from + n)
<1>3. f.tag <= f.pos /\ f.end = f.tag + Len(f.cbuf) /\ call.flushed = 0 /\ call.op \in Reads
  BY <1>1, <1>2, ReadsCacheHas
<1>4. /\ Lacking \in Int /\ Lacking = call.want - Len(call.got)
      /\ f.pos \in Nat /\ f.end \in Nat /\ f.tag \in Nat
      /\ Len(f.cbuf) \in Nat /\ f.cbuf \in Seq(Nat) /\ os.data \in Seq(Nat) /\ Len(os.data) \in Nat
  BY <1>1, FileTypes DEF Lacking, Bytes
<1>5. /\ n \in Nat /\ n > 0 /\ n <= Lacking /\ n <= f.end - f.pos
  <2>1. n = IF f.end - f.pos <= Lacking THEN f.end - f.pos ELSE Lacking
    <3>1. Lacking \in Int /\ f.end - f.pos \in Int
      BY <1>4
    <3>. QED BY <3>1, MinIs
  <2>. HIDE DEF n
  <2>. QED BY <1>2, <1>4, <2>1
<1>6. /\ f' = [f EXCEPT !.pos = @ + n] /\ os' = os
      /\ call' = [call EXCEPT !.got = @ \o more]
  BY DEF CopyCached
<1>. HIDE DEF n
<1>7. from \in Nat /\ from + n <= Len(f.cbuf) /\ f.tag + from = f.pos
  <2>. DEFINE l == Len(f.cbuf)
  <2>1. /\ f.tag \in Nat /\ f.pos \in Nat /\ l \in Nat /\ f.tag <= f.pos /\ f.end = f.tag + l
        /\ n \in Nat /\ n <= f.end - f.pos
    BY <1>3, <1>4, <1>5
  <2>. HIDE DEF l
  <2>2. f.pos - f.tag \in Nat /\ (f.pos - f.tag) + n <= l /\ f.tag + (f.pos - f.tag) = f.pos
    BY <2>1
  <2>. QED BY <2>2 DEF l
<1>8. Seen = os.data /\ Shows(os.data, f.tag, f.cbuf) /\ ~call.failed
  BY <1>2, ReadsCacheSees
<1>9. ASSUME NEW k \in 1..n
      PROVE  f.pos + k <= Len(os.data) /\ os.data[f.pos + k] = f.cbuf[from + k]
  <2>. DEFINE i == from + k
  <2>1. i \in 1..Len(f.cbuf) /\ f.tag + i = f.pos + k
    <3>. HIDE DEF from
    <3>1. k \in Nat /\ k >= 1 /\ k <= n
      BY <1>5
    <3>2. from + k \in Nat /\ from + k >= 1 /\ from + k <= Len(f.cbuf)
      BY <1>4, <1>5, <1>7, <3>1
    <3>3. f.tag + (from + k) = f.pos + k
      BY <1>4, <1>7, <3>1
    <3>. QED BY <1>4, <3>2, <3>3
  <2>. HIDE DEF i
  <2>2. f.tag + i <= Len(os.data) /\ f.cbuf[i] = os.data[f.tag + i]
    BY <1>8, <2>1 DEF Shows
  <2>. QED BY <2>1, <2>2 DEF i
<1>. HIDE DEF from
<1>10. f.pos + n <= Len(os.data)
  <2>1. n \in 1..n
    BY <1>5
  <2>. QED BY <1>9, <2>1
<1>11. SubSeq(os.data, f.pos + 1, f.pos + n) = more
  <2>1. Matches(os.data, f.cbuf, f.pos, from, n)
    BY <1>9 DEF Matches
  <2>2. /\ os.data \in Seq(Nat) /\ f.cbuf \in Seq(Nat) /\ f.pos \in Nat /\ from \in Nat /\ n \in Nat
        /\ f.pos + n <= Len(os.data) /\ from + n <= Len(f.cbuf)
    BY <1>4, <1>5, <1>7, <1>10
  <2>3. SubSeq(os.data, f.pos + 1, f.pos + n) = SubSeq(f.cbuf, from + 1, from + n)
    <3>. DEFINE d == os.data
                c == f.cbuf
                p == f.pos
    <3>1. /\ d \in Seq(Nat) /\ c \in Seq(Nat) /\ p \in Nat /\ from \in Nat /\ n \in Nat
          /\ p + n <= Len(d) /\ from + n <= Len(c) /\ Matches(d, c, p, from, n)
      BY <2>1, <2>2
    <3>. HIDE DEF d, c, p
    <3>2. SubSeq(d, p + 1, p + n) = SubSeq(c, from + 1, from + n)
      BY <3>1, SlicesAgree
    <3>. QED BY <3>2 DEF d, c, p
  <2>. QED BY <2>3
<1>. HIDE DEF more
<1>12. /\ call'.op = call.op /\ call'.flushed = call.flushed /\ call'.got = call.got \o more
       /\ call'.failed = call.failed
  BY <1>1, <1>6 DEF CallType
<1>13. /\ f'.map = f.map /\ f'.dirty = f.dirty /\ f'.positioned = f.positioned
       /\ f'.pos = f.pos + n /\ f'.tag = f.tag /\ f'.cbuf = f.cbuf
  BY <1>1, <1>6 DEF FType
<1>14. DataInv' /\ Seen' = Seen
  BY <1>2, <1>3, <1>6, <1>8, <1>12, <1>13, ReadsCacheShows
<1>15. PlainStep
  <2>1. n \in 1..(call.want - Len(call.got))
    BY <1>4, <1>5
  <2>2. call'.op # "idle"
    BY <1>3, <1>12 DEF Reads
  <2>. QED BY <1>3, <1>6, <1>8, <1>10, <1>11, <1>12, <1>13, <1>14, <2>1, <2>2, ReadsMore
<1>. QED BY <1>14, <1>15

-----------------------------------------------------------------------------
(* Filling the cache, and calls that begin, refine.                        *)

(* io61_fill changes nothing that the program sees; if there is nothing,   *)
(* the read returns at the end of the file.                                *)
LEMMA FillGetsRefines ==
  ASSUME Good, ReadsCache, f.pos = f.end, NEW n \in Nat, FillGets(n),
         n = 0 \/ os.kpos + n <= Len(os.data), n = 0 => os.kpos >= Len(os.data)
  PROVE  DataInv' /\ PlainStep
<1>1. /\ FileInv /\ RecordsInv /\ os \in OsType /\ f \in FType /\ call \in CallType
  BY GoodParts
<1>. DEFINE bytes == SubSeq(os.data, os.kpos + 1, os.kpos + n)
            g == Emptied(f, f.end)
<1>2. f' = Filled(f, bytes) /\ os' = [os EXCEPT !.kpos = @ + n]
  BY DEF FillGets
<1>3. /\ bytes \in Seq(Nat) /\ Len(bytes) = n
      /\ \A k \in 1..n : bytes[k] = os.data[os.kpos + k]
  <2>1. os.data \in Seq(Nat) /\ os.kpos \in Nat
    BY <1>1 DEF OsType, Bytes
  <2>. QED BY <2>1, SliceIs
<1>4. /\ g \in FType /\ g.tag = f.end /\ g.pos = f.end /\ g.end = f.end
      /\ g.map = f.map /\ g.dirty = f.dirty /\ g.positioned = f.positioned
  BY <1>1, FileTypes, EmptiedIs
<1>5. /\ Seen = os.data /\ os.kpos = f.end /\ call.op \in Reads /\ call.op \notin {"idle", "closed"}
      /\ call.flushed = 0 /\ ~call.failed
  BY <1>1, ReadsCacheHas, ReadsCacheSees
<1>. HIDE DEF bytes, g
<1>6. /\ f'.map = f.map /\ f'.tag = f.end /\ f'.pos = f.end /\ f'.cbuf = bytes
      /\ f'.dirty = f.dirty /\ f'.positioned = f.positioned
  <2>1. f' = [g EXCEPT !.cbuf = bytes, !.end = @ + n]
    BY <1>2, <1>3 DEF Filled, g
  <2>. QED BY <1>4, <2>1 DEF FType
<1>7. os'.mode = os.mode /\ os'.data = os.data
  BY <1>1, <1>2 DEF OsType
<1>8. Shows(os.data, f'.tag, f'.cbuf)
  <2>. SUFFICES ASSUME NEW i \in 1..Len(bytes)
                PROVE  f.end + i <= Len(os.data) /\ bytes[i] = os.data[f.end + i]
    BY <1>6 DEF Shows
  <2>1. i \in 1..n /\ f.end \in Nat /\ Len(os.data) \in Nat
    BY <1>1, <1>3, FileTypes
  <2>. QED BY <1>3, <1>5, <2>1
<1>9. CASE n = 0
  <2>1. call' = [call EXCEPT !.op = "idle"]
    BY <1>9 DEF FillGets, AtEnd, End
  <2>2. /\ call'.op = "idle" /\ call'.flushed = 0 /\ call'.got = call.got
        /\ call'.failed = call.failed
    BY <1>1, <1>5, <2>1 DEF CallType
  <2>3. DataInv' /\ Seen' = Seen
    BY <1>6, <1>7, <1>8, <2>2, ReadsCacheShows
  <2>4. f.pos >= Len(Seen)
    BY <1>5, <1>9
  <2>5. PlainStep
    BY <1>5, <1>6, <1>7, <2>2, <2>3, <2>4, ReturnsNow
  <2>. QED BY <2>3, <2>5
<1>10. CASE n # 0
  <2>1. call' = call
    BY <1>10 DEF FillGets, AtEnd
  <2>2. DataInv' /\ Seen' = Seen
    BY <1>5, <1>6, <1>7, <1>8, <2>1, ReadsCacheShows
  <2>3. PlainStep
    BY <1>6, <1>7, <2>1, <2>2, Stutters DEF Asked
  <2>. QED BY <2>2, <2>3
<1>. QED BY <1>9, <1>10

(* io61_fill, whatever the system call gives.                              *)
LEMMA FillRefines ==
  ASSUME Good, Fill
  PROVE  DataInv' /\ PlainStep
<1>1. RecordsInv /\ ReadsCache /\ f.pos = f.end
  BY GoodParts DEF Fill, Filling
<1>. DEFINE x == Len(os.data) - os.kpos
            left == Max({0, x})
<1>2. x \in Int /\ Len(os.data) \in Nat /\ os.kpos \in Nat /\ CbufSize \in Nat
  BY <1>1, FileTypes
<1>. HIDE DEF x
<1>3. left = IF 0 >= x THEN 0 ELSE x
  BY <1>2, MaxIs
<1>. HIDE DEF left
<1>4. CASE \E n \in 1..Min({left, CbufSize}) : FillGets(n)
  <2>1. PICK n \in 1..Min({left, CbufSize}) : FillGets(n)
    BY <1>4
  <2>2. left \in Int
    BY <1>2, <1>3
  <2>3. Min({left, CbufSize}) = IF left <= CbufSize THEN left ELSE CbufSize
    BY <1>2, <2>2, MinIs
  <2>4. n \in Nat /\ n # 0 /\ os.kpos + n <= Len(os.data)
    BY <1>2, <1>3, <2>2, <2>3 DEF x
  <2>. QED BY <1>1, <2>1, <2>4, FillGetsRefines
<1>5. CASE left = 0 /\ FillGets(0)
  <2>1. os.kpos >= Len(os.data)
    BY <1>2, <1>3, <1>5 DEF x
  <2>. QED BY <1>1, <1>5, <2>1, FillGetsRefines
<1>. QED BY <1>4, <1>5 DEF Fill, left, x

(* io61_fill, interrupted or failing.                                      *)
LEMMA FillAgainRefines ==
  ASSUME Good, FillAgain
  PROVE  DataInv' /\ PlainStep
<1>1. /\ FileInv /\ RecordsInv /\ ReadsCache /\ f.pos = f.end /\ os \in OsType /\ f \in FType
      /\ call \in CallType
  BY GoodParts DEF FillAgain, Filling
<1>2. PICK e \in ReadFaults : FillFails(e)
  BY DEF FillAgain
<1>3. f' = Emptied(f, f.end) /\ os' = os
  BY <1>2 DEF FillFails
<1>4. /\ f'.map = f.map /\ f'.tag = f.end /\ f'.pos = f.end /\ f'.cbuf = << >>
      /\ f'.dirty = f.dirty /\ f'.positioned = f.positioned
  BY <1>1, <1>3, FileTypes, EmptiedIs
<1>5. Shows(os.data, f'.tag, f'.cbuf)
  BY <1>4 DEF Shows
<1>6. /\ call.op # "idle" /\ call.flushed = 0 /\ ~call.failed
  BY <1>1, ReadsCacheHas, ReadsCacheSees
<1>7. CASE e = "other"
  <2>1. call' = [[call EXCEPT !.failed = TRUE] EXCEPT !.op = "idle"]
    BY <1>2, <1>7 DEF FillFails, End
  <2>2. call'.op = "idle" /\ call'.flushed = 0 /\ call'.failed
    BY <1>1, <1>6, <2>1 DEF CallType
  <2>3. DataInv' /\ Seen' = Seen
    BY <1>1, <1>3, <1>4, <1>5, <2>2, ReadsCacheShows
  <2>4. PlainStep
    BY <1>1, <1>3, <1>4, <1>6, <2>2, <2>3, Refuses
  <2>. QED BY <2>3, <2>4
<1>8. CASE e # "other"
  <2>1. call' = call
    BY <1>2, <1>8 DEF FillFails
  <2>2. DataInv' /\ Seen' = Seen
    BY <1>1, <1>3, <1>4, <1>5, <1>6, <2>1, ReadsCacheShows
  <2>3. PlainStep
    BY <1>1, <1>3, <1>4, <2>1, <2>2, Stutters DEF Asked
  <2>. QED BY <2>2, <2>3
<1>. QED BY <1>7, <1>8

(* A read returns with everything.                                         *)
LEMMA ReadReturnsRefines ==
  ASSUME Good, ReadReturns
  PROVE  DataInv' /\ PlainStep
<1>1. /\ FileInv /\ RecordsInv /\ ReadsCache /\ call \in CallType /\ CallInv /\ DataInv
  BY GoodParts DEF ReadReturns
<1>2. /\ f' = f /\ os' = os /\ call' = [call EXCEPT !.op = "idle"] /\ Lacking = 0
  BY DEF ReadReturns, End
<1>3. /\ call'.op = "idle" /\ call'.flushed = call.flushed /\ call'.got = call.got
      /\ call'.failed = call.failed
  BY <1>1, <1>2 DEF CallType
<1>4. CallInv'
  BY <1>3 DEF CallInv, Reads, Positioned
<1>5. DataInv' /\ Seen' = Seen
  BY <1>1, <1>2, <1>3, <1>4, SameFile
<1>6. Len(call.got) = call.want /\ call.op # "idle" /\ call.op \in Reads
  <2>1. Len(call.got) \in Nat /\ call.want \in Nat
    BY <1>1, FileTypes
  <2>. QED BY <1>1, <1>2, <2>1, ReadsCacheHas DEF Lacking, Reads
<1>7. PlainStep
  BY <1>2, <1>3, <1>5, <1>6, ReturnsNow
<1>. QED BY <1>5, <1>7

(* A new call.                                                             *)
LEMMA StartRefines ==
  ASSUME Good, Ready, os' = os, f' = f, call'.op # "idle", call'.got = << >>, ~call'.failed,
         ~call'.filled, call'.flushed = 0
  PROVE  DataInv' /\ PlainStep
<1>1. CallInv'
  BY DEF CallInv
<1>2. DataInv' /\ Seen' = Seen
  BY <1>1, GoodParts, SameFile
<1>3. PlainStep
  BY <1>2, Begins DEF Ready
<1>. QED BY <1>2, <1>3

(* A write begins.                                                         *)
LEMMA StartWriteRefines ==
  ASSUME Good, NEW op \in Writes, NEW b, StartWrite(op, b)
  PROVE  DataInv' /\ PlainStep
<1>1. Ready /\ Sane(f)
  BY AlwaysSane, GoodParts DEF StartWrite
<1>2. call' = [NoCall EXCEPT !.op = op, !.bytes = b, !.want = Len(b)] /\ os' = os /\ f' = f
  BY <1>1 DEF StartWrite, Begin
<1>3. call'.op = op /\ call'.got = << >> /\ ~call'.failed /\ ~call'.filled /\ call'.flushed = 0
  BY <1>2 DEF NoCall
<1>. QED BY <1>1, <1>2, <1>3, StartRefines DEF Writes

(* A flush or a close begins.                                              *)
LEMMA StartFlushRefines ==
  ASSUME Good, NEW op \in {"flush", "close"}, StartFlush(op)
  PROVE  DataInv' /\ PlainStep
<1>1. Ready /\ call' = [NoCall EXCEPT !.op = op] /\ os' = os /\ f' = f
  BY DEF StartFlush, Begin
<1>2. call'.op = op /\ call'.got = << >> /\ ~call'.failed /\ ~call'.filled /\ call'.flushed = 0
  BY <1>1 DEF NoCall
<1>. QED BY <1>1, <1>2, StartRefines

(* A seek begins.                                                          *)
LEMMA StartSeekRefines ==
  ASSUME Good, NEW off, StartSeek(off), os.mode # "rw"
  PROVE  DataInv' /\ PlainStep
<1>1. Ready /\ Sane(f)
  BY AlwaysSane, GoodParts DEF StartSeek
<1>2. call' = [NoCall EXCEPT !.op = "seek", !.off = off] /\ os' = os /\ f' = f
  BY <1>1 DEF StartSeek, Begin
<1>3. call'.op = "seek" /\ call'.got = << >> /\ ~call'.failed /\ ~call'.filled /\ call'.flushed = 0
  BY <1>2 DEF NoCall
<1>. QED BY <1>1, <1>2, <1>3, StartRefines

(* A positioned call begins.                                               *)
LEMMA StartPositionedRefines ==
  ASSUME Good, NEW op \in Positioned, NEW n, NEW b, NEW off, StartPositioned(op, n, b, off)
  PROVE  DataInv' /\ PlainStep
<1>1. /\ Ready /\ os' = os /\ f' = f
      /\ call' = [NoCall EXCEPT !.op = op, !.want = n, !.bytes = b, !.off = off]
  BY DEF StartPositioned, Begin
<1>2. call'.op = op /\ call'.got = << >> /\ ~call'.failed /\ ~call'.filled /\ call'.flushed = 0
  BY <1>1 DEF NoCall
<1>. QED BY <1>1, <1>2, StartRefines DEF Positioned

(* Any call begins.                                                        *)
LEMMA CallRefines ==
  ASSUME Good, Call
  PROVE  DataInv' /\ PlainStep
<1>1. Wants \subseteq Nat
  BY BufferedFileAssumption
<1>2. CASE StartRead("readc", 1)
  BY <1>2, StartReadRefines DEF Reads
<1>3. CASE \E n \in Wants : StartRead("read", n)
  BY <1>1, <1>3, StartReadRefines DEF Reads
<1>4. CASE \E t \in Texts : StartWrite(IF Len(t) = 1 THEN "writec" ELSE "write", t)
  BY <1>4, StartWriteRefines DEF Writes
<1>5. CASE StartFlush("flush") \/ StartFlush("close")
  BY <1>5, StartFlushRefines
<1>6. CASE \E off \in Offsets : os.mode # "rw" /\ StartSeek(off)
  BY <1>6, StartSeekRefines
<1>7. CASE \E off \in Offsets :
             \/ \E n \in Wants : StartPositioned("pread", n, << >>, off)
             \/ \E t \in Texts : StartPositioned("pwrite", Len(t), t, off)
  BY <1>7, StartPositionedRefines DEF Positioned
<1>. QED BY <1>2, <1>3, <1>4, <1>5, <1>6, <1>7 DEF Call

-----------------------------------------------------------------------------
(* Writing refines.                                                        *)

(* What the program sees of a file that it writes.                         *)
LEMMA WritesSees ==
  ASSUME Good, os.mode = "w"
  PROVE  /\ Seen = Overwritten(os.data, f.tag, f.cbuf) /\ Seen \in Seq(Nat)
         /\ os.data \in Seq(Nat) /\ f.tag \in Nat /\ f.cbuf \in Seq(Nat)
<1>1. os.data \in Seq(Nat)
  BY GoodParts DEF OsType, Bytes
<1>2. f.tag \in Nat /\ f.cbuf \in Seq(Nat) /\ (f.dirty <=> f.cbuf # << >>)
  BY GoodParts, WritesHas
<1>3. Seen = Overwritten(os.data, f.tag, f.cbuf)
  BY <1>1, <1>2, EmptyOverwrites DEF Seen
<1>. QED BY <1>1, <1>2, <1>3, OverwrittenIs

(* Copying into the cache is writing to the file at the position, as far   *)
(* as the program sees.                                                    *)
LEMMA CopyInRefines ==
  ASSUME Good, CopyIn
  PROVE  DataInv' /\ PlainStep
<1>1. /\ FileInv /\ RecordsInv /\ ReadInv /\ PositionedInv /\ FlushInv /\ os \in OsType /\ f \in FType
      /\ call \in CallType /\ CallInv
  BY GoodParts
<1>2. call.op \in Writes /\ call.bytes # << >> /\ ~Full(f)
  BY DEF CopyIn
<1>3. os.mode = "w"
  BY <1>1, <1>2, FileTypes DEF ReadInv, PositionedInv, Writes, Common, Reads, Positioned
<1>4. /\ call.bytes \in Seq(Nat) /\ Len(call.bytes) \in Nat /\ Len(call.bytes) > 0
      /\ CbufSize \in Nat
  <2>1. call.bytes \in Seq(Nat)
    BY <1>1 DEF CallType, Bytes
  <2>2. Len(call.bytes) # 0
    BY <1>2, <2>1, EmptySeq
  <2>. QED BY <2>1, <2>2, BufferedFileAssumption
<1>. DEFINE n == Min({CbufSize + f.tag - f.pos, Len(call.bytes)})
            head == SubSeq(call.bytes, 1, n)
            tail == SubSeq(call.bytes, n + 1, Len(call.bytes))
<1>5. n \in Nat /\ n > 0 /\ n <= Len(call.bytes)
  <2>1. /\ f.pos = f.tag + Len(f.cbuf) /\ Len(f.cbuf) <= CbufSize
        /\ f.tag \in Nat /\ f.pos \in Nat /\ Len(f.cbuf) \in Nat
    BY <1>1, <1>3, WritesHas
  <2>2. Len(f.cbuf) # CbufSize
    BY <1>1, <1>2, <1>3, <2>1, WritesHas DEF Full
  <2>. DEFINE x == CbufSize + f.tag - f.pos
  <2>3. x = CbufSize - Len(f.cbuf) /\ x \in Int
    BY <1>4, <2>1
  <2>. HIDE DEF x
  <2>4. n = IF x <= Len(call.bytes) THEN x ELSE Len(call.bytes)
    BY <1>4, <2>3, MinIs DEF x
  <2>. HIDE DEF n
  <2>5. x > 0
    BY <1>4, <2>1, <2>2, <2>3
  <2>6. CASE x <= Len(call.bytes)
    <3>1. n = x
      BY <2>4, <2>6
    <3>. QED BY <2>3, <2>5, <2>6, <3>1
  <2>7. CASE ~(x <= Len(call.bytes))
    <3>1. n = Len(call.bytes)
      BY <2>4, <2>7
    <3>2. Len(call.bytes) \in Nat /\ Len(call.bytes) > 0
      BY <1>4
    <3>. QED BY <3>1, <3>2
  <2>. QED BY <2>6, <2>7
<1>6. /\ f' = Put(f, head) /\ os' = os
      /\ call' = [call EXCEPT !.bytes = tail]
  BY <1>1 DEF CopyIn, CallType
<1>. HIDE DEF n
<1>7. head \in Seq(Nat) /\ Len(head) = n /\ head # << >>
  <2>1. /\ SubSeq(call.bytes, 0 + 1, 0 + n) \in Seq(Nat)
        /\ Len(SubSeq(call.bytes, 0 + 1, 0 + n)) = n
    BY <1>4, <1>5, SliceIs
  <2>2. head \in Seq(Nat) /\ Len(head) = n
    BY <1>5, <2>1
  <2>. HIDE DEF head
  <2>. QED BY <1>5, <2>2
<1>8. /\ f'.map = f.map /\ f'.tag = f.tag /\ f'.pos = f.pos + n
      /\ f'.cbuf = f.cbuf \o head /\ f'.dirty
  <2>. HIDE DEF head
  <2>1. f' = [f EXCEPT !.cbuf = @ \o head, !.pos = @ + n, !.end = @ + n, !.dirty = TRUE]
    BY <1>6, <1>7 DEF Put
  <2>. QED BY <1>1, <2>1 DEF FType
<1>9. /\ call'.op = call.op /\ call'.flushed = call.flushed /\ call'.failed = call.failed
  BY <1>1, <1>6 DEF CallType
<1>10. Asked' = [Asked EXCEPT !.bytes = SubSeq(@, n + 1, Len(@))]
  <2>. HIDE DEF tail
  <2>1. /\ call'.op = call.op /\ call'.want = call.want /\ call'.off = call.off
        /\ call'.got = call.got /\ call'.bytes = tail
    BY <1>1, <1>6 DEF CallType
  <2>2. Asked.bytes = call.bytes /\ SubSeq(Asked.bytes, n + 1, Len(Asked.bytes)) = tail
    BY DEF Asked, tail
  <2>3. Asked' = [Asked EXCEPT !.bytes = tail]
    BY <2>1 DEF Asked
  <2>. QED BY <2>2, <2>3
<1>11. call.flushed = 0
  BY <1>1, <1>2 DEF FlushInv, Flushing, Missed, Writes, Positioned
<1>12. DataInv'
  <2>1. ShownInv' /\ CallInv'
    BY <1>1, <1>2, <1>3, <1>6, <1>9 DEF ShownInv, CallInv, Writes, Reads, Positioned
  <2>2. Written(call.flushed)'
    BY <1>9, <1>11 DEF Written
  <2>. QED BY <2>1, <2>2 DEF DataInv
<1>13. Seen' = Plain!Overwritten(Seen, f.pos, head)
  <2>1. /\ Seen = Overwritten(os.data, f.tag, f.cbuf) /\ Seen \in Seq(Nat)
        /\ os.data \in Seq(Nat) /\ f.tag \in Nat /\ f.cbuf \in Seq(Nat)
    BY <1>3, WritesSees
  <2>2. f.pos = f.tag + Len(f.cbuf) /\ f.pos \in Nat
    BY <1>1, <1>3, WritesHas
  <2>. HIDE DEF head
  <2>3. Plain!Overwritten(Seen, f.pos, head) = Overwritten(Seen, f.pos, head)
    BY <1>7, <2>1, <2>2, PlainOverwritten
  <2>4. Overwritten(Overwritten(os.data, f.tag, f.cbuf), f.tag + Len(f.cbuf), head)
          = Overwritten(os.data, f.tag, f.cbuf \o head)
    <3>. DEFINE d == os.data
                t == f.tag
                c == f.cbuf
    <3>1. d \in Seq(Nat) /\ t \in Nat /\ c \in Seq(Nat)
      BY <2>1
    <3>. HIDE DEF d, t, c
    <3>2. Overwritten(Overwritten(d, t, c), t + Len(c), head) = Overwritten(d, t, c \o head)
      BY <1>7, <3>1, AppendOverwrites
    <3>. QED BY <3>2 DEF d, t, c
  <2>5. Seen' = Overwritten(os.data, f.tag, f.cbuf \o head)
    BY <1>6, <1>8 DEF Seen
  <2>. QED BY <2>1, <2>2, <2>3, <2>4, <2>5
<1>14. PlainStep
  <2>1. n \in 1..Len(call.bytes)
    BY <1>4, <1>5
  <2>. QED BY <1>2, <1>6, <1>8, <1>9, <1>10, <1>13, <2>1, WritesMore
<1>. QED BY <1>12, <1>14

(* A write returns with everything written.                                *)
LEMMA WriteReturnsRefines ==
  ASSUME Good, WriteReturns
  PROVE  DataInv' /\ PlainStep
<1>1. /\ FileInv /\ call \in CallType /\ CallInv /\ DataInv
  BY GoodParts
<1>2. /\ f' = f /\ os' = os /\ call' = [call EXCEPT !.op = "idle"] /\ call.op \in Writes
      /\ call.bytes = << >>
  BY DEF WriteReturns, End
<1>3. /\ call'.op = "idle" /\ call'.flushed = call.flushed /\ call'.got = call.got
      /\ call'.failed = call.failed
  BY <1>1, <1>2 DEF CallType
<1>4. CallInv'
  BY <1>3 DEF CallInv, Reads, Positioned
<1>5. DataInv' /\ Seen' = Seen
  BY <1>1, <1>2, <1>3, <1>4, SameFile
<1>6. call.op # "idle"
  BY <1>2 DEF Writes
<1>7. PlainStep
  BY <1>2, <1>3, <1>5, <1>6, ReturnsNow
<1>. QED BY <1>5, <1>7

(* A flush goes to where the cache belongs.                                *)
LEMMA FlushWritesTo ==
  ASSUME Good, FlushWrites
  PROVE  \E n \in Nat \ {0} :
           /\ call.flushed + n <= Len(f.cbuf)
           /\ os'.data = Overwritten(os.data, f.tag + call.flushed,
                                     SubSeq(f.cbuf, call.flushed + 1, call.flushed + n))
           /\ call' = [call EXCEPT !.flushed = @ + n]
           /\ os'.mode = os.mode /\ f' = f
<1>1. /\ FileInv /\ RecordsInv /\ os \in OsType /\ f \in FType /\ call \in CallType
      /\ CallInv /\ KernelInStep
  BY GoodParts
<1>2. Flushing /\ f' = f
  BY DEF FlushWrites
<1>3. PICK n \in 1..(Len(f.cbuf) - call.flushed) :
        /\ os' = IF f.positioned
                 THEN [os EXCEPT !.data = Overwritten(@, f.tag + call.flushed, Unflushed(n))]
                 ELSE [os EXCEPT !.data = Overwritten(@, os.kpos, Unflushed(n)), !.kpos = @ + n]
        /\ call' = [call EXCEPT !.flushed = @ + n]
  BY DEF FlushWrites
<1>4. call.flushed \in Nat /\ Len(f.cbuf) \in Nat
  BY <1>1, FileTypes
<1>5. n \in Nat \ {0} /\ call.flushed + n <= Len(f.cbuf)
  BY <1>3, <1>4
<1>6. ~f.positioned => os.kpos = f.tag + call.flushed
  <2>1. os.mode \in {"w", "rw"} /\ (os.mode = "rw" => f.positioned) /\ call.op \notin {"idle", "closed"}
    BY <1>1, <1>2, FlushingHas
  <2>2. ~call.failed
    BY <1>1, <2>1 DEF CallInv
  <2>. QED BY <1>1, <2>1, <2>2, WritesHas
<1>7. os'.data = Overwritten(os.data, f.tag + call.flushed, Unflushed(n)) /\ os'.mode = os.mode
  BY <1>1, <1>3, <1>6 DEF OsType
<1>. QED BY <1>2, <1>3, <1>5, <1>7 DEF Unflushed

(* A write system call of the flush stores what the program sees already,  *)
(* and does not change what it sees.                                       *)
LEMMA FlushWritesRefines ==
  ASSUME Good, FlushWrites
  PROVE  DataInv' /\ PlainStep
<1>1. /\ FileInv /\ RecordsInv /\ os \in OsType /\ f \in FType /\ call \in CallType
      /\ CallInv /\ PositionedInv /\ FlushInv /\ Written(call.flushed)
  BY GoodParts
<1>2. Flushing /\ f.dirty
  BY DEF FlushWrites, Flushing
<1>3. PICK n \in Nat \ {0} :
           /\ call.flushed + n <= Len(f.cbuf)
           /\ os'.data = Overwritten(os.data, f.tag + call.flushed,
                                     SubSeq(f.cbuf, call.flushed + 1, call.flushed + n))
           /\ call' = [call EXCEPT !.flushed = @ + n]
           /\ os'.mode = os.mode /\ f' = f
  BY FlushWritesTo
<1>. DEFINE d == os.data
            t == f.tag
            c == f.cbuf
            k == call.flushed
            h == SubSeq(c, k + 1, k + n)
            e == Overwritten(d, t + k, h)
<1>4. /\ d \in Seq(Nat) /\ t \in Nat /\ c \in Seq(Nat) /\ k \in Nat /\ Len(c) \in Nat
      /\ k + n <= Len(c) /\ Len(d) \in Nat
  BY <1>1, <1>3, FileTypes DEF Bytes
<1>5. os'.data = e /\ f'.tag = t /\ f'.cbuf = c /\ f'.dirty
  BY <1>2, <1>3
<1>6. /\ call'.op = call.op /\ call'.want = call.want /\ call'.bytes = call.bytes
      /\ call'.off = call.off /\ call'.got = call.got /\ call'.failed = call.failed
      /\ call'.filled = call.filled /\ call'.flushed = k + n
  BY <1>1, <1>3 DEF CallType
<1>7. Written(k)
  BY <1>1
<1>8. \A i \in 1..k : t + i <= Len(d) /\ c[i] = d[t + i]
  BY <1>7 DEF Written
<1>. HIDE DEF d, t, c, k
<1>9. Overwritten(e, t, c) = Overwritten(d, t, c)
  <2>1. d \in Seq(Nat) /\ t \in Nat /\ c \in Seq(Nat) /\ k \in Nat /\ n \in Nat /\ n > 0
        /\ k + n <= Len(c)
    BY <1>4
  <2>2. Absorbed(d, t, c, k, n)
    BY <2>1, PartOverwrites
  <2>. QED BY <2>2 DEF Absorbed
<1>10. h \in Seq(Nat) /\ Len(h) = n /\ \A i \in 1..n : h[i] = c[k + i]
  BY <1>4, SliceIs
<1>. HIDE DEF h
<1>11. /\ e \in Seq(Nat) /\ Len(e) = IF (t + k) + n > Len(d) THEN (t + k) + n ELSE Len(d)
       /\ \A i \in 1..Len(e) : e[i] = IF t + k < i /\ i <= (t + k) + n THEN h[i - (t + k)]
                                      ELSE IF i <= Len(d) THEN d[i] ELSE 0
  <2>. DEFINE q == t + k
              m == Overwritten(d, q, h)
  <2>1. q \in Nat /\ h \in Seq(Nat) /\ Len(h) = n /\ h # << >>
    BY <1>4, <1>10
  <2>. HIDE DEF q
  <2>2. /\ m \in Seq(Nat) /\ Len(m) = IF h # << >> /\ q + Len(h) > Len(d) THEN q + Len(h) ELSE Len(d)
        /\ \A i \in 1..Len(m) : m[i] = IF q < i /\ i <= q + Len(h) THEN h[i - q]
                                       ELSE IF i <= Len(d) THEN d[i] ELSE 0
    <3>1. d \in Seq(Nat)
      BY <1>4
    <3>. QED BY <2>1, <3>1, OverwrittenIs
  <2>. HIDE DEF m
  <2>3. /\ m \in Seq(Nat) /\ Len(m) = IF q + n > Len(d) THEN q + n ELSE Len(d)
        /\ \A i \in 1..Len(m) : m[i] = IF q < i /\ i <= q + n THEN h[i - q]
                                       ELSE IF i <= Len(d) THEN d[i] ELSE 0
    BY <2>1, <2>2
  <2>. QED BY <2>3 DEF q, m
<1>. HIDE DEF e
<1>12. ASSUME NEW i \in 1..(k + n)
       PROVE  t + i <= Len(e) /\ c[i] = e[t + i]
  <2>0. i \in Nat /\ i >= 1 /\ i <= k + n /\ Len(e) \in Nat
    BY <1>4, <1>11
  <2>1. t + i <= Len(e)
    <3>1. t + i <= (t + k) + n
      BY <1>4, <2>0
    <3>2. (t + k) + n <= Len(e)
      BY <1>4, <1>11
    <3>. QED BY <1>4, <2>0, <3>1, <3>2
  <2>. DEFINE j == t + i
  <2>2. j \in 1..Len(e)
    BY <1>4, <2>0, <2>1
  <2>3. CASE i <= k
    <3>1. ~(t + k < j) /\ j <= Len(d) /\ c[i] = d[j]
      <4>1. i \in 1..k
        BY <1>4, <2>0, <2>3
      <4>. QED BY <1>4, <1>8, <2>0, <2>3, <4>1
    <3>. HIDE DEF j
    <3>2. e[j] = d[j]
      BY <1>11, <2>2, <3>1
    <3>. QED BY <2>1, <3>1, <3>2 DEF j
  <2>4. CASE ~(i <= k)
    <3>. DEFINE l == j - (t + k)
    <3>1. t + k < j /\ j <= (t + k) + n /\ l \in 1..n /\ k + l = i
      BY <1>4, <2>0, <2>4
    <3>. HIDE DEF j
    <3>2. e[j] = h[l]
      BY <1>11, <2>2, <3>1
    <3>. HIDE DEF l
    <3>3. h[l] = c[k + l]
      BY <1>10, <3>1
    <3>. QED BY <2>1, <3>1, <3>2, <3>3 DEF j
  <2>. QED BY <2>3, <2>4
<1>13. Written(call.flushed)'
  BY <1>5, <1>6, <1>12 DEF Written
<1>14. ShownInv' /\ CallInv'
  <2>1. os.mode # "r" /\ call.op \notin {"idle", "closed"}
    BY <1>1, <1>2, FlushingHas
  <2>2. ShownInv'
    BY <1>3, <1>5, <2>1 DEF ShownInv
  <2>3. ~(call.op \in Positioned /\ call.filled)
    BY <1>2 DEF Flushing, Missed, Writes, Positioned
  <2>4. ~call.failed
    BY <1>1, <2>1 DEF CallInv
  <2>5. f.map # "mapped" \/ call.op \notin Reads
    BY <1>2 DEF Flushing, Missed, Writes, Reads, Positioned
  <2>6. CallInv'
    BY <1>1, <1>3, <1>6, <2>3, <2>4, <2>5 DEF CallInv
  <2>. QED BY <2>2, <2>6
<1>15. PlainStep
  <2>1. Seen' = Seen
    BY <1>2, <1>5, <1>9 DEF Seen, d, t, c
  <2>2. Asked' = Asked
    BY <1>6 DEF Asked
  <2>. QED BY <1>3, <1>6, <2>1, <2>2, Stores
<1>. QED BY <1>13, <1>14, <1>15 DEF DataInv

-----------------------------------------------------------------------------
(* Flushing and seeking refine.                                            *)

(* A flush that is interrupted goes on, and one that fails fails the call. *)
LEMMA FlushFailsRefines ==
  ASSUME Good, NEW e, FlushFails(e)
  PROVE  DataInv' /\ PlainStep
<1>1. /\ FileInv /\ call \in CallType /\ CallInv /\ DataInv
  BY GoodParts
<1>2. Flushing /\ os' = os /\ f' = f
  BY DEF FlushFails
<1>3. call.op \notin {"idle", "closed"} /\ ~call.failed
  BY <1>1, <1>2, FlushingHas DEF CallInv
<1>4. CASE e = "intr"
  <2>1. call' = call
    BY <1>4 DEF FlushFails
  <2>2. DataInv' /\ Seen' = Seen
    <3>1. CallInv'
      BY <1>1, <1>2, <2>1 DEF CallInv
    <3>. QED BY <1>1, <1>2, <2>1, <3>1, SameFile
  <2>3. PlainStep
    BY <1>2, <2>1, <2>2, Stutters DEF Asked
  <2>. QED BY <2>2, <2>3
<1>5. CASE e # "intr"
  <2>1. call' = [call EXCEPT !.failed = TRUE, !.flushed = 0,
                             !.op = IF @ = "close" THEN "closed" ELSE "idle"]
    BY <1>5 DEF FlushFails
  <2>2. call'.op \in {"idle", "closed"} /\ call'.failed /\ call'.flushed = 0
    BY <1>1, <2>1 DEF CallType
  <2>3. CallInv'
    BY <2>2 DEF CallInv, Reads, Positioned
  <2>4. DataInv' /\ Seen' = Seen
    BY <1>1, <1>2, <2>2, <2>3, SameFile
  <2>5. PlainStep
    BY <1>2, <1>3, <2>2, <2>4, Refuses
  <2>. QED BY <2>4, <2>5
<1>. QED BY <1>4, <1>5

(* When all is written, the file holds what the program sees: io61_flush   *)
(* and io61_close return.                                                  *)
LEMMA FlushEndsRefines ==
  ASSUME Good, FlushEnds
  PROVE  DataInv' /\ PlainStep
<1>1. /\ FileInv /\ RecordsInv /\ os \in OsType /\ f \in FType /\ call \in CallType
      /\ CallInv /\ ShownInv /\ Written(call.flushed)
  BY GoodParts
<1>2. Flushing /\ call.flushed = Len(f.cbuf) /\ os' = os /\ f.dirty
  BY DEF FlushEnds, Flushing
<1>3. /\ call' = [call EXCEPT !.flushed = 0,
                !.op = CASE @ = "flush" -> "idle" [] @ = "close" -> "closed" [] OTHER -> @]
      /\ f' = IF f.positioned THEN [f EXCEPT !.dirty = FALSE]
              ELSE [Emptied(f, f.end) EXCEPT !.dirty = FALSE]
  BY DEF FlushEnds
<1>4. /\ os.mode \in {"w", "rw"} /\ (os.mode = "rw" => f.positioned) /\ call.op \notin {"idle", "closed"}
      /\ f.end \in Nat
  BY <1>1, <1>2, FileTypes, FlushingHas
<1>5. /\ call'.flushed = 0 /\ call'.want = call.want /\ call'.bytes = call.bytes
      /\ call'.off = call.off /\ call'.got = call.got
      /\ call'.filled = call.filled /\ call'.failed = call.failed
  BY <1>1, <1>3 DEF CallType
<1>6. \/ call.op \in {"flush", "close"} /\ call'.op \in {"idle", "closed"}
      \/ call.op \notin {"flush", "close"} /\ call'.op = call.op
  BY <1>1, <1>3, <1>4 DEF CallType
<1>7. Shows(os.data, f.tag, f.cbuf)
  BY <1>1, <1>2 DEF Shows, Written
<1>8. Seen = os.data
  <2>1. os.data \in Seq(Nat) /\ f.tag \in Nat /\ f.cbuf \in Seq(Nat)
    BY <1>1 DEF OsType, FType, Bytes
  <2>. QED BY <1>2, <1>7, <2>1, ShownOverwrites DEF Seen
<1>9. /\ ~f'.dirty /\ f'.map = f.map
      /\ f.positioned => f'.pos = f.pos /\ f'.tag = f.tag /\ f'.cbuf = f.cbuf
      /\ ~f.positioned => f'.pos = f.end
  <2>1. CASE f.positioned
    BY <1>1, <1>3, <2>1 DEF FType
  <2>2. CASE ~f.positioned
    <3>. DEFINE g == Emptied(f, f.end)
    <3>1. g \in FType /\ g.pos = f.end /\ g.map = f.map
      BY <1>1, <1>4, EmptiedIs
    <3>2. f' = [g EXCEPT !.dirty = FALSE]
      BY <1>3, <2>2
    <3>. HIDE DEF g
    <3>. QED BY <2>2, <3>1, <3>2 DEF FType
  <2>. QED BY <2>1, <2>2
<1>10. f'.pos = f.pos
  <2>1. CASE os.mode = "w"
    BY <1>1, <1>9, <2>1, WritesHas
  <2>2. CASE os.mode = "rw"
    BY <1>4, <1>9, <2>2
  <2>. QED BY <1>4, <2>1, <2>2
<1>11. Seen' = Seen
  BY <1>2, <1>8, <1>9 DEF Seen
<1>12. ShownInv'
  BY <1>2, <1>4, <1>7, <1>9 DEF ShownInv
<1>13. CallInv'
  <2>1. ~call.failed /\ ~call'.failed
    BY <1>1, <1>4, <1>5 DEF CallInv
  <2>2. ~(call'.op \in Positioned /\ call'.filled) /\ call'.op \notin Reads
    BY <1>2, <1>5, <1>6 DEF Flushing, Missed, Writes, Reads, Positioned
  <2>. QED BY <2>1, <2>2 DEF CallInv
<1>14. Written(call.flushed)'
  BY <1>5 DEF Written
<1>15. PlainStep
  <2>1. CASE call.op \in {"flush", "close"} /\ call'.op \in {"idle", "closed"}
    BY <1>2, <1>4, <1>5, <1>8, <1>10, <1>11, <2>1, ReturnsNow
  <2>2. CASE call'.op = call.op
    BY <1>2, <1>5, <1>10, <1>11, <2>2, Stutters DEF Asked
  <2>. QED BY <1>6, <2>1, <2>2
<1>. QED BY <1>12, <1>13, <1>14, <1>15 DEF DataInv

(* A file that is not dirty is seen as it is.                              *)
LEMMA CleanSeen ==
  ASSUME ~f.dirty, f'.dirty = f.dirty, os'.data = os.data
  PROVE  Seen = os.data /\ Seen' = Seen
BY DEF Seen

(* io61_flush_clean does not move the program's position, and the file     *)
(* holds what it sees.                                                     *)
LEMMA FlushCleanRefines ==
  ASSUME Good, FlushClean
  PROVE  DataInv' /\ PlainStep
<1>1. /\ FileInv /\ RecordsInv /\ os \in OsType /\ f \in FType /\ call \in CallType
      /\ CallInv /\ ShownInv /\ FlushInv
  BY GoodParts
<1>2. /\ call.op \in {"flush", "close"} /\ ~f.dirty
      /\ call' = [call EXCEPT !.op = IF @ = "close" THEN "closed" ELSE "idle"]
  BY DEF FlushClean
<1>3. /\ call'.op \in {"idle", "closed"} /\ call'.flushed = 0 /\ call'.got = call.got
      /\ call'.failed = call.failed
  BY <1>1, <1>2 DEF CallType, FlushInv, Flushing
<1>4. /\ os'.data = os.data /\ os'.mode = os.mode
      /\ f'.dirty = f.dirty /\ f'.pos = f.pos /\ f'.map = f.map /\ f'.positioned = f.positioned
      /\ (f'.tag = f.tag /\ f'.cbuf = f.cbuf) \/ f'.cbuf = << >>
  <2>1. CASE os.seekable /\ ~f.positioned
    <3>1. os' = [os EXCEPT !.kpos = f.pos] /\ f' = Emptied(f, f.pos) /\ f.pos \in Nat
      BY <1>1, <2>1, FileTypes DEF FlushClean
    <3>2. os'.data = os.data /\ os'.mode = os.mode
      BY <1>1, <3>1 DEF OsType
    <3>3. /\ f'.dirty = f.dirty /\ f'.pos = f.pos /\ f'.map = f.map
          /\ f'.positioned = f.positioned /\ f'.cbuf = << >>
      BY <1>1, <3>1, EmptiedIs
    <3>. QED BY <3>2, <3>3
  <2>2. CASE ~(os.seekable /\ ~f.positioned)
    BY <2>2 DEF FlushClean
  <2>. QED BY <2>1, <2>2
<1>5. Seen = os.data /\ Seen' = Seen
  BY <1>2, <1>4, CleanSeen
<1>6. ShownInv'
  BY <1>1, <1>4 DEF ShownInv, Shows
<1>7. CallInv' /\ Written(call.flushed)'
  BY <1>3 DEF CallInv, Written, Reads, Positioned
<1>8. PlainStep
  BY <1>2, <1>3, <1>4, <1>5, ReturnsNow
<1>. QED BY <1>6, <1>7, <1>8 DEF DataInv

(* A seek in the cache.                                                    *)
LEMMA SeekInCacheRefines ==
  ASSUME Good, SeekInCache
  PROVE  DataInv' /\ PlainStep
<1>1. /\ FileInv /\ f \in FType /\ call \in CallType /\ CallInv /\ ShownInv
  BY GoodParts
<1>2. /\ Seeking /\ os.mode = "r"
      /\ f' = [f EXCEPT !.pos = call.off] /\ os' = os
      /\ call' = [call EXCEPT !.op = "idle"]
  BY DEF SeekInCache, InCache, End
<1>3. /\ f'.pos = call.off /\ f'.tag = f.tag /\ f'.map = f.map
      /\ f'.cbuf = f.cbuf /\ f'.dirty = f.dirty /\ f'.positioned = f.positioned
  BY <1>1, <1>2 DEF FType
<1>4. call'.op = "idle" /\ call'.failed = call.failed /\ call'.flushed = call.flushed
  BY <1>1, <1>2 DEF CallType
<1>5. call.op = "seek" /\ call.flushed = 0
  BY <1>1, <1>2, SeekingHas
<1>6. Seen' = Seen
  BY <1>2, <1>3 DEF Seen
<1>7. DataInv'
  <2>1. ShownInv'
    BY <1>1, <1>2, <1>3 DEF ShownInv
  <2>2. CallInv' /\ Written(call.flushed)'
    BY <1>4, <1>5 DEF CallInv, Written, Reads, Positioned
  <2>. QED BY <2>1, <2>2 DEF DataInv
<1>8. PlainStep
  BY <1>2, <1>3, <1>4, <1>5, <1>6, Seeks
<1>. QED BY <1>7, <1>8

(* A seek that calls lseek.                                                *)
LEMMA SeekInKernelRefines ==
  ASSUME Good, SeekInKernel
  PROVE  DataInv' /\ PlainStep
<1>1. /\ FileInv /\ os \in OsType /\ f \in FType /\ call \in CallType /\ CallInv
      /\ RecordsInv
  BY GoodParts
<1>2. /\ Seeking /\ ~f.dirty /\ os' = [os EXCEPT !.kpos = call.off]
      /\ f' = Sought(f, call.off) /\ call' = [call EXCEPT !.op = "idle"]
  BY DEF SeekInKernel, End
<1>3. call.off \in Nat
  BY <1>1 DEF CallType
<1>4. os'.mode = os.mode /\ os'.data = os.data
  BY <1>1, <1>2 DEF OsType
<1>5. call'.op = "idle" /\ call'.failed = call.failed /\ call'.flushed = call.flushed
  BY <1>1, <1>2 DEF CallType
<1>6. call.op = "seek" /\ call.flushed = 0 /\ os.mode \in {"r", "w"}
  BY <1>1, <1>2, SeekingHas
<1>. DEFINE g == IF os.mode = "w" THEN f ELSE Mapped(f)
<1>7. g \in FType /\ g.dirty = f.dirty
  BY <1>1, FileTypes DEF Mapped, FType
<1>8. /\ f'.pos = call.off /\ f'.dirty = f.dirty
      /\ f'.map = "mapped" \/ f'.cbuf = << >>
  <2>1. CASE os.mode = "w" \/ Mapped(f).map = "failed"
    <3>1. f' = Emptied(g, call.off)
      BY <1>2, <2>1 DEF Sought
    <3>. HIDE DEF g
    <3>. QED BY <1>3, <1>7, <3>1, EmptiedIs
  <2>2. CASE ~(os.mode = "w" \/ Mapped(f).map = "failed")
    <3>1. f' = [g EXCEPT !.pos = call.off] /\ g = Mapped(f)
      BY <1>2, <2>2 DEF Sought
    <3>2. g.map = "mapped"
      BY <1>1, <2>2, <3>1, FileTypes DEF Mapped, FType
    <3>. HIDE DEF g
    <3>. QED BY <1>3, <1>7, <3>1, <3>2 DEF FType
  <2>. QED BY <2>1, <2>2
<1>9. Seen' = Seen
  BY <1>2, <1>4, <1>8, CleanSeen
<1>10. DataInv'
  <2>1. ShownInv'
    BY <1>4, <1>6, <1>8 DEF ShownInv, Shows
  <2>2. CallInv' /\ Written(call.flushed)'
    BY <1>1, <1>5, <1>6 DEF CallInv, Written, Reads, Positioned
  <2>. QED BY <2>1, <2>2 DEF DataInv
<1>11. PlainStep
  BY <1>4, <1>5, <1>6, <1>8, <1>9, Seeks
<1>. QED BY <1>10, <1>11

(* A call fails that has changed nothing.                                  *)
LEMMA FailureRefines ==
  ASSUME Good, os' = os, f' = f, call.op \notin {"idle", "closed"}, call.flushed = 0,
         call' = [[call EXCEPT !.failed = TRUE] EXCEPT !.op = "idle"]
  PROVE  DataInv' /\ PlainStep
<1>1. FileInv /\ call \in CallType /\ CallInv /\ DataInv
  BY GoodParts
<1>2. call'.op = "idle" /\ call'.failed /\ call'.flushed = 0
  BY <1>1 DEF CallType
<1>3. ~call.failed
  BY <1>1 DEF CallInv
<1>4. CallInv'
  BY <1>2 DEF CallInv, Reads, Positioned
<1>5. DataInv' /\ Seen' = Seen
  BY <1>1, <1>2, <1>4, SameFile
<1>6. PlainStep
  BY <1>2, <1>3, <1>5, Refuses
<1>. QED BY <1>5, <1>6

(* A seek that fails.                                                      *)
LEMMA SeekFailsRefines ==
  ASSUME Good, SeekFails
  PROVE  DataInv' /\ PlainStep
<1>1. /\ Seeking /\ ~f.dirty /\ os' = os /\ f' = f
      /\ call' = [[call EXCEPT !.failed = TRUE] EXCEPT !.op = "idle"]
  BY DEF SeekFails, End
<1>2. call.op = "seek" /\ call.flushed = 0
  BY <1>1, GoodParts, SeekingHas
<1>. QED BY <1>1, <1>2, FailureRefines

(* io61_pfill fails.                                                       *)
LEMMA PfillFailsRefines ==
  ASSUME Good, NEW e, PfillFails(e)
  PROVE  DataInv' /\ PlainStep
<1>1. /\ call.op \in Positioned /\ ~f.dirty /\ os' = os /\ f' = f
      /\ call' = [[call EXCEPT !.failed = TRUE] EXCEPT !.op = "idle"]
  BY DEF PfillFails, Missed, End
<1>2. call.flushed = 0
  BY <1>1, GoodParts DEF FlushInv, Flushing
<1>. QED BY <1>1, <1>2, FailureRefines DEF Positioned

-----------------------------------------------------------------------------
(* Positioned mode refines, and the theorem.                               *)

(* io61_pfill changes nothing that the program sees, and the new window    *)
(* shows the file.                                                         *)
LEMMA PfillRefines ==
  ASSUME Good, Pfill
  PROVE  DataInv' /\ PlainStep
<1>1. /\ FileInv /\ FlushInv /\ f \in FType /\ call \in CallType /\ CallInv
  BY GoodParts
<1>2. call.op \in Positioned /\ ~f.dirty
  BY DEF Pfill, Missed
<1>. DEFINE tag == call.off - (call.off % CbufSize)
            stop == Min({tag + CbufSize, Len(os.data)})
            read == SubSeq(os.data, tag + 1, stop)
<1>3. /\ f' = [f EXCEPT !.tag = tag, !.end = tag + Len(read), !.cbuf = read, !.positioned = TRUE]
      /\ call' = [call EXCEPT !.filled = TRUE] /\ os' = os
  BY DEF Pfill
<1>4. /\ call.off \in Nat /\ Len(os.data) \in Nat
      /\ os.data \in Seq(Nat) /\ CbufSize \in Nat \ {0} /\ os.mode = "rw"
  BY <1>1, <1>2, PositionedHas, BufferedFileAssumption
<1>5. tag \in Nat /\ tag <= call.off /\ call.off < tag + CbufSize
  BY <1>4, WindowStart
<1>. HIDE DEF tag
<1>6. /\ stop \in Nat /\ stop <= Len(os.data)
      /\ call.off >= stop => stop = Len(os.data)
  <2>. DEFINE x == tag + CbufSize
  <2>1. x \in Int /\ Len(os.data) \in Int
    BY <1>4, <1>5
  <2>2. stop = IF x <= Len(os.data) THEN x ELSE Len(os.data)
    <3>. HIDE DEF x
    <3>1. Min({x, Len(os.data)}) = IF x <= Len(os.data) THEN x ELSE Len(os.data)
      BY <2>1, MinIs
    <3>. QED BY <3>1 DEF x
  <2>. HIDE DEF stop
  <2>. QED BY <1>4, <1>5, <2>2
<1>. HIDE DEF stop
<1>7. /\ read \in Seq(Nat) /\ Shows(os.data, tag, read)
      /\ call.off = tag + Len(read) => tag + Len(read) >= Len(os.data)
  <2>1. CASE tag <= stop
    <3>. DEFINE n == stop - tag
    <3>1. n \in Nat /\ tag + n = stop
      BY <1>5, <1>6, <2>1
    <3>. HIDE DEF n
    <3>2. tag + n <= Len(os.data)
      BY <1>6, <3>1
    <3>3. /\ SubSeq(os.data, tag + 1, tag + n) \in Seq(Nat)
          /\ Len(SubSeq(os.data, tag + 1, tag + n)) = n
          /\ \A k \in 1..n : SubSeq(os.data, tag + 1, tag + n)[k] = os.data[tag + k]
      BY <1>4, <1>5, <3>1, <3>2, SliceIs
    <3>4. /\ read \in Seq(Nat) /\ Len(read) = n
          /\ \A k \in 1..n : read[k] = os.data[tag + k]
      BY <3>1, <3>3
    <3>. HIDE DEF read
    <3>5. \A k \in 1..n : tag + k <= Len(os.data)
      BY <1>4, <1>5, <3>1, <3>2
    <3>. QED BY <1>4, <1>6, <3>1, <3>4, <3>5 DEF Shows
  <2>2. CASE tag > stop
    <3>1. tag + 1 \in Int /\ stop \in Int /\ ~(tag + 1 <= stop)
      BY <1>5, <1>6, <2>2
    <3>2. \A i \in (tag + 1)..stop : os.data[i] \in Nat
      BY <3>1
    <3>3. read \in Seq(Nat) /\ Len(read) = 0
      BY <3>1, <3>2, SubSeqProperties
    <3>. HIDE DEF read
    <3>4. stop = Len(os.data)
      BY <1>4, <1>5, <1>6, <2>2
    <3>. QED BY <1>4, <1>5, <2>2, <3>3, <3>4 DEF Shows
  <2>3. tag <= stop \/ tag > stop
    BY <1>5, <1>6
  <2>. QED BY <2>1, <2>2, <2>3
<1>. HIDE DEF read
<1>9. /\ f'.pos = f.pos /\ f'.dirty = f.dirty /\ f'.map = f.map
      /\ f'.tag = tag /\ f'.end = tag + Len(read) /\ f'.cbuf = read
  BY <1>1, <1>3 DEF FType
<1>10. call.flushed = 0
  BY <1>1, <1>2 DEF FlushInv, Flushing
<1>11. /\ call'.flushed = 0 /\ call'.op = call.op /\ call'.got = call.got
       /\ call'.off = call.off /\ call'.want = call.want /\ call'.bytes = call.bytes
       /\ call'.failed = call.failed
  BY <1>1, <1>3, <1>10 DEF CallType
<1>13. ShownInv'
  BY <1>3, <1>4, <1>7, <1>9 DEF ShownInv
<1>14. CallInv'
  BY <1>1, <1>2, <1>3, <1>7, <1>9, <1>11 DEF CallInv, Positioned, Reads
<1>15. Written(call.flushed)'
  BY <1>11 DEF Written
<1>16. Seen' = Seen
  BY <1>2, <1>3, <1>9, CleanSeen
<1>17. PlainStep
  BY <1>3, <1>9, <1>11, <1>16, Stutters DEF Asked
<1>. QED BY <1>13, <1>14, <1>15, <1>17 DEF DataInv

(* What the program sees of a window.                                      *)
LEMMA PositionedSees ==
  ASSUME Good, call.op \in Positioned, f.positioned
  PROVE  /\ Seen = Overwritten(os.data, f.tag, f.cbuf) /\ Seen \in Seq(Nat)
         /\ Len(Seen) = Len(os.data)
<1>1. /\ FileInv /\ ShownInv
  BY GoodParts
<1>2. /\ os.mode = "rw" /\ f.end = f.tag + Len(f.cbuf) /\ f.tag \in Nat /\ f.cbuf \in Seq(Nat)
      /\ os.data \in Seq(Nat) /\ (f.end <= Len(os.data) \/ f.cbuf = << >>)
  BY <1>1, PositionedHas
<1>3. Seen = Overwritten(os.data, f.tag, f.cbuf)
  <2>1. CASE f.dirty
    BY <2>1 DEF Seen
  <2>2. CASE ~f.dirty
    <3>1. Shows(os.data, f.tag, f.cbuf)
      BY <1>1, <1>2, <2>2 DEF ShownInv
    <3>. QED BY <1>2, <2>2, <3>1, ShownOverwrites DEF Seen
  <2>. QED BY <2>1, <2>2
<1>4. CASE f.end <= Len(os.data)
  BY <1>2, <1>3, <1>4, WindowOverwritten
<1>5. CASE f.cbuf = << >>
  BY <1>2, <1>3, <1>5, EmptyOverwrites
<1>. QED BY <1>2, <1>4, <1>5

(* The copy from the window reads the file at the offset, and the copy to  *)
(* it writes there, as far as the program sees.                            *)
LEMMA CopyPositionedRefines ==
  ASSUME Good, CopyPositioned
  PROVE  (DataInv' /\ PlainStep) \/ Crashes
<1>1. /\ FileInv /\ FlushInv /\ f \in FType /\ call \in CallType /\ CallInv /\ ShownInv
  BY GoodParts
<1>2. call.op \in Positioned /\ (call.filled \/ Hit)
  BY DEF CopyPositioned
<1>3. /\ os.mode = "rw" /\ f.map = "none" /\ call.off \in Nat /\ call.want \in Nat
      /\ (call.op = "pwrite" => call.want = Len(call.bytes))
      /\ f.end = f.tag + Len(f.cbuf) /\ f.tag \in Nat /\ f.end \in Nat /\ f.cbuf \in Seq(Nat)
      /\ Len(f.cbuf) \in Nat /\ os.data \in Seq(Nat)
  BY <1>1, <1>2, PositionedHas
<1>4. /\ f.positioned /\ f.tag <= call.off
      /\ call.off <= f.end \/ call.off > Len(os.data)
      /\ call.off >= f.end => call.filled
  <2>1. CASE call.filled
    BY <1>1, <1>2, <2>1, PositionedHas
  <2>2. CASE Hit
    BY <1>3, <2>2 DEF Hit
  <2>. QED BY <1>2, <2>1, <2>2
<1>5. f.tag + Len(f.cbuf) <= Len(os.data) \/ f.cbuf = << >>
  BY <1>1, <1>2, <1>3, <1>4, PositionedHas
<1>6. /\ Seen = Overwritten(os.data, f.tag, f.cbuf) /\ Seen \in Seq(Nat)
      /\ Len(Seen) = Len(os.data)
  BY <1>2, <1>4, PositionedSees
<1>7. call.off >= f.end => call.off >= Len(Seen)
  BY <1>1, <1>2, <1>3, <1>4, <1>6 DEF CallInv
<1>8. call.flushed = 0 /\ ~call.failed
  BY <1>1, <1>2 DEF FlushInv, Flushing, Missed, Writes, Positioned, CallInv
<1>. DEFINE x == f.end - call.off
            n == Moved(x)
            e == call.off - f.tag
            got == SubSeq(f.cbuf, e + 1, e + n)
            head == SubSeq(call.bytes, 1, n)
            cbuf == Overwritten(f.cbuf, e, head)
<1>9. /\ n \in Nat /\ n <= call.want /\ e \in Nat /\ f.tag + e = call.off
      /\ n > Max({0, x}) => call.off > Len(os.data)
      /\ ~(n > Max({0, x})) => n = 0 \/ e + n <= Len(f.cbuf)
      /\ n = 0 => call.want = 0 \/ call.off >= f.end
  <2>1. /\ x \in Int /\ e \in Nat /\ e + x = Len(f.cbuf) /\ f.tag + e = call.off
        /\ x < 0 => call.off > Len(os.data)
        /\ x <= 0 => call.off >= f.end
    <3>1. Len(os.data) \in Nat
      BY <1>3
    <3>. QED BY <1>3, <1>4, <3>1
  <2>. HIDE DEF x, e
  <2>2. /\ n = IF x < 0 \/ call.want <= x THEN call.want ELSE x
        /\ Max({0, x}) = IF x < 0 THEN 0 ELSE x
    BY <1>3, <2>1, MovedIs
  <2>. HIDE DEF n
  <2>. QED BY <1>3, <2>1, <2>2
<1>c. CASE n > Max({0, x})
  <2>1. Crash("wild")
    BY <1>c DEF CopyPositioned
  <2>2. call.off > Len(os.data)
    BY <1>9, <1>c
  <2>. HIDE DEF n, x
  <2>. QED BY <1>3, <2>1, <2>2 DEF Crashes, Crash
<1>. SUFFICES ASSUME ~(n > Max({0, x}))
              PROVE  DataInv' /\ PlainStep
  BY <1>c
<1>10. /\ os' = os
       /\ \/ /\ call.op = "pread" /\ f' = f
             /\ call' = [[call EXCEPT !.got = got] EXCEPT !.op = "idle"]
          \/ /\ call.op = "pwrite" /\ f' = [f EXCEPT !.dirty = TRUE, !.cbuf = cbuf]
             /\ call' = [call EXCEPT !.op = "idle"]
  BY <1>2 DEF CopyPositioned, End, Positioned
<1>n. n = 0 \/ (e + n <= Len(f.cbuf) /\ f.tag + Len(f.cbuf) <= Len(os.data))
  <2>1. n = 0 \/ e + n <= Len(f.cbuf)
    BY <1>9
  <2>2. f.cbuf = << >> => Len(f.cbuf) = 0
    OBVIOUS
  <2>. HIDE DEF n
  <2>3. e + n <= Len(f.cbuf) /\ n # 0 => f.cbuf # << >>
    <3>. HIDE DEF e
    <3>. QED BY <1>9, <2>2
  <2>. QED BY <1>5, <2>1, <2>3
<1>11. n = 0 => call.want = 0 \/ call.off >= Len(Seen)
  <2>. HIDE DEF n
  <2>. QED BY <1>7, <1>9
<1>. HIDE DEF n, e, x
<1>12. CASE call.op = "pread"
  <2>2. SubSeq(Seen, call.off + 1, call.off + n) = got /\ (n > 0 => call.off + n <= Len(Seen))
    <3>1. CASE n = 0
      <4>1. NothingOf(Seen, call.off, n) /\ NothingOf(f.cbuf, e, n)
        BY <1>3, <1>6, <1>9, <3>1, NoSlice
      <4>2. ~(n > 0)
        BY <3>1
      <4>. QED BY <4>1, <4>2 DEF NothingOf
    <3>2. CASE n # 0
      <4>1. Sliced(os.data, f.tag, f.cbuf, e, n)
        BY <1>3, <1>9, <1>n, <3>2, WindowSlice
      <4>. QED BY <1>6, <1>9, <4>1 DEF Sliced
    <3>. QED BY <3>1, <3>2
  <2>. HIDE DEF got
  <2>3. f' = f /\ call' = [[call EXCEPT !.got = got] EXCEPT !.op = "idle"]
    BY <1>10, <1>12
  <2>4. call'.op = "idle" /\ call'.flushed = 0 /\ call'.failed = call.failed /\ call'.got = got
    BY <1>1, <1>8, <2>3 DEF CallType
  <2>5. CallInv'
    BY <2>4 DEF CallInv, Reads, Positioned
  <2>6. DataInv' /\ Seen' = Seen
    BY <1>1, <1>10, <2>3, <2>4, <2>5, GoodParts, SameFile
  <2>7. PlainStep
    <3>1. n \in 0..call.want
      BY <1>3, <1>9
    <3>. QED BY <1>10, <1>11, <1>12, <2>2, <2>3, <2>4, <2>6, <3>1, Preads
  <2>. QED BY <2>6, <2>7
<1>13. CASE call.op = "pwrite"
  <2>0. n \in 0..Len(call.bytes) /\ call.bytes \in Seq(Nat) /\ Len(call.bytes) \in Nat
        /\ n <= Len(call.bytes)
    BY <1>1, <1>3, <1>9, <1>13 DEF CallType, Bytes
  <2>1. head \in Seq(Nat) /\ Len(head) = n
    <3>2. /\ SubSeq(call.bytes, 0 + 1, 0 + n) \in Seq(Nat)
          /\ Len(SubSeq(call.bytes, 0 + 1, 0 + n)) = n
      BY <1>9, <2>0, SliceIs
    <3>. QED BY <1>9, <3>2
  <2>. HIDE DEF head, cbuf
  <2>2. /\ f' = [f EXCEPT !.dirty = TRUE, !.cbuf = cbuf] /\ call' = [call EXCEPT !.op = "idle"]
    BY <1>10, <1>13
  <2>3. /\ f'.positioned = f.positioned /\ f'.pos = f.pos /\ f'.dirty
        /\ f'.tag = f.tag /\ f'.cbuf = cbuf
    BY <1>1, <2>2 DEF FType
  <2>4. call'.op = "idle" /\ call'.flushed = 0 /\ call'.failed = call.failed
    BY <1>1, <1>8, <2>2 DEF CallType
  <2>5. DataInv'
    <3>1. ShownInv'
      BY <1>3, <1>10, <2>3 DEF ShownInv
    <3>2. CallInv' /\ Written(call.flushed)'
      BY <2>4 DEF CallInv, Written, Reads, Positioned
    <3>. QED BY <3>1, <3>2 DEF DataInv
  <2>6. Seen' = Plain!Overwritten(Seen, call.off, head)
    <3>1. Placed(os.data, f.tag, f.cbuf, e, head)
      <4>1. CASE n = 0
        <5>1. head = << >>
          BY <2>1, <4>1, EmptySeq
        <5>2. /\ Overwritten(Seen, call.off, << >>) = Seen
              /\ Overwritten(f.cbuf, e, << >>) = f.cbuf
          BY <1>3, <1>6, <1>9, EmptyOverwrites
        <5>. QED BY <1>6, <1>9, <5>1, <5>2 DEF Placed
      <4>2. CASE n # 0
        <5>1. e + Len(head) <= Len(f.cbuf)
          BY <1>n, <2>1, <4>2
        <5>. QED BY <1>3, <1>n, <1>9, <2>1, <4>2, <5>1, PlaceOverwrites
      <4>. QED BY <4>1, <4>2
    <3>2. Overwritten(Seen, call.off, head) = Overwritten(os.data, f.tag, cbuf)
      BY <1>6, <1>9, <3>1 DEF Placed, cbuf
    <3>3. Plain!Overwritten(Seen, call.off, head) = Overwritten(Seen, call.off, head)
      BY <1>3, <1>6, <2>1, PlainOverwritten
    <3>4. Seen' = Overwritten(os.data, f.tag, cbuf)
      BY <1>10, <2>3 DEF Seen
    <3>. QED BY <3>2, <3>3, <3>4
  <2>7. n = 0 => call.bytes = << >> \/ call.off >= Len(Seen)
    BY <1>3, <1>11, <1>13, <2>0, EmptySeq
  <2>8. PlainStep
    BY <1>10, <1>13, <2>0, <2>3, <2>4, <2>6, <2>7, Pwrites DEF head
  <2>. QED BY <2>5, <2>8
<1>. QED BY <1>2, <1>12, <1>13 DEF Positioned

(* Any step of a call in progress.                                         *)
LEMMA StepRefines ==
  ASSUME Good, Step
  PROVE  (DataInv' /\ PlainStep) \/ Crashes
BY ReadMappedRefines, CopyCachedRefines, FillRefines, ReadReturnsRefines, CopyInRefines,
   WriteReturnsRefines, FlushWritesRefines, FlushEndsRefines, FlushCleanRefines,
   SeekInCacheRefines, SeekInKernelRefines, SeekFailsRefines, PfillRefines,
   CopyPositionedRefines DEF Step

(* Any fault.                                                              *)
LEMMA FaultRefines ==
  ASSUME Good, Fault
  PROVE  DataInv' /\ PlainStep
BY FillAgainRefines, FlushFailsRefines, PfillFailsRefines DEF Fault

(* Steps that change nothing here.                                         *)
LEMMA StutterRefines ==
  ASSUME Good, UNCHANGED vars
  PROVE  DataInv' /\ PlainStep
<1>1. os' = os /\ f' = f /\ call' = call
  BY DEF vars
<1>2. CallInv'
  BY <1>1, GoodParts DEF CallInv
<1>3. DataInv' /\ Seen' = Seen
  BY <1>1, <1>2, GoodParts, SameFile
<1>4. PlainStep
  BY <1>1, <1>3, Stutters DEF Asked
<1>. QED BY <1>3, <1>4

-----------------------------------------------------------------------------
(* A file that is mapped, whatever is asked for behind its end.            *)

(* Its cache is never used; its position is its tag and its end until it   *)
(* is mapped, and then the tag is 0 and the end is that of the file.       *)
MapInv ==
  /\ RecordsInv /\ os.mode = "r" /\ os.mappable
  /\ call.op \in {"idle", "closed", "close", "seek"} \cup Reads
  /\ ~f.dirty /\ ~f.positioned /\ f.map # "failed" /\ f.cbuf = << >> /\ call.flushed = 0
  /\ call.op \in Reads => f.map = "mapped" /\ call.got = << >>
  /\ call.failed => call.op \in {"idle", "closed"}
  /\ f.map = "none" => /\ f.tag = f.pos /\ f.end = f.pos
                       /\ call.op # "closed" => os.kpos = f.pos
  /\ f.map = "mapped" /\ call.op # "closed" => f.tag = 0 /\ f.end = Len(os.data)

(* A step of such a file that is right.                                    *)
MapStep == MapInv' /\ PlainStep

(* A file that can be mapped has just been opened.                         *)
LEMMA InitMapped ==
  ASSUME NEW k \in Kinds, Opened(k), k.mode = "r", k.mappable
  PROVE  MapInv
<1>1. k \in [mode : {"r", "w", "rw"}, seekable : BOOLEAN, mappable : BOOLEAN,
             data : Seq(Nat), at : Nat]
  BY BufferedFileAssumption
<1>. DEFINE at == IF k.seekable THEN k.at ELSE 0
<1>2. at \in Nat
  BY <1>1
<1>3. /\ os = [mode |-> k.mode, seekable |-> k.seekable, mappable |-> k.mappable,
               data |-> k.data, kpos |-> at]
      /\ f = [map |-> "none", tag |-> at, pos |-> at, end |-> at,
              cbuf |-> << >>, dirty |-> FALSE, positioned |-> FALSE]
      /\ call = NoCall /\ crash = "none"
  BY DEF Opened
<1>. HIDE DEF at
<1>4. RecordsInv
  <2>1. os \in OsType
    BY <1>1, <1>2, <1>3 DEF OsType, Bytes
  <2>2. f \in FType
    BY <1>2, <1>3 DEF FType, Bytes
  <2>3. call \in CallType
    BY <1>3 DEF NoCall, CallType, Ops, Bytes
  <2>. QED BY <1>3, <2>1, <2>2, <2>3 DEF RecordsInv
<1>. QED BY <1>3, <1>4 DEF MapInv, NoCall, Reads

(* io61_check_assertions fails only behind the end.                        *)
LEMMA MapSane ==
  ASSUME MapInv, Ready
  PROVE  Sane(f) \/ f.pos > Len(os.data)
<1>1. /\ f.tag \in Nat /\ f.pos \in Nat /\ f.end \in Nat /\ Len(os.data) \in Nat
  BY FileTypes DEF MapInv
<1>2. f.map \in {"none", "mapped"} /\ call.op # "closed" /\ os.mode # "w"
  BY FileTypes DEF MapInv, Ready
<1>. QED BY <1>1, <1>2 DEF MapInv, Sane

(* What mapping such a file makes of it.                                   *)
LEMMA MappedIs ==
  ASSUME MapInv
  PROVE  /\ Mapped(f) \in FType /\ Mapped(f).map = "mapped" /\ Mapped(f).pos = f.pos
         /\ ~Mapped(f).dirty /\ ~Mapped(f).positioned /\ Mapped(f).cbuf = << >>
         /\ call.op # "closed" => Mapped(f).tag = 0 /\ Mapped(f).end = Len(os.data)
<1>1. f \in FType /\ os.mappable /\ Len(os.data) \in Nat /\ f.map \in {"none", "mapped"}
  BY FileTypes DEF MapInv, RecordsInv
<1>. QED BY <1>1 DEF MapInv, Mapped, FType

(* A read begins, and maps the file, or the assertions fail.               *)
LEMMA StartReadMaps ==
  ASSUME MapInv, NEW op \in Reads, NEW n \in Nat, StartRead(op, n)
  PROVE  MapStep \/ Crashes
<1>1. /\ Ready /\ os.mode = "r" /\ os.mappable /\ RecordsInv /\ f \in FType /\ os \in OsType
      /\ crash = "none"
  BY DEF StartRead, MapInv, RecordsInv
<1>2. CASE Crash("assert")
  <2>1. ~Sane(f)
    <3>1. Mapped(f).map # "failed"
      BY MappedIs
    <3>. QED BY <1>1, <1>2, <3>1 DEF StartRead, Crash, Begin
  <2>. QED BY <1>1, <1>2, <2>1, MapSane DEF Crashes, Crash
<1>3. CASE ~Crash("assert")
  <2>1. call' = [NoCall EXCEPT !.op = op, !.want = n] /\ f' = Mapped(f) /\ os' = os /\ crash' = crash
    BY <1>3 DEF StartRead, Begin
  <2>2. /\ call' \in CallType /\ call'.op = op /\ call'.got = << >> /\ call'.flushed = 0
        /\ ~call'.failed
    <3>1. op \in Ops /\ << >> \in Bytes /\ 0 \in Nat
      BY DEF Ops, Bytes
    <3>2. call' = [op |-> op, want |-> n, bytes |-> << >>, off |-> 0, got |-> << >>,
                   flushed |-> 0, filled |-> FALSE, failed |-> FALSE]
      BY <2>1 DEF NoCall
    <3>. QED BY <3>1, <3>2, NewCall
  <2>3. call.op # "closed" /\ call.op = "idle"
    BY <1>1 DEF Ready
  <2>4. /\ f' \in FType /\ f'.map = "mapped" /\ f'.pos = f.pos /\ ~f'.dirty /\ ~f'.positioned
        /\ f'.cbuf = << >> /\ f'.tag = 0 /\ f'.end = Len(os.data)
    BY <2>1, <2>3, MappedIs
  <2>5. MapInv'
    BY <1>1, <2>1, <2>2, <2>4 DEF MapInv, RecordsInv
  <2>6. Seen' = Seen
    BY <2>1, <2>4 DEF Seen, MapInv
  <2>7. PlainStep
    BY <2>1, <2>2, <2>3, <2>4, <2>6, Begins DEF Reads
  <2>. QED BY <2>5, <2>7 DEF MapStep
<1>. QED BY <1>2, <1>3

(* Reading from the mapping reads the file, returns nothing at its end,    *)
(* and behind it returns nothing, or copies what is not there.             *)
LEMMA ReadMappedMaps ==
  ASSUME MapInv, ReadMapped
  PROVE  MapStep \/ Crashes
<1>1. /\ RecordsInv /\ os \in OsType /\ f \in FType /\ call \in CallType /\ crash = "none"
      /\ call.op \in Reads /\ call.op # "closed" /\ call.op # "idle" /\ f.map = "mapped"
      /\ f.end = Len(os.data) /\ call.got = << >> /\ os.mode = "r" /\ os.mappable
      /\ call.op \in {"read", "readc"} /\ ~f.dirty
  BY DEF ReadMapped, MapInv, RecordsInv, Reads
<1>. DEFINE l == Len(os.data) - f.pos
            x == IF call.op = "readc" THEN Max({0, f.end - f.pos}) ELSE Len(os.data) - f.pos
            n == Moved(x)
            got == SubSeq(os.data, f.pos + 1, f.pos + n)
<1>2. /\ f.pos \in Nat /\ call.want \in Nat /\ Len(os.data) \in Nat /\ os.data \in Seq(Nat)
      /\ l \in Int /\ (l < 0 <=> f.pos > Len(os.data)) /\ (l >= 0 => f.pos + l = Len(os.data))
  <2>1. /\ f.pos \in Nat /\ call.want \in Nat /\ Len(os.data) \in Nat /\ os.data \in Seq(Nat)
    BY <1>1, FileTypes DEF Bytes
  <2>. QED BY <2>1
<1>3. x \in Int /\ (x = l \/ (l < 0 /\ x = 0))
  <2>1. Max({0, l}) = IF l < 0 THEN 0 ELSE l
    <3>. HIDE DEF l
    <3>. QED BY <1>2, MovedIs
  <2>. QED BY <1>1, <1>2, <2>1
<1>. HIDE DEF l, x
<1>4. /\ n = IF x < 0 \/ call.want <= x THEN call.want ELSE x
      /\ Max({0, x}) = IF x < 0 THEN 0 ELSE x
  BY <1>2, <1>3, MovedIs
<1>. HIDE DEF n
<1>5. CASE n > Max({0, x})
  <2>1. Crash("wild")
    BY <1>5 DEF ReadMapped, n, x
  <2>2. f.pos > Len(os.data)
    BY <1>2, <1>3, <1>4, <1>5
  <2>. QED BY <1>1, <2>1, <2>2 DEF Crashes, Crash
<1>6. CASE ~(n > Max({0, x}))
  <2>1. /\ n \in Nat /\ n <= call.want
        /\ n = 0 => call.want = 0 \/ f.pos >= Len(os.data)
        /\ n # 0 => f.pos + n <= Len(os.data) /\ (n = call.want \/ f.pos + n = Len(os.data))
    BY <1>2, <1>3, <1>4, <1>6
  <2>2. /\ f' = [f EXCEPT !.pos = @ + n] /\ os' = os /\ crash' = crash
        /\ call' = [[call EXCEPT !.got = got] EXCEPT !.op = "idle"]
    BY <1>6 DEF ReadMapped, End, n, x
  <2>3. got \in Seq(Nat) /\ Len(got) = n
    <3>1. CASE n = 0
      <4>1. NothingOf(os.data, f.pos, n)
        BY <1>2, <3>1, NoSlice
      <4>2. got = << >>
        BY <4>1 DEF NothingOf
      <4>. HIDE DEF got
      <4>. QED BY <3>1, <4>2
    <3>2. CASE n # 0
      BY <1>2, <2>1, <3>2, SliceIs
    <3>. QED BY <3>1, <3>2
  <2>. HIDE DEF got
  <2>4. /\ call' \in CallType /\ call'.op = "idle" /\ call'.flushed = call.flushed
        /\ call'.got = got /\ call'.failed = call.failed
    BY <1>1, <2>2, <2>3 DEF CallType, Ops, Bytes
  <2>5. /\ f' \in FType /\ f'.map = f.map /\ f'.pos = f.pos + n /\ f'.tag = f.tag /\ f'.end = f.end
        /\ f'.dirty = f.dirty /\ f'.positioned = f.positioned /\ f'.cbuf = f.cbuf
    <3>1. f.pos + n \in Nat
      BY <1>2, <2>1
    <3>. QED BY <1>1, <2>2, <3>1 DEF FType
  <2>6. MapInv'
    <3>1. call'.op \notin Reads
      BY <2>4 DEF Reads
    <3>. QED BY <1>1, <2>2, <2>4, <2>5, <3>1 DEF MapInv, RecordsInv
  <2>7. Seen' = os.data /\ Seen = os.data
    BY <1>1, <2>2, <2>5 DEF Seen
  <2>8. Len(call.got) = 0
    BY <1>1
  <2>9. CASE n = 0
    <3>1. call'.got = call.got /\ f'.pos = f.pos
      BY <1>1, <1>2, <2>3, <2>4, <2>5, <2>9, EmptySeq
    <3>2. Len(call.got) = call.want \/ f.pos >= Len(Seen)
      BY <2>1, <2>7, <2>8, <2>9
    <3>3. PlainStep
      BY <1>1, <2>2, <2>4, <2>7, <3>1, <3>2, ReturnsNow
    <3>. QED BY <2>6, <3>3 DEF MapStep
  <2>10. CASE n # 0
    <3>1. n \in 1..(call.want - Len(call.got))
      BY <1>2, <2>1, <2>8, <2>10
    <3>2. call'.got = call.got \o SubSeq(Seen, f.pos + 1, f.pos + n)
      <4>1. << >> \o got = got
        BY <2>3, ConcatEmptySeq
      <4>. QED BY <1>1, <2>4, <2>7, <4>1 DEF got
    <3>3. Len(call'.got) = call.want \/ f'.pos = Len(Seen)
      BY <2>1, <2>3, <2>4, <2>5, <2>7, <2>10
    <3>4. PlainStep
      BY <1>1, <2>1, <2>2, <2>4, <2>5, <2>7, <2>10, <3>1, <3>2, <3>3, ReadsMore
    <3>. QED BY <2>6, <3>4 DEF MapStep
  <2>. QED BY <2>9, <2>10
<1>. QED BY <1>5, <1>6

(* A seek begins, or a close, and the file stays.                          *)
LEMMA StartMaps ==
  ASSUME MapInv, Ready, NEW op \in {"seek", "close"}, NEW off \in Nat,
         call' = [op |-> op, want |-> 0, bytes |-> << >>, off |-> off, got |-> << >>,
                  flushed |-> 0, filled |-> FALSE, failed |-> FALSE],
         UNCHANGED <<os, f, crash>>
  PROVE  MapStep
<1>1. /\ call' \in CallType /\ call'.op = op /\ call'.got = << >> /\ call'.flushed = 0
      /\ ~call'.failed
  <2>1. op \in Ops /\ << >> \in Bytes /\ 0 \in Nat
    BY DEF Ops, Bytes
  <2>. QED BY <2>1 DEF CallType
<1>2. os' = os /\ f' = f /\ crash' = crash /\ call.op = "idle"
  BY DEF Ready
<1>3. MapInv'
  BY <1>1, <1>2 DEF MapInv, RecordsInv, OsType, FType, Reads
<1>4. PlainStep
  BY <1>1, <1>2, Begins DEF Seen
<1>. QED BY <1>3, <1>4 DEF MapStep

(* A seek begins, or the assertions fail.                                  *)
LEMMA StartSeekMaps ==
  ASSUME MapInv, NEW off \in Nat, StartSeek(off)
  PROVE  MapStep \/ Crashes
<1>1. Ready /\ os.mode = "r" /\ os.mappable
  BY DEF StartSeek, MapInv
<1>2. CASE Sane(f)
  <2>1. call' = [op |-> "seek", want |-> 0, bytes |-> << >>, off |-> off, got |-> << >>,
                 flushed |-> 0, filled |-> FALSE, failed |-> FALSE]
    BY <1>2 DEF StartSeek, Begin, NoCall
  <2>. QED BY <1>1, <1>2, <2>1, StartMaps DEF StartSeek, Begin
<1>3. CASE ~Sane(f)
  BY <1>1, <1>3, MapSane DEF StartSeek, Crash, Crashes, Ready
<1>. QED BY <1>2, <1>3

(* A close begins.                                                         *)
LEMMA StartCloseMaps ==
  ASSUME MapInv, StartFlush("close")
  PROVE  MapStep
<1>1. /\ call' = [op |-> "close", want |-> 0, bytes |-> << >>, off |-> 0, got |-> << >>,
                  flushed |-> 0, filled |-> FALSE, failed |-> FALSE]
      /\ 0 \in Nat
  BY DEF StartFlush, Begin, NoCall
<1>. QED BY <1>1, StartMaps DEF StartFlush, Begin

(* The close of a file that is not written.                                *)
LEMMA FlushCleanMaps ==
  ASSUME MapInv, FlushClean
  PROVE  MapStep
<1>1. /\ RecordsInv /\ os \in OsType /\ f \in FType /\ call \in CallType /\ crash = "none"
      /\ call.op = "close" /\ ~f.dirty /\ crash' = crash
      /\ call' = [call EXCEPT !.op = "closed"] /\ f.pos \in Nat
  BY FileTypes DEF MapInv, RecordsInv, FlushClean, Reads
<1>2. /\ call' \in CallType /\ call'.op = "closed" /\ call'.flushed = call.flushed
      /\ call'.got = call.got /\ call'.failed = call.failed
  BY <1>1 DEF CallType, Ops, Common
<1>3. /\ os' \in OsType /\ os'.data = os.data /\ os'.mode = os.mode /\ os'.mappable = os.mappable
      /\ f' \in FType /\ f'.pos = f.pos /\ f'.map = f.map /\ f'.dirty = f.dirty
      /\ f'.positioned = f.positioned /\ f'.cbuf = << >>
      /\ f'.map = "none" => f'.tag = f'.pos /\ f'.end = f'.pos
  <2>1. CASE os.seekable /\ ~f.positioned
    <3>1. os' = [os EXCEPT !.kpos = f.pos] /\ f' = Emptied(f, f.pos)
      BY <2>1 DEF FlushClean
    <3>2. << >> \in Bytes
      BY DEF Bytes
    <3>. QED BY <1>1, <3>1, <3>2 DEF Emptied, OsType, FType
  <2>2. CASE ~(os.seekable /\ ~f.positioned)
    <3>1. os' = os /\ f' = f
      BY <2>2 DEF FlushClean
    <3>. QED BY <1>1, <3>1 DEF MapInv
  <2>. QED BY <2>1, <2>2
<1>4. MapInv'
  BY <1>1, <1>2, <1>3 DEF MapInv, RecordsInv, Reads
<1>5. Seen = os.data /\ Seen' = Seen
  BY <1>1, <1>3, CleanSeen
<1>6. PlainStep
  BY <1>1, <1>2, <1>3, <1>5, ReturnsNow
<1>. QED BY <1>4, <1>6 DEF MapStep

(* A seek of such a file moves its position, and maps it unless it stays   *)
(* where it was.                                                           *)
LEMMA SeekMaps ==
  ASSUME MapInv, SeekInCache \/ SeekInKernel
  PROVE  MapStep
<1>1. /\ RecordsInv /\ os \in OsType /\ f \in FType /\ call \in CallType /\ crash = "none"
      /\ call.op = "seek" /\ crash' = crash /\ call.off \in Nat /\ ~f.dirty
      /\ call' = [call EXCEPT !.op = "idle"] /\ os.mode = "r"
  BY FileTypes DEF MapInv, RecordsInv, SeekInCache, SeekInKernel, Seeking, End
<1>2. /\ call' \in CallType /\ call'.op = "idle" /\ call'.flushed = call.flushed
      /\ call'.got = call.got /\ call'.failed = call.failed
  BY <1>1 DEF CallType, Ops, Common
<1>3. /\ os' \in OsType /\ os'.data = os.data /\ os'.mode = os.mode /\ os'.mappable = os.mappable
      /\ f' \in FType /\ f'.pos = call.off /\ f'.map = "mapped" /\ ~f'.dirty
      /\ ~f'.positioned /\ f'.cbuf = << >> /\ f'.tag = 0 /\ f'.end = Len(os.data)
  <2>1. CASE SeekInCache
    <3>1. os' = os /\ f' = [f EXCEPT !.pos = call.off] /\ f.tag <= call.off /\ call.off < f.end
      BY <2>1 DEF SeekInCache, InCache
    <3>2. f.map = "mapped"
      <4>1. f.tag \in Nat /\ f.end \in Nat /\ f.map \in {"none", "mapped"}
        BY FileTypes DEF MapInv
      <4>2. ~(f.map = "none")
        BY <1>1, <3>1, <4>1 DEF MapInv
      <4>. QED BY <4>1, <4>2
    <3>. QED BY <1>1, <3>1, <3>2 DEF MapInv, FType
  <2>2. CASE SeekInKernel
    <3>1. os' = [os EXCEPT !.kpos = call.off] /\ f' = [Mapped(f) EXCEPT !.pos = call.off]
      BY <1>1, <2>2, MappedIs DEF SeekInKernel, Sought
    <3>2. os' \in OsType /\ os'.data = os.data /\ os'.mode = os.mode /\ os'.mappable = os.mappable
      BY <1>1, <3>1 DEF OsType
    <3>. DEFINE g == Mapped(f)
    <3>3. /\ g \in FType /\ g.map = "mapped" /\ ~g.dirty /\ ~g.positioned /\ g.cbuf = << >>
          /\ g.tag = 0 /\ g.end = Len(os.data) /\ f' = [g EXCEPT !.pos = call.off]
      BY <1>1, <3>1, MappedIs
    <3>. HIDE DEF g
    <3>. QED BY <1>1, <3>2, <3>3 DEF FType
  <2>. QED BY <2>1, <2>2
<1>4. MapInv'
  BY <1>1, <1>2, <1>3 DEF MapInv, RecordsInv, Reads
<1>5. Seen' = Seen
  BY <1>1, <1>3 DEF Seen
<1>6. PlainStep
  BY <1>1, <1>2, <1>3, <1>5, Seeks
<1>. QED BY <1>4, <1>6 DEF MapStep

(* A seek that fails.                                                      *)
LEMMA SeekFailsMaps ==
  ASSUME MapInv, SeekFails
  PROVE  MapStep
<1>1. /\ RecordsInv /\ call \in CallType /\ crash' = crash /\ call.op = "seek" /\ ~call.failed
      /\ os' = os /\ f' = f /\ call' = [[call EXCEPT !.failed = TRUE] EXCEPT !.op = "idle"]
  BY DEF MapInv, RecordsInv, SeekFails, Seeking, End
<1>2. /\ call' \in CallType /\ call'.op = "idle" /\ call'.flushed = call.flushed
      /\ call'.got = call.got /\ call'.failed
  BY <1>1 DEF CallType, Ops, Common
<1>3. MapInv'
  BY <1>1, <1>2 DEF MapInv, RecordsInv, OsType, FType, Reads
<1>4. PlainStep
  BY <1>1, <1>2, Refuses DEF Seen
<1>. QED BY <1>3, <1>4 DEF MapStep

(* Whatever happens to such a file.                                        *)
LEMMA NextMaps ==
  ASSUME MapInv, [Next]_vars
  PROVE  MapStep \/ Crashes
<1>1. /\ os.mode = "r" /\ os.mappable /\ f.map # "failed" /\ ~f.dirty
      /\ call.op \in {"idle", "closed", "close", "seek", "read", "readc"}
  BY DEF MapInv, Reads
<1>2. CASE Call
  <2>1. Wants \subseteq Nat /\ Offsets \subseteq Nat
    BY BufferedFileAssumption
  <2>2. \A op, b : ~StartWrite(op, b)
    BY <1>1 DEF StartWrite
  <2>3. \A op, n, b, off : ~StartPositioned(op, n, b, off)
    BY <1>1 DEF StartPositioned
  <2>4. CASE StartRead("readc", 1)
    BY <2>4, StartReadMaps DEF Reads
  <2>5. CASE \E n \in Wants : StartRead("read", n)
    BY <2>1, <2>5, StartReadMaps DEF Reads
  <2>6. CASE StartFlush("close")
    BY <2>6, StartCloseMaps
  <2>7. CASE \E off \in Offsets : StartSeek(off)
    BY <2>1, <2>7, StartSeekMaps
  <2>. QED BY <1>1, <1>2, <2>2, <2>3, <2>4, <2>5, <2>6, <2>7 DEF Call
<1>3. CASE Step
  <2>1. ~CopyCached /\ ~Fill /\ ~ReadReturns
    BY <1>1 DEF CopyCached, Fill, Filling, ReadReturns, ReadsCache
  <2>2. ~CopyIn /\ ~WriteReturns
    BY <1>1 DEF CopyIn, WriteReturns, Writes
  <2>3. ~FlushWrites /\ ~FlushEnds
    BY <1>1 DEF FlushWrites, FlushEnds, Flushing
  <2>4. ~Pfill /\ ~CopyPositioned
    BY <1>1 DEF Pfill, CopyPositioned, Missed, Positioned
  <2>. QED BY <1>3, <2>1, <2>2, <2>3, <2>4, ReadMappedMaps, FlushCleanMaps, SeekMaps, SeekFailsMaps
           DEF Step
<1>4. ~Fault
  BY <1>1 DEF Fault, FillAgain, FlushFails, PfillFails, Filling, ReadsCache, Flushing, Missed,
              Positioned
<1>5. CASE UNCHANGED vars
  <2>1. os' = os /\ f' = f /\ call' = call /\ crash' = crash
    BY <1>5 DEF vars
  <2>2. MapInv'
    BY <2>1 DEF MapInv, RecordsInv, OsType, FType, CallType, Reads
  <2>3. PlainStep
    BY <2>1, Stutters DEF Seen, Asked
  <2>. QED BY <2>2, <2>3 DEF MapStep
<1>. QED BY <1>2, <1>3, <1>4, <1>5 DEF Next

-----------------------------------------------------------------------------
(* The theorems.                                                           *)

(* A file that can be mapped to be read.                                   *)
Mappable == os.mode = "r" /\ os.mappable

(* A call has crashed, and there was a reason.                             *)
Crashed == crash # "none" /\ TypeOK /\ CrashesBeyond

(* The inductive invariant of every file.                                  *)
SoundInv == MapInv \/ (FileInv /\ ~Mappable) \/ Crashed

(* A file stays what it was opened as.                                     *)
LEMMA KindStays ==
  ASSUME os \in OsType, [Next]_vars
  PROVE  os'.mode = os.mode /\ os'.mappable = os.mappable
<1>1. CASE Call
  BY <1>1 DEF Call, StartRead, StartWrite, StartFlush, StartSeek, StartPositioned, Begin, Crash
<1>2. CASE Step
  <2>1. CASE ReadMapped \/ CopyCached \/ ReadReturns \/ CopyIn \/ WriteReturns \/ FlushEnds
    BY <2>1 DEF ReadMapped, CopyCached, ReadReturns, CopyIn, WriteReturns, FlushEnds, Crash
  <2>2. CASE SeekInCache \/ SeekFails \/ Pfill \/ CopyPositioned
    BY <2>2 DEF SeekInCache, SeekFails, Pfill, CopyPositioned, Crash
  <2>3. CASE Fill
    <3>1. PICK n : os' = [os EXCEPT !.kpos = @ + n]
      BY <2>3 DEF Fill, FillGets
    <3>. QED BY <3>1 DEF OsType
  <2>4. CASE FlushWrites
    <3>1. PICK d, k : os' = [os EXCEPT !.data = d] \/ os' = [os EXCEPT !.data = d, !.kpos = k]
      BY <2>4 DEF FlushWrites
    <3>. QED BY <3>1 DEF OsType
  <2>5. CASE FlushClean \/ SeekInKernel
    <3>1. PICK k : os' = os \/ os' = [os EXCEPT !.kpos = k]
      BY <2>5 DEF FlushClean, SeekInKernel
    <3>. QED BY <3>1 DEF OsType
  <2>. QED BY <1>2, <2>1, <2>2, <2>3, <2>4, <2>5 DEF Step
<1>3. CASE Fault
  BY <1>3 DEF Fault, FillAgain, FillFails, FlushFails, PfillFails
<1>. QED BY <1>1, <1>2, <1>3 DEF Next, vars

(* After a crash nothing happens.                                          *)
LEMMA CrashedStays ==
  ASSUME crash # "none", [Next]_vars
  PROVE  UNCHANGED vars
<1>1. ~Call
  BY DEF Call, StartRead, StartWrite, StartFlush, StartSeek, StartPositioned, Ready
<1>2. ~Step
  BY DEF Step, ReadMapped, CopyCached, Fill, ReadReturns, CopyIn, WriteReturns, FlushWrites,
         FlushEnds, FlushClean, SeekInCache, SeekInKernel, SeekFails, Pfill, CopyPositioned, Filling,
         ReadsCache, Flushing, Seeking, Missed
<1>3. ~Fault
  BY DEF Fault, FillAgain, FlushFails, PfillFails, Filling, ReadsCache, Flushing, Missed
<1>. QED BY <1>1, <1>2, <1>3 DEF Next

(* Both invariants imply TypeOK.                                           *)
LEMMA SoundTypes == SoundInv => TypeOK
<1>1. ASSUME FileInv
      PROVE  TypeOK
  <2>1. RecordsInv /\ ReadInv /\ WriteInv /\ PositionedInv /\ CacheInv /\ FlushInv /\ f \in FType
    BY <1>1, Parts
  <2>2. f.map = "mapped" => os.mappable
    BY <2>1, FileTypes DEF ReadInv, WriteInv, PositionedInv
  <2>3. f.map # "mapped" => Len(f.cbuf) = f.end - f.tag /\ Len(f.cbuf) <= CbufSize
    BY <2>1, FileTypes DEF CacheInv
  <2>4. call.flushed \in 0..Len(f.cbuf)
    BY <2>1, FileTypes DEF FlushInv
  <2>. QED BY <2>1, <2>2, <2>3, <2>4, FileTypes DEF TypeOK, FType
<1>2. ASSUME MapInv
      PROVE  TypeOK
  <2>1. RecordsInv /\ f \in FType /\ os.mappable /\ call.flushed = 0 /\ Len(f.cbuf) = 0
    BY <1>2 DEF MapInv, RecordsInv
  <2>2. f.map # "mapped" => f.end - f.tag = 0
    <3>1. f.map # "mapped" => f.map = "none" /\ f.pos \in Nat
      BY <1>2, <2>1, FileTypes DEF MapInv
    <3>. QED BY <1>2, <3>1 DEF MapInv
  <2>. QED BY <2>1, <2>2, FileTypes DEF TypeOK, FType
<1>. QED BY <1>1, <1>2 DEF SoundInv, Crashed

(* A call that crashes leaves the file as it was, for a reason.            *)
LEMMA CrashesRightly ==
  ASSUME TypeOK, Crashes
  PROVE  Crashed' /\ (KernelInStep => KernelInStep') /\ PlainStep
<1>1. os' = os /\ f' = f /\ call' = call /\ crash' # "none"
  BY DEF Crashes
<1>2. TypeOK'
  BY <1>1 DEF TypeOK
<1>3. CrashesBeyond'
  BY <1>1 DEF CrashesBeyond, Crashes
<1>4. KernelInStep => KernelInStep'
  BY <1>1 DEF KernelInStep
<1>5. PlainStep
  BY <1>1, Stutters DEF Seen, Asked
<1>. QED BY <1>1, <1>2, <1>3, <1>4, <1>5 DEF Crashed

(* The program's calls, and everything else, keep the invariant.           *)
LEMMA NextSound ==
  ASSUME SoundInv, [Next]_vars
  PROVE  SoundInv' /\ (KernelInStep /\ ~Retries => KernelInStep')
<1>1. CASE MapInv
  <2>1. CASE MapStep
    <3>1. MapInv'
      BY <2>1 DEF MapStep
    <3>2. KernelInStep'
      <4>1. /\ os'.mode = "r" /\ call'.op # "closed" /\ f'.map # "mapped" => f'.map = "none"
        BY <3>1, FileTypes DEF MapInv, RecordsInv, FType
      <4>. QED BY <3>1, <4>1 DEF MapInv, KernelInStep
    <3>. QED BY <3>1, <3>2 DEF SoundInv
  <2>2. CASE Crashes
    BY <2>2, SoundTypes, CrashesRightly DEF SoundInv
  <2>. QED BY <1>1, <2>1, <2>2, NextMaps
<1>2. CASE FileInv /\ ~Mappable
  <2>1. (FileInv' /\ (KernelInStep /\ ~Retries => KernelInStep')) \/ Crashes
    BY <1>2, CallKeeps, StepKeeps, FaultKeeps, StutterKeeps DEF Next, Mappable
  <2>2. ~Mappable'
    BY <1>2, Parts, KindStays DEF Mappable
  <2>. QED BY <2>1, <2>2, SoundTypes, CrashesRightly DEF SoundInv
<1>3. CASE Crashed
  <2>1. os' = os /\ f' = f /\ call' = call /\ crash' = crash
    BY <1>3, CrashedStays DEF Crashed, vars
  <2>. QED BY <1>3, <2>1 DEF SoundInv, Crashed, TypeOK, CrashesBeyond, KernelInStep
<1>. QED BY <1>1, <1>2, <1>3 DEF SoundInv

(* Every file that has just been opened has it.                            *)
LEMMA InitSound == Init => SoundInv
<1>. SUFFICES ASSUME Init PROVE SoundInv
  OBVIOUS
<1>1. PICK k \in Kinds : Opened(k)
  BY DEF Init
<1>2. os.mode = k.mode /\ os.mappable = k.mappable
  BY <1>1 DEF Opened
<1>3. CASE k.mode = "r" /\ k.mappable
  BY <1>1, <1>3, InitMapped DEF SoundInv
<1>4. CASE ~(k.mode = "r" /\ k.mappable)
  BY <1>1, <1>2, <1>4, InitFile DEF SoundInv, Mappable
<1>. QED BY <1>3, <1>4

(* The invariant holds in every behaviour, for every file, buffer size,    *)
(* program, and fault of the system (io61.cc:106-502).                     *)
THEOREM FileSound == Spec => []SoundInv
<1>1. SoundInv /\ [Next]_vars => SoundInv'
  BY NextSound
<1>. QED BY <1>1, InitSound, PTL DEF Spec

(* TypeOK in every behaviour: the cache is never larger than its buffer,   *)
(* holds the bytes between tag and end, and a flush never writes more than *)
(* that (io61.cc:366-402).                                                 *)
THEOREM TypesKept == Spec => []TypeOK
BY SoundTypes, FileSound, PTL

(* CrashesBeyond in every behaviour: whatever calls came before it, and    *)
(* even if the program calls again after a failure, a call stops at        *)
(* io61_check_assertions, or copies from behind a mapping or a window,     *)
(* only if the position of a mapped file, or the offset of a positioned    *)
(* call, lies behind the end of the file (io61.cc:52-57, 205, 451, 475).   *)
THEOREM CrashesOnlyBeyond == Spec => []CrashesBeyond
<1>1. SoundInv => CrashesBeyond
  BY Parts DEF SoundInv, MapInv, RecordsInv, Crashed, CrashesBeyond
<1>. QED BY <1>1, FileSound, PTL

(* KernelInStep in every behaviour of a program that gives up after a      *)
(* refused call: the kernel's position is where io61_fill and              *)
(* io61_flush_dirty expect it.  Without that hypothesis a write that fails *)
(* half way leaves it behind the tag (io61.cc:384-402).                    *)
THEOREM PositionsAgree ==
  ASSUME ~Retries
  PROVE  Spec => []KernelInStep
<1>1. Init => KernelInStep
  <2>. SUFFICES ASSUME Init PROVE KernelInStep
    OBVIOUS
  <2>1. PICK k \in Kinds : Opened(k)
    BY DEF Init
  <2>. DEFINE at == IF k.seekable THEN k.at ELSE 0
  <2>2. k.mode \in {"r", "w", "rw"} /\ at \in Nat
    BY BufferedFileAssumption
  <2>. HIDE DEF at
  <2>3. /\ os.mode = k.mode /\ os.kpos = at /\ f.tag = at /\ f.pos = at /\ f.end = at
        /\ call.flushed = 0
    BY <2>1 DEF Opened, NoCall, at
  <2>. QED BY <2>2, <2>3 DEF KernelInStep
<1>2. SoundInv /\ KernelInStep /\ [Next]_vars => KernelInStep'
  BY NextSound
<1>. QED BY <1>1, <1>2, FileSound, PTL DEF Spec

(* What refines PlainFile: a mapped file, one that is not, or none after a *)
(* crash.                                                                  *)
PlainInv == MapInv \/ (Good /\ ~Mappable) \/ Crashed

(* A file that has just been opened does.                                  *)
LEMMA InitPlainInv == Init /\ KernelInStep => PlainInv
BY InitSound, InitData DEF SoundInv, PlainInv, Good

(* Every step of a program that gives up after a refused call is a step of *)
(* a plain file.                                                           *)
LEMMA NextPlain ==
  ASSUME PlainInv, KernelInStep, ~Retries, [Next]_vars
  PROVE  PlainInv' /\ [Plain!Next]_Plain!vars
<1>1. CASE MapInv
  <2>1. TypeOK
    BY <1>1, SoundTypes DEF SoundInv
  <2>. QED BY <1>1, <2>1, NextMaps, CrashesRightly DEF PlainInv, MapStep, PlainStep
<1>2. CASE Good /\ ~Mappable
  <2>0. FileInv /\ os \in OsType
    BY <1>2, GoodParts
  <2>1. (DataInv' /\ PlainStep) \/ Crashes
    BY <1>2, CallRefines, StepRefines, FaultRefines, StutterRefines DEF Next
  <2>2. (FileInv' /\ KernelInStep') \/ Crashes
    BY <1>2, <2>0, CallKeeps, StepKeeps, FaultKeeps, StutterKeeps DEF Next, Mappable
  <2>3. ~Mappable'
    BY <1>2, <2>0, KindStays DEF Mappable
  <2>4. TypeOK
    BY <1>2, <2>0, SoundTypes DEF SoundInv
  <2>. QED BY <2>1, <2>2, <2>3, <2>4, CrashesRightly DEF PlainInv, Good, PlainStep
<1>3. CASE Crashed
  <2>1. os' = os /\ f' = f /\ call' = call /\ crash' = crash
    BY <1>3, CrashedStays DEF Crashed, vars
  <2>2. Crashed'
    BY <1>3, <2>1 DEF Crashed, TypeOK, CrashesBeyond
  <2>3. PlainStep
    BY <2>1, Stutters DEF Seen, Asked
  <2>. QED BY <2>2, <2>3 DEF PlainInv, PlainStep
<1>. QED BY <1>1, <1>2, <1>3 DEF PlainInv

(* ReadsAndWrites in every behaviour of a program that gives up after a    *)
(* refused call: with its cache, its mapping and its windows, under short, *)
(* interrupted and failing system calls, io61 does what a file without a   *)
(* cache would do, until a call crashes (io61.cc:106-502).                 *)
THEOREM ImplementsPlain ==
  ASSUME ~Retries
  PROVE  Spec => ReadsAndWrites
<1>1. PlainInv /\ KernelInStep /\ [Next]_vars => PlainInv' /\ [Plain!Next]_Plain!vars
  BY NextPlain
<1>. QED BY <1>1, InitPlainInv, InitPlain, PositionsAgree, PTL DEF Spec, ReadsAndWrites, Plain!Spec

-----------------------------------------------------------------------------
(* What a call does, for the program that waits for it.                    *)

(* The file stays what it is, and one that is read keeps its bytes.        *)
SameKind ==
  /\ os'.mode = os.mode /\ os'.seekable = os.seekable /\ os'.mappable = os.mappable
  /\ os.mode = "r" => os'.data = os.data

(* The call stays what it is until it returns.                             *)
GoesOn ==
  /\ call.op \notin {"idle", "closed"}
  /\ call'.want = call.want /\ call'.off = call.off
  /\ call'.op \in {call.op, IF call.op = "close" THEN "closed" ELSE "idle"}

(* It returns the number of bytes read; if it was not refused, that of     *)
(* those written, and 0 for a seek, which then has moved the file, and for *)
(* a flush, after which the cache is clean.                                *)
Returned ==
  call'.op # call.op =>
    /\ call.op \in Reads => IF call'.got = << >> THEN ret' \in {-1, 0} ELSE ret' = Len(call'.got)
    /\ call.op \in Writes /\ ~call'.failed => ret' = call.want
    /\ call.op = "seek" => IF call'.failed THEN ret' # 0
                           ELSE ret' = 0 /\ f'.pos = call.off /\ (os.seekable \/ InCache(call.off))
    /\ call.op \in {"flush", "close"} /\ ~call'.failed => ret' = 0 /\ ~f'.dirty

(* Only a seek of what cannot be sought, and errors that io61 does not     *)
(* repeat, refuse a call.                                                  *)
Refusable ==
  \/ call.op = "seek" /\ ~os.seekable
  \/ os.mode = "r" /\ "other" \in ReadFaults
  \/ os.mode = "w" /\ ~(WriteFaults \subseteq {"intr"})

(* Only writes make a cache dirty; a seek that goes on leaves alone what   *)
(* is read.                                                                *)
LeavesAlone ==
  /\ f'.dirty => f.dirty \/ call.op \in Writes
  /\ os.mode = "r" /\ call.op = "seek" /\ call'.op = "seek" => f' = f

Does ==
  /\ SameKind /\ GoesOn /\ Returned /\ LeavesAlone
  /\ call'.failed # call.failed => Refusable

(* How a call ends.                                                        *)
LEMMA EndIs ==
  ASSUME NEW c \in CallType, NEW r, End(c, r)
  PROVE  /\ call'.op = "idle" /\ ret' = r
         /\ call'.want = c.want /\ call'.off = c.off /\ call'.got = c.got
         /\ call'.failed = c.failed /\ call'.bytes = c.bytes
BY DEF End, CallType

(* What changes when the bytes of a read do.                               *)
LEMMA GotIs ==
  ASSUME NEW c \in CallType, NEW g \in Bytes, NEW d, d = [c EXCEPT !.got = g]
  PROVE  /\ d \in CallType /\ d.op = c.op /\ d.want = c.want /\ d.off = c.off
         /\ d.got = g /\ d.failed = c.failed /\ d.bytes = c.bytes
BY DEF CallType

(* Only the kernel's position moves.                                       *)
LEMMA Unmoved ==
  ASSUME os \in OsType, NEW k, os' = [os EXCEPT !.kpos = k] \/ os' = os
  PROVE  SameKind
BY DEF SameKind, OsType

(* A call in progress, and what kinds of it there are.                     *)
LEMMA InProgress ==
  ASSUME Good, os.mode # "rw", Step \/ Fault
  PROVE  /\ call.op \notin {"idle", "closed"} /\ ~call.failed
         /\ os.mode \in {"r", "w"}
         /\ os.mode = "r" => call.op \in Reads \cup {"seek", "flush", "close"}
         /\ os.mode = "w" => call.op \in Writes \cup {"seek", "flush", "close"}
<1>1. /\ ReadInv /\ WriteInv /\ CallInv /\ os.mode \in {"r", "w"}
  BY GoodParts, FileTypes
<1>2. call.op \notin {"idle", "closed"}
  <2>1. CASE Step
    BY <2>1 DEF Step, ReadMapped, CopyCached, Fill, ReadReturns, CopyIn, WriteReturns, FlushWrites,
       FlushEnds, FlushClean, SeekInCache, SeekInKernel, SeekFails, Pfill, CopyPositioned, Filling,
       ReadsCache, Flushing, Seeking, Missed, Reads, Writes, Positioned
  <2>2. CASE Fault
    BY <2>2 DEF Fault, FillAgain, FlushFails, PfillFails, Filling, ReadsCache, Flushing, Missed,
       Reads, Writes, Positioned
  <2>. QED BY <2>1, <2>2
<1>. QED BY <1>1, <1>2 DEF ReadInv, WriteInv, CallInv, Common

(* Reading from the mapping returns what was copied.                       *)
LEMMA ReadMappedDoes ==
  ASSUME Good, os.mode = "r", ReadMapped
  PROVE  Does
<1>1. /\ call \in CallType /\ f \in FType /\ crash = "none" /\ FileInv /\ RecordsInv
      /\ ReadInv /\ call.op \in Reads /\ call.op \in {"read", "readc"} /\ f.map = "mapped"
  BY GoodParts DEF ReadMapped, Reads
<1>. DEFINE x == IF call.op = "readc" THEN Max({0, f.end - f.pos}) ELSE Len(os.data) - f.pos
            n == Moved(x)
            got == SubSeq(os.data, f.pos + 1, f.pos + n)
<1>2. /\ n \in Nat /\ f.pos + n <= Len(os.data) /\ f.pos \in Nat /\ os.data \in Seq(Nat)
      /\ ~(n > Max({0, x}))
  <2>. DEFINE l == Len(os.data) - f.pos
  <2>1. l \in Nat /\ call.want \in Nat /\ f.pos \in Nat /\ Len(os.data) \in Nat
        /\ f.pos + l = Len(os.data) /\ f.end - f.pos = l
    <3>1. f.end = Len(os.data) /\ f.pos <= Len(os.data)
      BY <1>1 DEF ReadInv, Reads
    <3>. QED BY <1>1, <3>1, FileTypes
  <2>2. x = l
    <3>1. Max({0, l}) = l
      <4>. HIDE DEF l
      <4>. QED BY <2>1, MovedIs
    <3>. QED BY <2>1, <3>1
  <2>. HIDE DEF x, l
  <2>3. (n = IF call.want <= x THEN call.want ELSE x) /\ Max({0, x}) = x
    BY <2>1, <2>2, MovedIs
  <2>. HIDE DEF n
  <2>4. os.data \in Seq(Nat)
    BY <1>1, FileTypes DEF Bytes
  <2>. QED BY <2>1, <2>2, <2>3, <2>4
<1>3. /\ f' = [f EXCEPT !.pos = @ + n] /\ os' = os
      /\ End([call EXCEPT !.got = got], IF call.op = "readc" /\ n = 0 THEN -1 ELSE n)
  BY <1>2 DEF ReadMapped
<1>. HIDE DEF n, x
<1>4. got \in Bytes /\ Len(got) = n
  BY <1>2, SliceIs DEF Bytes
<1>5. got = << >> <=> n = 0
  BY <1>2, <1>4, EmptySeq DEF Bytes
<1>. HIDE DEF got
<1>6. /\ call'.op = "idle" /\ call'.want = call.want /\ call'.off = call.off /\ call'.got = got
      /\ call'.failed = call.failed /\ ret' = IF call.op = "readc" /\ n = 0 THEN -1 ELSE n
  BY <1>1, <1>3, <1>4, GotIs, EndIs
<1>7. f'.dirty = f.dirty
  BY <1>1, <1>3 DEF FType
<1>. QED BY <1>1, <1>2, <1>3, <1>4, <1>5, <1>6, <1>7
         DEF Does, SameKind, GoesOn, Returned, LeavesAlone, Reads, Writes

(* Copying from the cache does not return yet.                             *)
LEMMA CopyCachedDoes ==
  ASSUME Good, os.mode = "r", CopyCached
  PROVE  Does
<1>1. call \in CallType /\ f \in FType /\ call.op \in Reads
  BY GoodParts DEF CopyCached, ReadsCache
<1>2. PICK g, p : call' = [call EXCEPT !.got = g] /\ f' = [f EXCEPT !.pos = p] /\ os' = os
  BY DEF CopyCached
<1>3. /\ call'.op = call.op /\ call'.want = call.want /\ call'.off = call.off
      /\ call'.failed = call.failed /\ f'.dirty = f.dirty
  BY <1>1, <1>2 DEF CallType, FType
<1>. QED BY <1>1, <1>2, <1>3 DEF Does, SameKind, GoesOn, Returned, LeavesAlone, Reads

(* What io61_read_cache returns.                                           *)
LEMMA CacheResultIs ==
  ASSUME NEW c \in CallType, NEW e
  PROVE  IF c.got = << >> THEN CacheResult(c, e) \in {-1, 0} ELSE CacheResult(c, e) = Len(c.got)
<1>1. c.got = << >> => Len(c.got) = 0
  OBVIOUS
<1>. QED BY <1>1 DEF CacheResult

(* A system call that reads, and returns only at the end of the file.      *)
LEMMA FillDoes ==
  ASSUME Good, os.mode = "r", Fill
  PROVE  Does
<1>1. call \in CallType /\ f \in FType /\ os \in OsType /\ call.op \in Reads
  BY GoodParts DEF Fill, Filling, ReadsCache
<1>2. PICK n : FillGets(n)
  BY DEF Fill
<1>3. os' = [os EXCEPT !.kpos = @ + n] /\ f'.dirty = f.dirty
  BY <1>1, <1>2 DEF FillGets, Filled, Emptied, FType
<1>4. SameKind
  BY <1>1, <1>3, Unmoved
<1>5. CASE AtEnd(n)
  <2>1. End(call, CacheResult(call, errno))
    BY <1>2, <1>5 DEF FillGets
  <2>2. /\ call'.op = "idle" /\ call'.want = call.want /\ call'.off = call.off
        /\ call'.got = call.got /\ call'.failed = call.failed /\ ret' = CacheResult(call, errno)
    BY <1>1, <2>1, EndIs
  <2>. QED BY <1>1, <1>3, <1>4, <2>2, CacheResultIs
           DEF Does, GoesOn, Returned, LeavesAlone, Reads, Writes
<1>6. CASE ~AtEnd(n)
  <2>1. call' = call
    BY <1>2, <1>6 DEF FillGets
  <2>. QED BY <1>1, <1>3, <1>4, <2>1 DEF Does, GoesOn, Returned, LeavesAlone, Reads
<1>. QED BY <1>5, <1>6

(* One that is refused is repeated, or the error is no passing one.        *)
LEMMA FillAgainDoes ==
  ASSUME Good, os.mode = "r", FillAgain
  PROVE  Does
<1>1. call \in CallType /\ f \in FType /\ call.op \in Reads
  BY GoodParts DEF FillAgain, Filling, ReadsCache
<1>2. PICK e \in ReadFaults : FillFails(e)
  BY DEF FillAgain
<1>3. os' = os /\ f'.dirty = f.dirty
  BY <1>1, <1>2 DEF FillFails, Emptied, FType
<1>4. SameKind
  BY <1>3 DEF SameKind
<1>5. CASE e = "other"
  <2>. DEFINE d == [call EXCEPT !.failed = TRUE]
  <2>1. d \in CallType /\ d.got = call.got /\ d.want = call.want /\ d.off = call.off
    BY <1>1 DEF CallType
  <2>2. End(d, CacheResult(call, e))
    BY <1>2, <1>5 DEF FillFails
  <2>. HIDE DEF d
  <2>3. /\ call'.op = "idle" /\ call'.want = call.want /\ call'.off = call.off
        /\ call'.got = call.got /\ ret' = CacheResult(call, e)
    BY <2>1, <2>2, EndIs
  <2>4. Refusable
    BY <1>5 DEF Refusable
  <2>. QED BY <1>1, <1>3, <1>4, <2>3, <2>4, CacheResultIs
           DEF Does, GoesOn, Returned, LeavesAlone, Reads, Writes
<1>6. CASE e # "other"
  <2>1. call' = call
    BY <1>2, <1>6 DEF FillFails
  <2>. QED BY <1>1, <1>3, <1>4, <2>1 DEF Does, GoesOn, Returned, LeavesAlone, Reads
<1>. QED BY <1>5, <1>6

(* A read returns with everything.                                         *)
LEMMA ReadReturnsDoes ==
  ASSUME Good, os.mode = "r", ReadReturns
  PROVE  Does
<1>1. /\ call \in CallType /\ call.op \in Reads /\ os' = os /\ f' = f
      /\ End(call, Len(call.got))
  BY GoodParts DEF ReadReturns, ReadsCache
<1>2. /\ call'.op = "idle" /\ call'.want = call.want /\ call'.off = call.off
      /\ call'.got = call.got /\ call'.failed = call.failed /\ ret' = Len(call.got)
  BY <1>1, EndIs
<1>. QED BY <1>1, <1>2 DEF Does, SameKind, GoesOn, Returned, LeavesAlone, Reads, Writes

(* Copying to the cache does not return yet.                               *)
LEMMA CopyInDoes ==
  ASSUME Good, os.mode = "w", CopyIn
  PROVE  Does
<1>1. call \in CallType /\ call.op \in Writes
  BY GoodParts DEF CopyIn
<1>2. PICK b : call' = [call EXCEPT !.bytes = b] /\ os' = os
  BY DEF CopyIn
<1>3. /\ call'.op = call.op /\ call'.want = call.want /\ call'.off = call.off
      /\ call'.failed = call.failed
  BY <1>1, <1>2 DEF CallType
<1>. QED BY <1>1, <1>2, <1>3 DEF Does, SameKind, GoesOn, Returned, LeavesAlone, Writes

(* A write returns.                                                        *)
LEMMA WriteReturnsDoes ==
  ASSUME Good, os.mode = "w", WriteReturns
  PROVE  Does
<1>1. /\ call \in CallType /\ call.op \in Writes /\ os' = os /\ f' = f /\ End(call, call.want)
  BY GoodParts DEF WriteReturns
<1>2. /\ call'.op = "idle" /\ call'.want = call.want /\ call'.off = call.off
      /\ call'.failed = call.failed /\ ret' = call.want
  BY <1>1, EndIs
<1>. QED BY <1>1, <1>2 DEF Does, SameKind, GoesOn, Returned, LeavesAlone, Reads, Writes

(* A system call that writes.                                              *)
LEMMA FlushWritesDoes ==
  ASSUME Good, os.mode = "w", FlushWrites
  PROVE  Does
<1>1. call \in CallType /\ os \in OsType
  BY GoodParts
<1>2. PICK n : /\ call' = [call EXCEPT !.flushed = @ + n] /\ f' = f
               /\ \E d, k : os' = [os EXCEPT !.data = d] \/ os' = [os EXCEPT !.data = d, !.kpos = k]
  BY DEF FlushWrites
<1>3. /\ call'.op = call.op /\ call'.want = call.want /\ call'.off = call.off
      /\ call'.failed = call.failed
  BY <1>1, <1>2 DEF CallType
<1>4. SameKind
  BY <1>1, <1>2 DEF SameKind, OsType
<1>5. call.op \notin {"idle", "closed"}
  BY InProgress DEF Step
<1>. QED BY <1>2, <1>3, <1>4, <1>5 DEF Does, GoesOn, Returned, LeavesAlone

(* One that is refused is repeated, or the error is no passing one.        *)
LEMMA FlushFailsDoes ==
  ASSUME Good, os.mode = "w", NEW e \in WriteFaults, FlushFails(e)
  PROVE  Does
<1>1. call \in CallType /\ os' = os /\ f' = f
  BY GoodParts DEF FlushFails
<1>2. call.op \in Writes \cup {"seek", "flush", "close"}
  BY InProgress DEF Fault
<1>3. CASE e = "intr"
  <2>1. call' = call
    BY <1>3 DEF FlushFails
  <2>. QED BY <1>1, <1>2, <2>1 DEF Does, SameKind, GoesOn, Returned, LeavesAlone, Writes
<1>4. CASE e # "intr"
  <2>1. /\ call' = [call EXCEPT !.failed = TRUE, !.flushed = 0,
                      !.op = IF @ = "close" THEN "closed" ELSE "idle"]
        /\ call.op = "seek" => ret' = -1
    BY <1>4 DEF FlushFails
  <2>2. /\ call'.op = IF call.op = "close" THEN "closed" ELSE "idle"
        /\ call'.want = call.want /\ call'.off = call.off /\ call'.failed
    BY <1>1, <2>1 DEF CallType
  <2>3. Refusable
    BY <1>4 DEF Refusable
  <2>. QED BY <1>1, <1>2, <2>1, <2>2, <2>3
           DEF Does, SameKind, GoesOn, Returned, LeavesAlone, Reads, Writes
<1>. QED BY <1>3, <1>4

(* The flush is over, and the call with it or not.                         *)
LEMMA FlushEndsDoes ==
  ASSUME Good, os.mode = "w", FlushEnds
  PROVE  Does
<1>1. call \in CallType /\ f \in FType /\ os' = os /\ ret' = 0
  BY GoodParts DEF FlushEnds
<1>2. call.op \in Writes \cup {"seek", "flush", "close"} /\ ~call.failed
  BY InProgress DEF Step
<1>3. ~f'.dirty
  BY <1>1 DEF FlushEnds, Emptied, FType
<1>4. /\ call'.op = CASE call.op = "flush" -> "idle" [] call.op = "close" -> "closed"
                      [] OTHER -> call.op
      /\ call'.want = call.want /\ call'.off = call.off /\ call'.failed = call.failed
  BY <1>1 DEF FlushEnds, CallType
<1>. QED BY <1>1, <1>2, <1>3, <1>4
         DEF Does, SameKind, GoesOn, Returned, LeavesAlone, Reads, Writes

(* The flush of a clean cache returns.                                     *)
LEMMA FlushCleanDoes ==
  ASSUME Good, os.mode \in {"r", "w"}, FlushClean
  PROVE  Does
<1>1. /\ call \in CallType /\ f \in FType /\ os \in OsType /\ ret' = 0 /\ ~f.dirty
      /\ call.op \in {"flush", "close"}
  BY GoodParts DEF FlushClean
<1>2. SameKind
  BY <1>1, Unmoved DEF FlushClean
<1>3. ~f'.dirty
  BY <1>1 DEF FlushClean, Emptied, FType
<1>4. /\ call'.op = IF call.op = "close" THEN "closed" ELSE "idle"
      /\ call'.want = call.want /\ call'.off = call.off /\ call'.failed = call.failed
  BY <1>1 DEF FlushClean, CallType
<1>. QED BY <1>1, <1>2, <1>3, <1>4 DEF Does, GoesOn, Returned, LeavesAlone, Reads, Writes

(* A seek returns at its offset.                                           *)
LEMMA SeekDoes ==
  ASSUME Good, os.mode \in {"r", "w"}, SeekInCache \/ SeekInKernel
  PROVE  Does
<1>1. /\ call \in CallType /\ f \in FType /\ os \in OsType /\ call.op = "seek" /\ ~call.failed
      /\ End(call, 0)
  BY GoodParts, InProgress DEF SeekInCache, SeekInKernel, Seeking, Step
<1>2. /\ call'.op = "idle" /\ call'.want = call.want /\ call'.off = call.off
      /\ call'.failed = call.failed /\ ret' = 0
  BY <1>1, EndIs
<1>3. SameKind
  BY <1>1, Unmoved DEF SeekInCache, SeekInKernel
<1>4. f'.pos = call.off /\ f'.dirty = f.dirty /\ (os.seekable \/ InCache(call.off))
  BY <1>1 DEF SeekInCache, SeekInKernel, Sought, Mapped, Emptied, FType
<1>. QED BY <1>1, <1>2, <1>3, <1>4 DEF Does, GoesOn, Returned, LeavesAlone, Reads, Writes

(* Or it is refused.                                                       *)
LEMMA SeekFailsDoes ==
  ASSUME Good, os.mode \in {"r", "w"}, SeekFails
  PROVE  Does
<1>. DEFINE d == [call EXCEPT !.failed = TRUE]
<1>1. /\ call \in CallType /\ call.op = "seek" /\ ~os.seekable /\ os' = os /\ f' = f
      /\ End(d, -1)
  BY GoodParts DEF SeekFails, Seeking
<1>2. d \in CallType /\ d.failed /\ d.want = call.want /\ d.off = call.off
  BY <1>1 DEF CallType
<1>. HIDE DEF d
<1>3. call'.op = "idle" /\ call'.want = call.want /\ call'.off = call.off /\ call'.failed /\ ret' = -1
  BY <1>1, <1>2, EndIs
<1>4. Refusable
  BY <1>1 DEF Refusable
<1>5. Returned
  BY <1>1, <1>3 DEF Returned, Reads, Writes
<1>. QED BY <1>1, <1>3, <1>4, <1>5 DEF Does, SameKind, GoesOn, LeavesAlone

(* Whatever step it is.                                                    *)
LEMMA StepDoes ==
  ASSUME Good, os.mode # "rw", Step \/ Fault
  PROVE  Does
<1>1. /\ os.mode \in {"r", "w"}
      /\ os.mode = "r" => call.op \in Reads \cup {"seek", "flush", "close"} /\ ~f.dirty
      /\ os.mode = "w" => call.op \in Writes \cup {"seek", "flush", "close"} /\ f.map = "none"
  BY GoodParts, InProgress DEF ReadInv, WriteInv
<1>2. ~Pfill /\ ~CopyPositioned /\ \A e : ~PfillFails(e)
  BY <1>1 DEF Pfill, CopyPositioned, PfillFails, Missed, Positioned, Reads, Writes
<1>3. CASE os.mode = "r"
  <2>1. ~CopyIn /\ ~WriteReturns /\ ~FlushWrites /\ ~FlushEnds /\ \A e : ~FlushFails(e)
    BY <1>1, <1>3 DEF CopyIn, WriteReturns, FlushWrites, FlushEnds, FlushFails, Flushing, Reads,
                      Writes
  <2>. QED BY <1>1, <1>2, <1>3, <2>1, ReadMappedDoes, CopyCachedDoes, FillDoes, FillAgainDoes,
              ReadReturnsDoes, FlushCleanDoes, SeekDoes, SeekFailsDoes DEF Step, Fault
<1>4. CASE os.mode = "w"
  <2>1. ~ReadMapped /\ ~CopyCached /\ ~Fill /\ ~ReadReturns /\ ~FillAgain
    BY <1>1, <1>4 DEF ReadMapped, CopyCached, Fill, ReadReturns, FillAgain, Filling, ReadsCache
  <2>. QED BY <1>1, <1>2, <1>4, <2>1, CopyInDoes, WriteReturnsDoes, FlushWritesDoes, FlushFailsDoes,
              FlushEndsDoes, FlushCleanDoes, SeekDoes, SeekFailsDoes DEF Step, Fault
<1>. QED BY <1>1, <1>3, <1>4

(* Any step of a call in progress keeps the invariant, and is what a file  *)
(* without a cache does.                                                   *)
LEMMA StepGood ==
  ASSUME Good, os.mode # "rw", Step \/ Fault
  PROVE  Good' /\ PlainStep
<1>1. os.mode = "r" /\ os.mappable => f.pos \in Nat /\ Len(os.data) \in Nat /\ f.pos <= Len(os.data)
  BY GoodParts, FileTypes, InProgress DEF ReadInv
<1>2. ~Crashes
  BY <1>1 DEF Crashes
<1>. QED BY <1>2, StepKeeps, FaultKeeps, StepRefines, FaultRefines DEF Good

(* One sequence and then another.                                          *)
LEMMA JoinIs ==
  ASSUME NEW s \in Seq(Nat), NEW t \in Seq(Nat)
  PROVE  /\ s \o t \in Seq(Nat) /\ Len(s \o t) = Len(s) + Len(t)
         /\ \A i \in 1..Len(s) : (s \o t)[i] = s[i]
         /\ \A k \in 1..Len(t) : (s \o t)[Len(s) + k] = t[k]
OBVIOUS

(* A read, from offset a on, has got the bytes that are there, and returns *)
(* with fewer than it was asked for only at the end of the file.           *)
LEMMA ReadGets ==
  ASSUME Good, os.mode = "r", Step \/ Fault, call.op \in Reads, ~call'.failed,
         NEW a \in Nat, f.pos = a + Len(call.got), Shows(os.data, a, call.got)
  PROVE  /\ f'.pos = a + Len(call'.got) /\ Shows(os'.data, a, call'.got)
         /\ Len(call.got) <= call.want => Len(call'.got) <= call.want
         /\ call'.op # call.op => Len(call'.got) = call.want \/ f'.pos >= Len(os.data)
<1>1. /\ PlainStep /\ Does /\ ReadInv /\ RecordsInv /\ FileInv
      /\ call.op # "idle" /\ call.op # "closed" /\ ~call.failed
  BY StepGood, StepDoes, InProgress, GoodParts DEF Reads
<1>2. os'.data = os.data /\ Seen = os.data /\ ~f.dirty
  BY <1>1 DEF Does, SameKind, Seen, ReadInv
<1>3. /\ os.data \in Seq(Nat) /\ call.got \in Seq(Nat) /\ f.pos \in Nat /\ Len(os.data) \in Nat
      /\ Len(call.got) \in Nat /\ call.want \in Nat
  BY <1>1, FileTypes DEF Bytes
<1>4. CASE Plain!Read
  <2>1. PICK n \in 1..(call.want - Len(call.got)) :
          /\ f.pos + n <= Len(os.data) /\ f'.pos = f.pos + n
          /\ call'.got = call.got \o SubSeq(os.data, f.pos + 1, f.pos + n)
          /\ call'.op = "idle" => Len(call'.got) = call.want \/ f'.pos = Len(os.data)
    BY <1>2, <1>4 DEF Plain!Read, Seen
  <2>. DEFINE g == SubSeq(os.data, f.pos + 1, f.pos + n)
  <2>0. n \in Nat /\ n <= call.want
    BY <1>3, <2>1
  <2>2. g \in Seq(Nat) /\ Len(g) = n /\ \A k \in 1..n : g[k] = os.data[f.pos + k]
    <3>1. n \in Nat /\ f.pos \in Nat /\ f.pos + n <= Len(os.data) /\ os.data \in Seq(Nat)
      BY <1>3, <2>0, <2>1
    <3>. QED BY <3>1, SliceIs
  <2>3. call'.got = call.got \o g
    BY <2>1
  <2>. HIDE DEF g
  <2>4. /\ Len(call'.got) = Len(call.got) + n
        /\ \A i \in 1..Len(call.got) : call'.got[i] = call.got[i]
        /\ \A k \in 1..n : call'.got[Len(call.got) + k] = g[k]
    <3>1. call.got \in Seq(Nat) /\ g \in Seq(Nat) /\ Len(g) = n
      BY <1>3, <2>2
    <3>2. /\ Len(call.got \o g) = Len(call.got) + Len(g)
          /\ \A i \in 1..Len(call.got) : (call.got \o g)[i] = call.got[i]
          /\ \A k \in 1..Len(g) : (call.got \o g)[Len(call.got) + k] = g[k]
      BY <3>1, JoinIs
    <3>. QED BY <2>3, <3>1, <3>2
  <2>5. f'.pos = a + Len(call'.got)
    BY <1>3, <2>0, <2>1, <2>4
  <2>7. Shows(os'.data, a, call'.got)
    <3>. SUFFICES ASSUME NEW i \in 1..Len(call'.got)
                  PROVE  a + i <= Len(os.data) /\ call'.got[i] = os.data[a + i]
      BY <1>2 DEF Shows
    <3>1. CASE i <= Len(call.got)
      <4>1. i \in 1..Len(call.got)
        BY <1>3, <3>1
      <4>. QED BY <2>4, <4>1 DEF Shows
    <3>2. CASE i > Len(call.got)
      <4>0. i \in Int /\ i <= Len(call.got) + n /\ Len(call.got) \in Int /\ n \in Int
        BY <1>3, <2>0, <2>4
      <4>1. PICK k \in 1..n : i = Len(call.got) + k
        <5>1. i - Len(call.got) \in 1..n /\ i = Len(call.got) + (i - Len(call.got))
          BY <3>2, <4>0
        <5>. QED BY <5>1
      <4>4. f.pos + k = a + i
        BY <4>0, <4>1
      <4>2. call'.got[i] = os.data[f.pos + k]
        BY <2>2, <2>4, <4>1
      <4>3. f.pos + k <= Len(os.data)
        <5>. DEFINE l == Len(os.data)
        <5>1. l \in Nat /\ f.pos \in Nat /\ n \in Nat /\ f.pos + n <= l /\ k \in 1..n
          BY <1>3, <2>0, <2>1
        <5>. HIDE DEF l
        <5>2. f.pos + k <= l
          BY <5>1
        <5>. QED BY <5>2 DEF l
      <4>. QED BY <4>2, <4>3, <4>4
    <3>. QED BY <1>3, <2>4, <3>1, <3>2
  <2>6. call'.op # call.op => call'.op = "idle"
    BY <1>1 DEF Does, GoesOn, Reads
  <2>8. Len(call'.got) <= call.want
    BY <1>3, <2>0, <2>1, <2>4
  <2>. QED BY <1>3, <2>1, <2>5, <2>6, <2>7, <2>8
<1>5. CASE f'.pos = f.pos /\ call'.got = call.got
           /\ (call'.op = call.op \/ Len(call.got) = call.want \/ f.pos >= Len(Seen))
  BY <1>2, <1>3, <1>5
<1>. QED BY <1>1, <1>4, <1>5
         DEF PlainStep, Plain!Next, Plain!Begin, Plain!Write, Plain!Pread, Plain!Pwrite, Plain!Seek,
             Plain!Store, Plain!Refuse, Plain!Return, Plain!vars, Reads, Seen

(* What the program sees is a sequence of bytes.                           *)
LEMMA SeenIs ==
  ASSUME Good
  PROVE  Seen \in Seq(Nat)
<1>1. os.data \in Seq(Nat) /\ f.cbuf \in Seq(Nat) /\ f.tag \in Nat
  BY GoodParts, FileTypes DEF Bytes
<1>2. Overwritten(os.data, f.tag, f.cbuf) \in Seq(Nat)
  BY <1>1, OverwrittenIs
<1>. QED BY <1>1, <1>2 DEF Seen

(* A write puts more and more of its bytes where the position is, and      *)
(* returns when there are none left.                                       *)
LEMMA WritePuts ==
  ASSUME Good, os.mode = "w", Step \/ Fault, call.op \in Writes, ~call'.failed
  PROVE  /\ \/ f'.pos = f.pos /\ call'.bytes = call.bytes /\ Seen' = Seen
            \/ \E n \in 1..Len(call.bytes) :
                 /\ f'.pos = f.pos + n
                 /\ call'.bytes = SubSeq(call.bytes, n + 1, Len(call.bytes))
                 /\ Seen' = Overwritten(Seen, f.pos, SubSeq(call.bytes, 1, n))
         /\ call'.op # call.op => call'.bytes = << >>
<1>1. /\ PlainStep /\ Does /\ RecordsInv /\ FileInv /\ call.op # "idle" /\ call.op # "closed"
  BY StepGood, StepDoes, InProgress, GoodParts DEF Writes
<1>2. call.bytes \in Seq(Nat) /\ f.pos \in Nat /\ Seen \in Seq(Nat)
  BY <1>1, FileTypes, SeenIs DEF Bytes
<1>3. call'.op # call.op => call'.op = "idle"
  BY <1>1 DEF Does, GoesOn, Writes
<1>4. CASE Plain!Write
  <2>1. PICK n \in 1..Len(call.bytes) :
          /\ f'.pos = f.pos + n
          /\ Seen' = Plain!Overwritten(Seen, f.pos, SubSeq(call.bytes, 1, n))
          /\ Asked' = [Asked EXCEPT !.bytes = SubSeq(@, n + 1, Len(@))]
    BY <1>4 DEF Plain!Write, Seen, Asked
  <2>2. call'.bytes = SubSeq(call.bytes, n + 1, Len(call.bytes)) /\ call'.op = call.op
    BY <2>1 DEF Asked
  <2>3. SubSeq(call.bytes, 1, n) \in Seq(Nat)
    BY <1>2
  <2>4. Seen' = Overwritten(Seen, f.pos, SubSeq(call.bytes, 1, n))
    BY <1>2, <2>1, <2>3, PlainOverwritten
  <2>. QED BY <2>1, <2>2, <2>4
<1>5. CASE /\ f'.pos = f.pos /\ Seen' = Seen
           /\ Asked' = Asked
  <2>1. call'.bytes = call.bytes /\ call'.op = call.op
    BY <1>5 DEF Asked
  <2>. QED BY <1>5, <2>1
<1>6. CASE Plain!Return
  <2>1. f'.pos = f.pos /\ Seen' = Seen /\ call.bytes = << >>
    BY <1>6 DEF Plain!Return, Seen, Writes
  <2>2. WriteReturns
    <3>1. ~Fault /\ ~ReadMapped /\ ~CopyCached /\ ~Fill /\ ~ReadReturns
      BY <2>1 DEF Fault, FillAgain, FlushFails, PfillFails, ReadMapped, CopyCached, Fill, ReadReturns,
                  Filling, ReadsCache, Flushing, Missed, Reads, Writes, Positioned
    <3>2. ~CopyIn /\ ~FlushWrites /\ ~FlushEnds /\ ~FlushClean
      BY <2>1 DEF CopyIn, FlushWrites, FlushEnds, FlushClean, Flushing, Missed, Writes, Positioned
    <3>3. ~SeekInCache /\ ~SeekInKernel /\ ~SeekFails /\ ~Pfill /\ ~CopyPositioned
      BY DEF SeekInCache, SeekInKernel, SeekFails, Seeking, Pfill, CopyPositioned, Missed, Writes,
             Positioned
    <3>. QED BY <3>1, <3>2, <3>3 DEF Step
  <2>3. call'.bytes = call.bytes
    BY <2>2, EndIs, GoodParts DEF WriteReturns
  <2>. QED BY <2>1, <2>3
<1>. QED BY <1>1, <1>4, <1>5, <1>6
         DEF PlainStep, Plain!Next, Plain!Begin, Plain!Read, Plain!Pread, Plain!Pwrite, Plain!Seek,
             Plain!Store, Plain!Refuse, Plain!vars, Writes, Seen, Asked

(* No other call changes what the file has or where it is, except a seek.  *)
LEMMA OthersKeep ==
  ASSUME Good, os.mode # "rw", Step \/ Fault, call.op \notin Reads \cup Writes
  PROVE  /\ Seen' = Seen
         /\ call.op # "seek" \/ call'.op = "seek" \/ call'.failed => f'.pos = f.pos
<1>1. /\ PlainStep /\ Does /\ call.op \in {"seek", "flush", "close"} /\ ~call.failed
  BY StepGood, StepDoes, InProgress
<1>. QED BY <1>1 DEF PlainStep, Plain!Next, Plain!Begin, Plain!Read, Plain!Write, Plain!Pread, Plain!Pwrite, Plain!Seek,
             Plain!Store, Plain!Refuse, Plain!Return, Plain!vars, Seen

(* A file that has just been opened, whichever it is.                      *)
LEMMA OpenedGood ==
  ASSUME NEW k \in [mode : {"r", "w", "rw"}, seekable : BOOLEAN, mappable : BOOLEAN,
                    data : Seq(Nat), at : Nat],
         k.mappable => k.at <= Len(k.data), Opened(k)
  PROVE  /\ Good /\ Seen = k.data /\ ~f.dirty /\ f.tag = f.end
         /\ f.pos = IF k.seekable THEN k.at ELSE 0
         /\ os.mode = k.mode /\ os.seekable = k.seekable /\ os.mappable = k.mappable
         /\ os.data = k.data /\ call = NoCall
<1>. DEFINE at == IF k.seekable THEN k.at ELSE 0
<1>1. at \in Nat /\ (k.mappable => at <= Len(k.data)) /\ CbufSize \in Nat
  BY BufferedFileAssumption
<1>2. /\ os = [mode |-> k.mode, seekable |-> k.seekable, mappable |-> k.mappable,
               data |-> k.data, kpos |-> at]
      /\ f = [map |-> "none", tag |-> at, pos |-> at, end |-> at,
              cbuf |-> << >>, dirty |-> FALSE, positioned |-> FALSE]
      /\ call = NoCall /\ crash = "none"
  BY DEF Opened
<1>3. f.pos = IF k.seekable THEN k.at ELSE 0
  BY <1>2
<1>. HIDE DEF at
<1>4. RecordsInv
  <2>1. os \in OsType
    BY <1>1, <1>2 DEF OsType, Bytes
  <2>2. f \in FType
    BY <1>1, <1>2 DEF FType, Bytes
  <2>3. call \in CallType
    BY <1>2 DEF NoCall, CallType, Ops, Bytes
  <2>. QED BY <1>2, <2>1, <2>2, <2>3 DEF RecordsInv
<1>5. ReadInv /\ WriteInv /\ PositionedInv
  BY <1>1, <1>2 DEF ReadInv, WriteInv, PositionedInv, NoCall, Common, Reads, Writes, Positioned
<1>6. CacheInv /\ FlushInv
  BY <1>1, <1>2 DEF CacheInv, FlushInv, NoCall
<1>7. KernelInStep
  BY <1>1, <1>2 DEF KernelInStep, NoCall
<1>8. DataInv
  <2>1. Shows(os.data, f.tag, f.cbuf)
    BY <1>2 DEF Shows
  <2>. QED BY <1>2, <2>1 DEF DataInv, ShownInv, CallInv, Written, NoCall, Reads, Positioned
<1>. QED BY <1>2, <1>3, <1>4, <1>5, <1>6, <1>7, <1>8 DEF Good, FileInv, Seen

(* Whatever happens elsewhere, to errno too.                               *)
LEMMA ElsewhereGood ==
  ASSUME Good, UNCHANGED <<os, f, call, crash>>
  PROVE  Good' /\ Seen' = Seen
<1>1. os' = os /\ f' = f /\ call' = call /\ crash' = crash
  OBVIOUS
<1>2. FileInv' /\ KernelInStep'
  BY <1>1, GoodParts
     DEF FileInv, RecordsInv, OsType, FType, CallType, ReadInv, WriteInv, PositionedInv,
         CacheInv, FlushInv, Flushing, Full, InCache, Missed, Hit, KernelInStep
<1>3. CallInv'
  BY <1>1, GoodParts DEF CallInv
<1>4. DataInv' /\ Seen' = Seen
  BY <1>1, <1>3, GoodParts, SameFile
<1>. QED BY <1>2, <1>4 DEF Good

(* Calls begin.                                                            *)
LEMMA StartReadGood ==
  ASSUME Good, NEW op \in Reads, NEW n \in Nat, StartRead(op, n)
  PROVE  /\ Good' /\ SameKind /\ f'.pos = f.pos /\ os.mode = "r"
         /\ call'.op = op /\ call'.want = n /\ call'.got = << >> /\ ~call'.failed
<1>1. Good'
  BY StartReadKeeps, StartReadRefines DEF Good
<1>2. Ready /\ os.mode = "r" /\ Sane(f) /\ Sane(Mapped(f)) /\ f \in FType
  BY GoodParts, AlwaysSane DEF StartRead
<1>3. call' = [NoCall EXCEPT !.op = op, !.want = n] /\ f' = Mapped(f) /\ os' = os
  BY <1>2 DEF StartRead, Begin
<1>4. f'.pos = f.pos
  BY <1>2, <1>3 DEF Mapped, FType
<1>. QED BY <1>1, <1>2, <1>3, <1>4 DEF NoCall, SameKind

(* How a write begins.                                                     *)
LEMMA StartWriteGood ==
  ASSUME Good, ~call.failed, NEW op \in Writes, NEW b \in Bytes, StartWrite(op, b)
  PROVE  /\ Good' /\ SameKind /\ f' = f /\ Seen' = Seen
         /\ call'.op = op /\ call'.want = Len(b) /\ call'.bytes = b /\ ~call'.failed
<1>1. Good'
  BY StartWriteKeeps, StartWriteRefines DEF Good, Accepted
<1>2. Ready /\ Sane(f) /\ os.mode = "w"
  BY GoodParts, AlwaysSane DEF StartWrite
<1>3. /\ call' = [NoCall EXCEPT !.op = op, !.bytes = b, !.want = Len(b)] /\ f' = f /\ os' = os
  BY <1>2 DEF StartWrite, Begin
<1>. QED BY <1>1, <1>3 DEF NoCall, SameKind, Seen

(* How a flush begins, and how a close does.                               *)
LEMMA StartFlushGood ==
  ASSUME Good, os.mode = "w" => ~call.failed, NEW op \in {"flush", "close"}, StartFlush(op),
         op = "flush" => ~os.mappable
  PROVE  /\ Good' /\ SameKind /\ f' = f /\ Seen' = Seen
         /\ call'.op = op /\ ~call'.failed
<1>1. Good'
  BY StartFlushKeeps, StartFlushRefines DEF Good, Accepted
<1>2. /\ call' = [NoCall EXCEPT !.op = op] /\ f' = f /\ os' = os
  BY DEF StartFlush, Begin
<1>. QED BY <1>1, <1>2 DEF NoCall, SameKind, Seen

(* How a seek begins.                                                      *)
LEMMA StartSeekGood ==
  ASSUME Good, os.mode \in {"r", "w"}, os.mode = "w" => ~call.failed, NEW off \in Nat,
         StartSeek(off), os.mappable => off <= Len(os.data)
  PROVE  /\ Good' /\ SameKind /\ f' = f /\ Seen' = Seen
         /\ call'.op = "seek" /\ call'.off = off /\ call'.got = << >> /\ ~call'.failed
<1>1. Good'
  BY StartSeekKeeps, StartSeekRefines DEF Good, Accepted
<1>2. Ready /\ Sane(f)
  BY GoodParts, AlwaysSane DEF StartSeek
<1>3. /\ call' = [NoCall EXCEPT !.op = "seek", !.off = off] /\ f' = f /\ os' = os
  BY <1>2 DEF StartSeek, Begin
<1>. QED BY <1>1, <1>3 DEF NoCall, SameKind, Seen

=============================================================================
