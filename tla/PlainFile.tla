------------------------------ MODULE PlainFile ------------------------------
(***************************************************************************)
(* What the calls of io61.hh promise to a program that reads or writes one *)
(* file: a sequence of bytes with a position, as if nothing were cached.   *)
(***************************************************************************)
EXTENDS Integers, Sequences

VARIABLES
  content,    (* the file as the program sees it                           *)
  stored,     (* the file as everyone else sees it                         *)
  pos,        (* the position, which positioned calls leave alone          *)
  call,       (* the call in progress or the last one: op, "idle" when it  *)
              (* has returned; want, bytes, off: its arguments; got: what  *)
              (* it has read                                               *)
  failed      (* it cannot go on: the system has refused something         *)

vars == <<content, stored, pos, call, failed>>

Init ==
  call.op = "idle" /\ call.got = << >> /\ content = stored /\ ~failed

(* content with bytes from offset at; a gap behind the end reads as zeros. *)
Overwritten(old, at, bytes) ==
  LET end == at + Len(bytes)
      size == IF bytes # << >> /\ end > Len(old) THEN end ELSE Len(old)
  IN  [i \in 1..size |->
         IF i \in (at + 1)..end THEN bytes[i - at]
         ELSE IF i <= Len(old) THEN old[i] ELSE 0]

Begin ==
  /\ call.op = "idle" /\ call'.op # "idle" /\ call'.got = << >>
  /\ ~failed' /\ UNCHANGED <<content, stored, pos>>

Read ==
  /\ call.op \in {"read", "readc"}
  /\ \E n \in 1..(call.want - Len(call.got)) :
       /\ pos + n <= Len(content) /\ pos' = pos + n
       /\ call'.got = call.got \o SubSeq(content, pos + 1, pos + n)
       /\ call'.op = "idle" => Len(call'.got) = call.want \/ pos' = Len(content)
  /\ UNCHANGED <<content, failed>> /\ stored' = stored

Write ==
  /\ call.op \in {"write", "writec"}
  /\ \E n \in 1..Len(call.bytes) :
       /\ content' = Overwritten(content, pos, SubSeq(call.bytes, 1, n))
       /\ pos' = pos + n
       /\ call' = [call EXCEPT !.bytes = SubSeq(@, n + 1, Len(@))]
  /\ UNCHANGED <<stored, failed>>

(* Positioned calls move as much as they like, and nothing at the end.     *)
Pread ==
  /\ call.op = "pread" /\ call'.op = "idle"
  /\ \E n \in 0..call.want :
       /\ n = 0 => call.want = 0 \/ call.off >= Len(content)
       /\ n > 0 => call.off + n <= Len(content)
       /\ call'.got = SubSeq(content, call.off + 1, call.off + n)
  /\ UNCHANGED <<content, stored, pos, failed>>

Pwrite ==
  /\ call.op = "pwrite" /\ call'.op = "idle"
  /\ \E n \in 0..Len(call.bytes) :
       /\ n = 0 => call.bytes = << >> \/ call.off >= Len(content)
       /\ content' = Overwritten(content, call.off, SubSeq(call.bytes, 1, n))
  /\ UNCHANGED <<stored, pos, failed>>

Seek ==
  /\ call.op = "seek" /\ pos' = call.off /\ call'.op = "idle"
  /\ UNCHANGED <<content, stored, failed>>

(* Cached bytes reach the file at any time.                                *)
Store ==
  stored' # stored /\ UNCHANGED <<content, pos, call, failed>>

Refuse ==
  /\ ~failed /\ failed' /\ call.op # "idle" /\ call'.op \in {"idle", "closed"}
  /\ UNCHANGED <<content, stored, pos>>

(* A call returns: a read because it has everything or is at the end, a    *)
(* write because all is written, and after a flush everyone sees it.       *)
Return ==
  /\ call.op # "idle" /\ call'.op \in {"idle", "closed"} /\ call'.got = call.got
  /\ \/ /\ call.op \in {"read", "readc"}
        /\ Len(call.got) = call.want \/ pos >= Len(content)
     \/ call.op \in {"write", "writec"} /\ call.bytes = << >>
     \/ call.op \in {"flush", "close"} /\ stored = content
  /\ UNCHANGED <<content, stored, pos, failed>>

Next == Begin \/ Read \/ Write \/ Pread \/ Pwrite \/ Seek \/ Store \/ Refuse \/ Return

Spec == Init /\ [][Next]_vars
=============================================================================
