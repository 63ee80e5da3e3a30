------------------------------- MODULE ZLine -------------------------------
(***************************************************************************)
(* The serial line between lsz and lrz as zm.c sees it: two byte streams   *)
(* over pipes, cut here into the units zgethdr and zrdata work on.  An     *)
(* item is a header, a data subpacket, five CANs, the final "OO"    *)
(* or junk: bytes whose CRC fails or that belong to no frame.  The field   *)
(* f of an item (and pos of a subpacket) is the file (and offset) its      *)
(* bytes come from; the programs never see it, the properties do.          *)
(***************************************************************************)
EXTENDS Integers, Sequences

CONSTANTS
  NFiles,     \* number of files of the batch (argv of lsz)
  Size,       \* Size[f]: length in bytes of file f
  MaxFaults   \* bound: how many items the line may damage

ASSUME BatchAssumption == NFiles \in Nat \ {0} /\ Size \in [1..NFiles -> Nat]
ASSUME FaultAssumption == MaxFaults \in Nat

VARIABLES
  s2r,     \* items in flight from lsz to lrz
  r2s,     \* items in flight from lrz to lsz
  closed,  \* the connection is gone: what is left can be read, then read() returns 0
  faults   \* items damaged so far

line == <<s2r, r2s, closed, faults>>

Files == 1..NFiles

FrameTypes ==
  {"ZRQINIT", "ZRINIT", "ZSINIT", "ZACK", "ZFILE", "ZSKIP", "ZNAK", "ZABORT",
   "ZFIN", "ZRPOS", "ZDATA", "ZEOF", "ZFERR", "ZCRC", "ZCHALLENGE", "ZCOMPL", "ZFREECNT",
   "ZCOMMAND", "ZSTDERR"}
FrameEnds == {"ZCRCE", "ZCRCG", "ZCRCQ", "ZCRCW"}

Item == [k : {"hdr", "sub", "can", "oo", "junk"}, t : FrameTypes \cup FrameEnds \cup {""},
         f : 0..NFiles, pos : Nat, n : Nat]

\* stohdr + zshhdr / zsbhdr: a header of type t with position p
Hdr(t, f, p) == [k |-> "hdr", t |-> t, f |-> f, pos |-> p, n |-> 0]
\* zsdata / zsda32: n bytes of file f from offset p, closed by frame end e
Sub(e, f, p, n) == [k |-> "sub", t |-> e, f |-> f, pos |-> p, n |-> n]
\* canit: ten CANs and ten backspaces; five CANs are what a reader takes for ZCAN
Can == [k |-> "can", t |-> "", f |-> 0, pos |-> 0, n |-> 0]
Canit == <<Can, Can>>
\* saybibi's over-and-out
OO == [k |-> "oo", t |-> "", f |-> 0, pos |-> 0, n |-> 0]
Junk(f) == [k |-> "junk", t |-> "", f |-> f, pos |-> 0, n |-> 0]

\* What is written to a line that is gone is lost.
Put(q, items) == IF closed THEN q ELSE q \o items

\* The frame item a belongs to goes on after it, at EndOf(a).
Continues(a) == (a.k = "hdr" /\ a.t = "ZDATA") \/ (a.k = "sub" /\ a.t \in {"ZCRCG", "ZCRCQ"})
EndOf(a) == a.pos + a.n

\* item i of q has become unreadable
Damage(q, i) == [q EXCEPT ![i] = Junk(q[i].f)]

\* Byte o of file f is the pair <<f, o>>.
Slice(f, from, n) == [i \in 1..n |-> <<f, from + i - 1>>]

(***************************************************************************)
(* What zgethdr may return when q is what is left to read: the header      *)
(* found, ZCAN, MYERROR for a header whose CRC fails or for too much       *)
(* garbage, or "scan" when the item is garbage it only steps over.  A      *)
(* subpacket can be long enough to exceed the garbage count (1400 + 2400   *)
(* bytes, blocks are up to 8192) once, or once and again.  With            *)
(* nothing left the read blocks; it gives TIMEOUT only at end of file,     *)
(* because readline_internal computes the alarm and never sets it.         *)
(***************************************************************************)
Outcome(c, p, rest) == [c |-> c, pos |-> p, rest |-> rest]
When(cond, outcomes) == IF cond THEN outcomes ELSE {}

\* readline_internal with nothing left to read
AtEnd(eof) == When(eof, {Outcome("TIMEOUT", 0, <<>>)})

ZGetHdr(q, eof) ==
  IF q = <<>> THEN AtEnd(eof)
  ELSE LET h == Head(q) IN
       UNION {When(h.k = "hdr", {Outcome(h.t, h.pos, Tail(q))}),
              When(h.k = "can", {Outcome("ZCAN", 0, Tail(q))}),
              When(h.k \notin {"hdr", "can"}, {Outcome("scan", 0, Tail(q))}),
              When(h.k = "junk", {Outcome("MYERROR", 0, Tail(q))}),
              When(h.k = "sub" /\ h.n > 0, {Outcome("MYERROR", 0, Tail(q)),
                                           Outcome("MYERROR", 0, Damage(q, 1))})}

(***************************************************************************)
(* What zrdata may return: the frame end of an intact subpacket, MYERROR   *)
(* for a damaged one, ZCAN, TIMEOUT at end of file.  The bytes of a header *)
(* are taken for data, so the subpacket after it fails its CRC.            *)
(***************************************************************************)
ZRData(q, eof) ==
  IF q = <<>> THEN AtEnd(eof)
  ELSE LET h == Head(q)
           stray == h.k \in {"hdr", "oo"}
       IN
       UNION {When(h.k = "sub", {Outcome(h.t, h.n, Tail(q))}),
              When(h.k = "can", {Outcome("ZCAN", 0, Tail(q))}),
              When(h.k = "junk", {Outcome("MYERROR", 0, Tail(q))}),
              When(stray /\ Len(q) = 1 /\ eof, {Outcome("TIMEOUT", 0, <<>>)}),
              When(stray /\ Len(q) > 1 /\ q[2].k = "sub", {Outcome("MYERROR", 0, Tail(Tail(q)))}),
              When(stray /\ Len(q) > 1 /\ q[2].k # "sub", {Outcome("scan", 0, Tail(q))})}

-----------------------------------------------------------------------------
(***************************************************************************)
(* Faults.  The line carries whatever the terminal session puts on it:     *)
(* keystrokes, the keep-alive of QWoSshProcess, output of other remote     *)
(* programs.  Such bytes damage one item in flight; a damaged item may     *)
(* take the next one with it when its end is no longer recognised.         *)
(***************************************************************************)
DamageToReceiver ==
  \E i \in DOMAIN s2r :
    /\ faults < MaxFaults /\ s2r[i].k # "junk"
    /\ s2r' = Damage(s2r, i) /\ faults' = faults + 1
    /\ UNCHANGED <<r2s, closed>>

DamageToSender ==
  \E i \in DOMAIN r2s :
    /\ faults < MaxFaults /\ r2s[i].k # "junk"
    /\ r2s' = Damage(r2s, i) /\ faults' = faults + 1
    /\ UNCHANGED <<s2r, closed>>

Swallow ==
  /\ Len(s2r) > 1 /\ s2r[1].k = "junk" /\ faults < MaxFaults
  /\ s2r' = Tail(Damage(s2r, 2)) /\ faults' = faults + 1
  /\ UNCHANGED <<r2s, closed>>

\* The parent process (woterm) dies or closes the pipes.
Hangup ==
  /\ ~closed /\ closed' = TRUE
  /\ UNCHANGED <<s2r, r2s, faults>>
=============================================================================
