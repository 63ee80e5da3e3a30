-------------------------- MODULE TransportProofs ---------------------------
(***************************************************************************)
(* Both ends read every packet with the key it was sent with and take part *)
(* in every change of keys in step, and the session packets arrive in      *)
(* order: for any limit on the blocks of a key, any block size and any     *)
(* number of packets and exchanges.                                        *)
(*                                                                         *)
(* A place is how far a direction of the connection has come: k exchanges  *)
(* of keys, j messages of the next one, d session packets.  What an end    *)
(* has sent, and what it has received, is such a place, which its state    *)
(* tells; the packets on the connection lead from the one to the other.    *)
(***************************************************************************)
EXTENDS Transport, SequenceTheorems, WellFoundedInduction, TLAPS

Places == [k : Nat, j : 0 .. 2, d : Nat]
Place(k, j, d) == [k |-> k, j |-> j, d |-> d]

\* The key after k exchanges, and what stands in for one before it is derived.
KeyNo(k) == <<k, k>>
Modes == {"in", "out"}

\* What end e sends second in an exchange, and what it waits for second.
Second(e, k) == IF e = "client" THEN Packet("INIT", 0)
                ELSE [Packet("REPLY", 0) EXCEPT !.of = KeyNo(k)]
Awaited(e) == IF e = "client" THEN "REPLY" ELSE "INIT"

\* Packet m, the first one e sent after place a, leads to place b.
Leads(e, a, m, b) ==
    /\ m.key = KeyNo(a.k)
    /\ \/ m.pkt = Packet("DATA", a.d + 1) /\ b = Place(a.k, a.j, a.d + 1)
       \/ a.j = 0 /\ m.pkt = Packet("KEXINIT", a.k + 1) /\ b = Place(a.k, 1, a.d)
       \/ a.j = 1 /\ m.pkt = Second(e, a.k + 1) /\ b = Place(a.k, 2, a.d)
       \/ a.j = 2 /\ m.pkt = Packet("NEWKEYS", 0) /\ b = Place(a.k + 1, 0, a.d)

\* The packets w of e lead from place a to place b.
Path(e, w, a, b) ==
    \E p \in [0 .. Len(w) -> Places] :
       /\ p[0] = a /\ p[Len(w)] = b
       /\ \A i \in 1 .. Len(w) : Leads(e, p[i - 1], w[i], p[i]) /\ p[i - 1].d <= b.d

\* What the state s of end e tells: how far it has come with sending when it
\* was handed n session packets, and with receiving when it has got n.
SentAt(s, d) ==
    Place(s.key["out"][1],
          IF ~s.rekeying THEN 0 ELSE IF s.handler = {"REPLY"} THEN 2 ELSE 1, d)
SentTo(s, n) == SentAt(s, n - Len(s.queue))
ReadTo(s, n) ==
    Place(s.key["in"][1],
          IF s.handler = {"KEXINIT"} THEN 0 ELSE IF s.handler = {"NEWKEYS"} THEN 2 ELSE 1,
          n)

\* The four stations of an end: no exchange; its KEXINIT is sent; the other's has
\* come too; its NEWKEYS is sent.
Resting(s, k) ==
    /\ ~s.rekeying /\ s.done /\ ~s.sent /\ s.my = k /\ s.peer = -1
    /\ s.handler = {"KEXINIT"} /\ s.key["out"] = KeyNo(k)
AtRest(s, k) == Resting(s, k) /\ s.queue = <<>>
Begun(s, k) ==
    /\ s.rekeying /\ ~s.done /\ s.sent /\ s.my = k + 1 /\ s.peer = -1
    /\ s.handler = {"KEXINIT"} /\ s.key["out"] = KeyNo(k)
Agreed(e, s, k) ==
    /\ s.rekeying /\ ~s.done /\ s.sent /\ s.my = k + 1 /\ s.peer = k + 1
    /\ s.handler = {Awaited(e)} /\ s.key["out"] = KeyNo(k)
Switched(s, k) ==
    /\ ~s.rekeying /\ ~s.done /\ s.sent /\ s.my = k + 1 /\ s.peer = k + 1
    /\ s.handler = {"NEWKEYS"} /\ s.key["out"] = KeyNo(k + 1) /\ s.new["in"] = KeyNo(k + 1)
    /\ s.queue = <<>>
Station(e, s, k) ==
    /\ s.key["in"] = KeyNo(k)
    /\ AtRest(s, k) \/ Begun(s, k) \/ Agreed(e, s, k) \/ Switched(s, k)

KexMessages == {"KEXINIT", "INIT", "REPLY", "NEWKEYS"}
Errors == {"none", "requested twice", "signature", "protocol error", "corrupted MAC"}
EndStates ==
    [ rekeying : BOOLEAN, done : BOOLEAN, sent : BOOLEAN, my : Nat, peer : Int,
      new : [Modes -> Keys], key : [Modes -> Keys], blocks : [Modes -> Nat],
      late : BOOLEAN, queue : Seq(Packets), handler : SUBSET KexMessages, err : Errors,
      out : Seq([pkt : Packets, key : Keys]) ]

\* The queue holds the last of the n session packets it was handed.
Queued(q, n) ==
    Len(q) <= n /\ \A i \in 1 .. Len(q) : q[i] = Packet("DATA", n - Len(q) + i)

\* An end that was handed n session packets.
EndOK(e, s, n) ==
    /\ s \in EndStates /\ s.err = "none" /\ Queued(s.queue, n)
    /\ \E k \in Nat : Station(e, s, k)

\* The same in the middle of a step that began at place a.
Sends(e, s, n, a) == EndOK(e, s, n) /\ Path(e, s.out, a, SentTo(s, n))

\* The invariant.
TInv ==
    /\ data \in [Ends -> 0 .. MaxData] /\ got \in [Ends -> Nat] /\ lates \in 0 .. MaxLate
    /\ wire \in [Ends -> Seq([pkt : Packets, key : Keys])]
    /\ st \in [Ends -> EndStates]
    /\ \A e \in Ends :
         /\ EndOK(e, st[e], data[e]) /\ st[e].out = <<>>
         /\ Path(e, wire[e], ReadTo(st[Peer(e)], got[Peer(e)]), SentTo(st[e], data[e]))

----------------------------------------------------------------------------
(* Paths *)

Messages == [pkt : Packets, key : Keys]

\* An end that sends nothing stays where it is.
LEMMA PathEmpty ==
    ASSUME NEW e, NEW a \in Places
    PROVE  Path(e, <<>>, a, a)
<1>. DEFINE p == [i \in 0 .. 0 |-> a]
<1>1. p \in [0 .. 0 -> Places] /\ p[0] = a /\ Len(<<>>) = 0
  BY EmptySeq
<1>. HIDE DEF p
<1>2. p \in [0 .. Len(<<>>) -> Places] /\ p[Len(<<>>)] = a
  BY <1>1
<1>3. \A i \in 1 .. Len(<<>>) : FALSE
  BY <1>1
<1>. QED BY <1>1, <1>2, <1>3, Zenon DEF Path

\* One packet.
LEMMA PathOne ==
    ASSUME NEW e, NEW a \in Places, NEW b \in Places, NEW m, Leads(e, a, m, b)
    PROVE  Path(e, <<m>>, a, b)
<1>. DEFINE p == [i \in 0 .. 1 |-> IF i = 0 THEN a ELSE b]
<1>1. p \in [0 .. 1 -> Places] /\ p[0] = a /\ p[1] = b
  OBVIOUS
<1>2. a.d <= b.d
  BY DEF Leads, Place, Places
<1>3. Len(<<m>>) = 1 /\ <<m>>[1] = m
  OBVIOUS
<1>. HIDE DEF p
<1>4. \A i \in 1 .. Len(<<m>>) : Leads(e, p[i - 1], <<m>>[i], p[i]) /\ p[i - 1].d <= b.d
  BY <1>1, <1>2, <1>3
<1>. QED BY <1>1, <1>3, <1>4 DEF Path

\* Session packets, one after the other.
LEMMA PathData ==
    ASSUME NEW e, NEW a \in Places, NEW v \in Seq(Messages),
           \A i \in 1 .. Len(v) : v[i].pkt = Packet("DATA", a.d + i) /\ v[i].key = KeyNo(a.k)
    PROVE  Path(e, v, a, Place(a.k, a.j, a.d + Len(v)))
<1>. DEFINE p == [i \in 0 .. Len(v) |-> Place(a.k, a.j, a.d + i)]
<1>0. a.k \in Nat /\ a.j \in 0 .. 2 /\ a.d \in Nat /\ Len(v) \in Nat
  BY DEF Places
<1>1. p \in [0 .. Len(v) -> Places] /\ p[0] = a
  BY <1>0 DEF Place, Places
<1>2. ASSUME NEW i \in 1 .. Len(v)
      PROVE  Leads(e, p[i - 1], v[i], p[i]) /\ p[i - 1].d <= a.d + Len(v)
  <2>1. p[i - 1] = Place(a.k, a.j, a.d + (i - 1)) /\ p[i] = Place(a.k, a.j, a.d + i)
    BY <1>0
  <2>2. a.d + (i - 1) + 1 = a.d + i /\ a.d + (i - 1) <= a.d + Len(v)
    BY <1>0
  <2>. QED BY <2>1, <2>2 DEF Leads, Place
<1>3. p[Len(v)] = Place(a.k, a.j, a.d + Len(v)) /\ Place(a.k, a.j, a.d + Len(v)).d = a.d + Len(v)
  BY <1>0 DEF Place
<1>. QED BY <1>1, <1>2, <1>3 DEF Path

\* Two paths joined.
LEMMA PathJoin ==
    ASSUME NEW e, NEW a, NEW b, NEW c, NEW v \in Seq(Messages), NEW w \in Seq(Messages),
           Path(e, v, a, b), Path(e, w, b, c)
    PROVE  v \o w \in Seq(Messages) /\ Path(e, v \o w, a, c)
<1>1. PICK p \in [0 .. Len(v) -> Places] :
         /\ p[0] = a /\ p[Len(v)] = b
         /\ \A i \in 1 .. Len(v) : Leads(e, p[i - 1], v[i], p[i]) /\ p[i - 1].d <= b.d
  BY DEF Path
<1>2. PICK q \in [0 .. Len(w) -> Places] :
         /\ q[0] = b /\ q[Len(w)] = c
         /\ \A i \in 1 .. Len(w) : Leads(e, q[i - 1], w[i], q[i]) /\ q[i - 1].d <= c.d
  BY DEF Path
<1>3. /\ v \o w \in Seq(Messages) /\ Len(v \o w) = Len(v) + Len(w)
      /\ \A i \in 1 .. Len(v) + Len(w) :
            (v \o w)[i] = IF i <= Len(v) THEN v[i] ELSE w[i - Len(v)]
      /\ Len(v) \in Nat /\ Len(w) \in Nat
  BY ConcatProperties
<1>. DEFINE r == [i \in 0 .. Len(v) + Len(w) |-> IF i <= Len(v) THEN p[i] ELSE q[i - Len(v)]]
<1>. DEFINE x == Len(v)  y == Len(w)
<1>n. x \in Nat /\ y \in Nat /\ Len(v \o w) = x + y
  BY <1>3
<1>p. p \in [0 .. x -> Places] /\ p[0] = a /\ p[x] = b
  BY <1>1
<1>q. q \in [0 .. y -> Places] /\ q[0] = b /\ q[y] = c
  BY <1>2
<1>r. r = [i \in 0 .. x + y |-> IF i <= x THEN p[i] ELSE q[i - x]]
  OBVIOUS
<1>4. r \in [0 .. Len(v \o w) -> Places] /\ r[0] = a /\ r[Len(v \o w)] = c
  <2>. HIDE DEF x, y, r
  <2>1. r \in [0 .. x + y -> Places] /\ r[0] = a
    <3>1. ASSUME NEW i \in 0 .. x + y
          PROVE  (IF i <= x THEN p[i] ELSE q[i - x]) \in Places
      <4>1. CASE i <= x
        BY <4>1, <1>n, <1>p
      <4>2. CASE ~(i <= x)
        <5>1. i - x \in 0 .. y
          BY <4>2, <1>n
        <5>. QED BY <4>2, <5>1, <1>q
      <4>. QED BY <4>1, <4>2
    <3>2. 0 \in 0 .. x + y /\ 0 <= x
      BY <1>n
    <3>. QED BY <3>1, <3>2, <1>p, <1>r
  <2>2. r[x + y] = c
    <3>1. CASE y = 0
      BY <3>1, <1>n, <1>p, <1>q, <1>r
    <3>2. CASE y # 0
      BY <3>2, <1>n, <1>q, <1>r
    <3>. QED BY <3>1, <3>2
  <2>. QED BY <2>1, <2>2, <1>n
<1>5. b.d <= c.d /\ b.d \in Nat /\ c.d \in Nat
  <2>1. q[0] \in Places /\ q[Len(w)] \in Places
    BY <1>3
  <2>2. b.d \in Nat /\ c.d \in Nat
    BY <2>1, <1>2 DEF Places
  <2>3. CASE Len(w) = 0
    BY <2>2, <2>3, <1>q
  <2>4. CASE Len(w) # 0
    <3>1. 1 \in 1 .. Len(w) /\ 1 - 1 = 0
      BY <2>4, <1>3
    <3>2. q[1 - 1].d <= c.d
      BY <3>1, <1>2
    <3>. QED BY <3>1, <3>2, <2>2, <1>q
  <2>. QED BY <2>2, <2>3, <2>4
<1>6. ASSUME NEW i \in 1 .. Len(v \o w)
      PROVE  Leads(e, r[i - 1], (v \o w)[i], r[i]) /\ r[i - 1].d <= c.d
  <2>1. CASE i <= Len(v)
    <3>1. r[i - 1] = p[i - 1] /\ r[i] = p[i] /\ (v \o w)[i] = v[i] /\ i \in 1 .. Len(v)
      BY <2>1, <1>3
    <3>2. p[i - 1] \in Places
      BY <3>1, <1>3
    <3>. QED BY <3>1, <3>2, <1>1, <1>5 DEF Places
  <2>2. CASE i > Len(v)
    <3>. DEFINE n == i - Len(v)
    <3>1. n \in 1 .. Len(w) /\ r[i] = q[n] /\ (v \o w)[i] = w[n]
      BY <2>2, <1>3
    <3>2. r[i - 1] = q[n - 1]
      <4>1. CASE i - 1 = x
        BY <4>1, <1>n, <1>p, <1>q
      <4>2. CASE i - 1 > x
        BY <4>2, <1>n, <1>r, <1>3
      <4>. QED BY <4>1, <4>2, <2>2, <1>n
    <3>. QED BY <3>1, <3>2, <1>2
  <2>. QED BY <2>1, <2>2, <1>3
<1>. QED BY <1>3, <1>4, <1>6 DEF Path

\* The first packet is read.
LEMMA PathTail ==
    ASSUME NEW e, NEW a, NEW b, NEW w \in Seq(Messages), w # <<>>, Path(e, w, a, b)
    PROVE  /\ a \in Places /\ b \in Places /\ a.d <= b.d
           /\ \E c \in Places : Leads(e, a, Head(w), c) /\ Path(e, Tail(w), c, b)
<1>1. PICK p \in [0 .. Len(w) -> Places] :
         /\ p[0] = a /\ p[Len(w)] = b
         /\ \A i \in 1 .. Len(w) : Leads(e, p[i - 1], w[i], p[i]) /\ p[i - 1].d <= b.d
  BY DEF Path
<1>2. /\ Len(w) \in Nat \ {0} /\ Head(w) = w[1] /\ Tail(w) \in Seq(Messages)
      /\ Len(Tail(w)) = Len(w) - 1
      /\ \A i \in 1 .. Len(Tail(w)) : Tail(w)[i] = w[i + 1]
  BY HeadTailProperties, EmptySeq
<1>. DEFINE q == [i \in 0 .. Len(Tail(w)) |-> p[i + 1]]
<1>3. q \in [0 .. Len(Tail(w)) -> Places] /\ q[0] = p[1] /\ q[Len(Tail(w))] = b /\ p[1] \in Places
  BY <1>1, <1>2
<1>4. ASSUME NEW i \in 1 .. Len(Tail(w))
      PROVE  Leads(e, q[i - 1], Tail(w)[i], q[i]) /\ q[i - 1].d <= b.d
  <2>1. q[i - 1] = p[(i + 1) - 1] /\ q[i] = p[i + 1] /\ Tail(w)[i] = w[i + 1] /\ i + 1 \in 1 .. Len(w)
    BY <1>2
  <2>. QED BY <2>1, <1>1
<1>5. Path(e, Tail(w), p[1], b)
  BY <1>3, <1>4 DEF Path
<1>6. Leads(e, a, Head(w), p[1]) /\ a.d <= b.d /\ a \in Places /\ b \in Places
  BY <1>1, <1>2
<1>. QED BY <1>3, <1>5, <1>6

\* The ends of a path are places, and the second is not behind the first.
LEMMA PathForward ==
    ASSUME NEW e, NEW a, NEW b, NEW w \in Seq(Messages), Path(e, w, a, b)
    PROVE  a \in Places /\ b \in Places /\ a.d <= b.d
<1>1. CASE w = <<>>
  <2>1. PICK p \in [0 .. 0 -> Places] : p[0] = a /\ p[0] = b
    BY <1>1, EmptySeq DEF Path
  <2>. QED BY <2>1 DEF Places
<1>2. CASE w # <<>>
  BY <1>2, PathTail
<1>. QED BY <1>1, <1>2

----------------------------------------------------------------------------
(* Sending *)

\* Everything of an end except what it sends and counts.
Same(s, t) ==
    /\ t.rekeying = s.rekeying /\ t.done = s.done /\ t.sent = s.sent /\ t.my = s.my
    /\ t.peer = s.peer /\ t.new = s.new /\ t.key = s.key /\ t.late = s.late
    /\ t.queue = s.queue /\ t.handler = s.handler /\ t.err = s.err

LEMMA FieldTypes ==
    ASSUME NEW s \in EndStates
    PROVE  /\ s.my \in Nat /\ s.my + 1 \in Nat /\ s.peer \in Int
           /\ s.key["in"] \in Keys /\ s.key["out"] \in Keys
           /\ s.new["in"] \in Keys /\ s.new["out"] \in Keys
           /\ s.queue \in Seq(Packets) /\ Len(s.queue) \in Nat
           /\ s.out \in Seq(Messages)
<1>1. s.queue \in Seq(Packets) /\ s.out \in Seq(Messages) /\ s.my \in Nat /\ s.peer \in Int
  BY DEF EndStates, Messages
<1>2. s.key \in [Modes -> Keys] /\ s.new \in [Modes -> Keys]
  BY DEF EndStates
<1>. QED BY <1>1, <1>2, LenProperties DEF Modes

LEMMA WrappedSends ==
    ASSUME NEW s \in EndStates, NEW p \in Packets, p.type # "NEWKEYS"
    PROVE  LET t == ssh_packet_send2_wrapped(s, p)
           IN  /\ t \in EndStates /\ Same(s, t)
               /\ t.out = Append(s.out, [pkt |-> p, key |-> s.key.out])
<1>1. s.blocks.out + 1 \in Nat /\ s.out \in Seq(Messages) /\ [pkt |-> p, key |-> s.key.out] \in Messages
  BY DEF EndStates, Modes, Messages
<1>2. Append(s.out, [pkt |-> p, key |-> s.key.out]) \in Seq(Messages)
  BY <1>1
<1>. QED BY <1>1, <1>2 DEF ssh_packet_send2_wrapped, EndStates, Same, Modes, Messages

LEMMA WrappedNewkeys ==
    ASSUME NEW s \in EndStates
    PROVE  LET t == ssh_packet_send2_wrapped(s, Packet("NEWKEYS", 0))
           IN  /\ t \in EndStates
               /\ t.out = Append(s.out, [pkt |-> Packet("NEWKEYS", 0), key |-> s.key.out])
               /\ t.rekeying = s.rekeying /\ t.done = s.done /\ t.sent = s.sent /\ t.my = s.my
               /\ t.peer = s.peer /\ t.queue = s.queue /\ t.handler = s.handler /\ t.err = s.err
               /\ t.key["out"] = s.new["out"] /\ t.key["in"] = s.key["in"]
               /\ t.new["in"] = s.new["in"]
<1>1. s.blocks.out + 1 \in Nat /\ s.out \in Seq(Messages)
      /\ Packet("NEWKEYS", 0) \in Packets
  BY DEF EndStates, Modes, Messages, Packets, Packet, NoKey, Keys
<1>2. [pkt |-> Packet("NEWKEYS", 0), key |-> s.key.out] \in Messages
  BY <1>1 DEF EndStates, Modes, Messages
<1>3. Append(s.out, [pkt |-> Packet("NEWKEYS", 0), key |-> s.key.out]) \in Seq(Messages)
  BY <1>1, <1>2
<1>4. NoKey \in Keys /\ s.new["out"] \in Keys
  BY DEF NoKey, Keys, EndStates, Modes
<1>. QED BY <1>1, <1>3, <1>4 DEF ssh_packet_send2_wrapped, ssh_set_newkeys, EndStates, Modes, Messages, Packet

LEMMA PacketTypes ==
    /\ \A n \in Nat : Packet("DATA", n) \in Packets /\ Packet("KEXINIT", n) \in Packets
    /\ \A e \in Ends, k \in Nat : Second(e, k) \in Packets
    /\ \A e, k : Second(e, k).type \in {"INIT", "REPLY"}
    /\ \A k \in Nat : KeyNo(k) \in Keys /\ KeyNo(k)[1] = k
  BY DEF Packet, Packets, Second, Keys, KeyNo, NoKey

\* SentTo and ReadTo are places.
LEMMA PlaceTypes ==
    ASSUME NEW e, NEW s, NEW n \in Nat, EndOK(e, s, n)
    PROVE  SentTo(s, n) \in Places /\ ReadTo(s, n) \in Places
<1>1. PICK k \in Nat : Station(e, s, k)
  BY DEF EndOK
<1>2. s.key["in"][1] \in Nat /\ s.key["out"][1] \in Nat
  BY <1>1, PacketTypes DEF Station, AtRest, Resting, Begun, Agreed, Switched
<1>3. Len(s.queue) \in Nat /\ Len(s.queue) <= n
  BY FieldTypes DEF EndOK, Queued
<1>. QED BY <1>2, <1>3 DEF SentTo, SentAt, ReadTo, Place, Places

\* One more packet of the station.
LEMMA PathMore ==
    ASSUME NEW e, NEW a, NEW b \in Places, NEW c \in Places, NEW w \in Seq(Messages),
           NEW m \in Messages, Path(e, w, a, b), Leads(e, b, m, c)
    PROVE  Append(w, m) \in Seq(Messages) /\ Path(e, Append(w, m), a, c)
<1>1. Path(e, <<m>>, b, c)
  BY PathOne
<1>2. Append(w, m) = w \o <<m>> /\ <<m>> \in Seq(Messages)
  BY AppendIsConcat
<1>. QED BY <1>1, <1>2, PathJoin

\* kex_send_kexinit of an end that has not sent its KEXINIT.
LEMMA KexinitFields ==
    ASSUME NEW s \in EndStates, ~s.sent
    PROVE  LET t == kex_send_kexinit(s)
           IN  /\ t \in EndStates
               /\ t.rekeying /\ ~t.done /\ t.sent /\ t.my = s.my + 1 /\ t.peer = s.peer
               /\ t.key = s.key /\ t.new = s.new /\ t.queue = s.queue
               /\ t.handler = s.handler /\ t.err = s.err
               /\ t.out = Append(s.out, [pkt |-> Packet("KEXINIT", s.my + 1), key |-> s.key["out"]])
<1>. DEFINE u == [s EXCEPT !.done = FALSE, !.my = @ + 1, !.rekeying = TRUE]
            p == Packet("KEXINIT", s.my + 1)
            v == ssh_packet_send2_wrapped(u, p)
<1>1. /\ u \in EndStates /\ u.rekeying /\ ~u.done /\ u.sent = s.sent /\ u.my = s.my + 1
      /\ u.peer = s.peer /\ u.key = s.key /\ u.new = s.new /\ u.queue = s.queue
      /\ u.handler = s.handler /\ u.err = s.err /\ u.out = s.out
  BY FieldTypes DEF EndStates
<1>2. p \in Packets /\ p.type # "NEWKEYS"
  BY FieldTypes, PacketTypes DEF Packet
<1>. HIDE DEF u, p
<1>3. v \in EndStates /\ Same(u, v) /\ v.out = Append(u.out, [pkt |-> p, key |-> u.key["out"]])
  BY <1>1, <1>2, WrappedSends
<1>4. kex_send_kexinit(s) = [v EXCEPT !.sent = TRUE]
  BY DEF kex_send_kexinit, u, p
<1>. HIDE DEF v
<1>5. p = Packet("KEXINIT", s.my + 1)
  BY DEF p
<1>. QED BY <1>1, <1>3, <1>4, <1>5 DEF EndStates, Same

\* kex_start_rekex: an end at rest begins an exchange.
LEMMA ExchangeBegins ==
    ASSUME NEW e, NEW k \in Nat, NEW n \in Nat, NEW a, NEW s \in EndStates,
           s.err = "none", s.key["in"] = KeyNo(k), Resting(s, k), Queued(s.queue, n),
           Path(e, s.out, a, SentTo(s, n))
    PROVE  LET t == kex_start_rekex(s)
           IN  /\ Sends(e, t, n, a) /\ Begun(t, k) /\ t.key = s.key /\ t.queue = s.queue
               /\ t.handler = s.handler
<1>. DEFINE u == [s EXCEPT !.done = FALSE]  t == kex_start_rekex(s)
            m == [pkt |-> Packet("KEXINIT", s.my + 1), key |-> s.key["out"]]
<1>1. /\ u \in EndStates /\ ~u.sent /\ u.my = s.my /\ u.peer = s.peer /\ u.key = s.key
      /\ u.queue = s.queue /\ u.handler = s.handler /\ u.err = s.err /\ u.out = s.out
  BY DEF EndStates, Resting
<1>2. t = kex_send_kexinit(u)
  BY DEF kex_start_rekex, Resting
<1>. HIDE DEF u, t
<1>3. /\ t \in EndStates /\ t.rekeying /\ ~t.done /\ t.sent /\ t.my = s.my + 1
      /\ t.peer = s.peer /\ t.key = s.key /\ t.queue = s.queue /\ t.handler = s.handler
      /\ t.err = s.err /\ t.out = Append(s.out, m)
  BY <1>1, <1>2, KexinitFields
<1>4. Begun(t, k) /\ Station(e, t, k)
  BY <1>3 DEF Begun, Resting, Station
<1>5. EndOK(e, t, n)
  BY <1>3, <1>4 DEF EndOK
<1>6. /\ SentTo(s, n) = Place(k, 0, n - Len(s.queue)) /\ SentTo(t, n) = Place(k, 1, n - Len(s.queue))
      /\ n - Len(s.queue) \in Nat
  <2>1. s.key["out"][1] = k /\ t.key["out"][1] = k
    BY <1>3, PacketTypes DEF Resting
  <2>2. n - Len(s.queue) \in Nat
    BY FieldTypes DEF Queued
  <2>. QED BY <1>3, <1>4, <2>1, <2>2 DEF SentTo, SentAt, Resting, Begun
<1>7. m = [pkt |-> Packet("KEXINIT", k + 1), key |-> KeyNo(k)] /\ m \in Messages
  <2>1. s.my + 1 = k + 1 /\ k + 1 \in Nat /\ s.key["out"] = KeyNo(k)
    BY DEF Resting
  <2>. QED BY <2>1, PacketTypes DEF Messages
<1>. HIDE DEF m
<1>8. Leads(e, SentTo(s, n), m, SentTo(t, n))
  BY <1>6, <1>7 DEF Leads, Place
<1>9. SentTo(s, n) \in Places /\ SentTo(t, n) \in Places /\ s.out \in Seq(Messages)
  BY <1>6, FieldTypes DEF Place, Places
<1>10. Path(e, t.out, a, SentTo(t, n))
  BY <1>3, <1>7, <1>8, <1>9, PathMore
<1>. QED BY <1>3, <1>4, <1>5, <1>10 DEF Sends, t

\* ssh_packet_send2 of a session packet: sent, queued, or queued with an exchange
\* begun; either way the end has one more packet in its hands.
LEMMA DataSent ==
    ASSUME NEW e, NEW n \in Nat, NEW a, NEW s, Sends(e, s, n, a)
    PROVE  Sends(e, ssh_packet_send2(s, Packet("DATA", n + 1)), n + 1, a)
           /\ ReadTo(ssh_packet_send2(s, Packet("DATA", n + 1)), n) = ReadTo(s, n)
<1>. DEFINE p == Packet("DATA", n + 1)
            q == [s EXCEPT !.queue = Append(@, p)]
            t == ssh_packet_send2(s, p)
<1>1. s \in EndStates /\ s.err = "none" /\ Queued(s.queue, n) /\ Path(e, s.out, a, SentTo(s, n))
  BY DEF Sends, EndOK
<1>2. PICK k \in Nat : Station(e, s, k)
  BY DEF Sends, EndOK
<1>3. p \in Packets /\ p = Packet("DATA", n + 1) /\ p.type # "NEWKEYS"
  <2>1. n + 1 \in Nat
    OBVIOUS
  <2>2. p \in Packets
    BY <2>1, PacketTypes
  <2>. QED BY <2>2 DEF Packet
<1>. HIDE DEF p
<1>4. /\ s.queue \in Seq(Packets) /\ Append(s.queue, p) \in Seq(Packets)
      /\ Len(s.queue) \in Nat /\ Len(s.queue) <= n /\ Len(Append(s.queue, p)) = Len(s.queue) + 1
      /\ \A i \in 1 .. Len(s.queue) : Append(s.queue, p)[i] = s.queue[i]
      /\ Append(s.queue, p)[Len(s.queue) + 1] = p
  BY <1>1, <1>3, FieldTypes, AppendProperties DEF Queued
<1>5. /\ q \in EndStates /\ q.queue = Append(s.queue, p) /\ q.rekeying = s.rekeying
      /\ q.done = s.done /\ q.sent = s.sent /\ q.my = s.my /\ q.peer = s.peer /\ q.key = s.key
      /\ q.handler = s.handler /\ q.err = s.err /\ q.out = s.out
  BY <1>1, <1>4 DEF EndStates
<1>. HIDE DEF q
<1>l. PICK l \in Nat : Len(s.queue) = l /\ Len(q.queue) = l + 1 /\ l <= n
  BY <1>4, <1>5
<1>m. n + 1 - (l + 1) = n - l /\ l + 1 <= n + 1 /\ n - l + (l + 1) = n + 1
  BY <1>l
<1>6. Queued(q.queue, n + 1)
  <2>1. ASSUME NEW i \in 1 .. l + 1
        PROVE  q.queue[i] = Packet("DATA", n - l + i)
    <3>1. CASE i = l + 1
      BY <3>1, <1>m, <1>3, <1>4, <1>5, <1>l
    <3>2. CASE i # l + 1
      <4>1. i \in 1 .. l
        BY <3>2
      <4>2. s.queue[i] = Packet("DATA", n - l + i)
        BY <4>1, <1>1, <1>l DEF Queued
      <4>. QED BY <4>1, <4>2, <1>4, <1>5, <1>l
    <3>. QED BY <3>1, <3>2
  <2>. QED BY <2>1, <1>l, <1>m DEF Queued
<1>7. SentTo(q, n + 1) = SentTo(s, n)
  <2>1. SentTo(q, n + 1) = SentAt(q, n + 1 - (l + 1)) /\ SentTo(s, n) = SentAt(s, n - l)
    BY <1>l DEF SentTo
  <2>2. SentAt(q, n - l) = SentAt(s, n - l)
    BY <1>5 DEF SentAt
  <2>. QED BY <2>1, <2>2, <1>m
<1>8. Path(e, q.out, a, SentTo(q, n + 1)) /\ ReadTo(q, n) = ReadTo(s, n)
  BY <1>1, <1>5, <1>7 DEF ReadTo
<1>9. CASE ssh_packet_need_rekeying(s, 1)
  <2>1. s.done
    BY <1>9 DEF ssh_packet_need_rekeying, ssh_packet_is_rekeying
  <2>2. AtRest(s, k) /\ s.key["in"] = KeyNo(k)
    BY <2>1, <1>2 DEF Station, Begun, Agreed, Switched
  <2>3. Resting(q, k) /\ q.key["in"] = KeyNo(k) /\ q.err = "none"
    BY <2>2, <1>1, <1>5 DEF AtRest, Resting
  <2>4. /\ Sends(e, kex_start_rekex(q), n + 1, a) /\ kex_start_rekex(q).key = q.key
        /\ kex_start_rekex(q).handler = q.handler
    <3>1. n + 1 \in Nat
      OBVIOUS
    <3>. QED BY <3>1, <2>3, <1>5, <1>6, <1>8, ExchangeBegins
  <2>5. t = kex_start_rekex(q)
    BY <1>9 DEF ssh_packet_send2, q
  <2>. QED BY <2>4, <2>5, <1>8 DEF ReadTo, p
<1>10. CASE ~ssh_packet_need_rekeying(s, 1) /\ s.rekeying
  <2>1. t = q
    BY <1>10 DEF ssh_packet_send2, q
  <2>2. Station(e, q, k)
    BY <1>2, <1>5, <1>10 DEF Station, AtRest, Resting, Begun, Agreed, Switched
  <2>3. EndOK(e, q, n + 1)
    BY <2>2, <1>1, <1>5, <1>6 DEF EndOK
  <2>. QED BY <2>1, <2>3, <1>8 DEF Sends, p
<1>11. CASE ~ssh_packet_need_rekeying(s, 1) /\ ~s.rekeying
  <2>. DEFINE m == [pkt |-> p, key |-> s.key["out"]]
  <2>1. t = ssh_packet_send2_wrapped(s, p)
    BY <1>11 DEF ssh_packet_send2
  <2>. HIDE DEF t
  <2>2. t \in EndStates /\ Same(s, t) /\ t.out = Append(s.out, m)
    BY <2>1, <1>1, <1>3, WrappedSends
  <2>3. PICK x \in Nat : s.queue = <<>> /\ s.key["out"] = KeyNo(x)
    <3>1. k + 1 \in Nat
      OBVIOUS
    <3>2. CASE AtRest(s, k)
      BY <3>2 DEF AtRest, Resting
    <3>3. CASE Switched(s, k)
      BY <3>1, <3>3 DEF Switched
    <3>. QED BY <3>2, <3>3, <1>2, <1>11 DEF Station, Begun, Agreed
  <2>4. Station(e, t, k)
    BY <2>2, <1>2 DEF Station, Same, AtRest, Resting, Begun, Agreed, Switched
  <2>5. t.queue = <<>> /\ Len(t.queue) = 0 /\ Len(s.queue) = 0
    BY <2>2, <2>3, EmptySeq DEF Same
  <2>6. EndOK(e, t, n + 1)
    BY <2>2, <2>4, <2>5, <1>1 DEF EndOK, Same, Queued
  <2>7. s.key["out"][1] = x /\ t.key["out"][1] = x /\ ~t.rekeying
    BY <2>2, <2>3, <1>11, PacketTypes DEF Same
  <2>8. SentTo(s, n) = Place(x, 0, n) /\ SentTo(t, n + 1) = Place(x, 0, n + 1)
    <3>1. n - 0 = n /\ n + 1 - 0 = n + 1
      OBVIOUS
    <3>2. SentTo(s, n) = Place(x, 0, n - 0) /\ SentTo(t, n + 1) = Place(x, 0, n + 1 - 0)
      <4>1. SentTo(s, n) = SentAt(s, n - 0) /\ SentTo(t, n + 1) = SentAt(t, n + 1 - 0)
        BY <2>5 DEF SentTo
      <4>. QED BY <4>1, <2>7, <1>11 DEF SentAt
    <3>. QED BY <3>1, <3>2
  <2>9. Leads(e, SentTo(s, n), m, SentTo(t, n + 1))
    BY <2>8, <2>3, <1>3 DEF Leads, Place
  <2>10. m \in Messages
    BY <1>1, <1>3, FieldTypes DEF Messages
  <2>. HIDE DEF m
  <2>11. SentTo(s, n) \in Places /\ SentTo(t, n + 1) \in Places
    BY <2>8 DEF Place, Places
  <2>12. Path(e, t.out, a, SentTo(t, n + 1))
    BY <2>2, <2>9, <2>10, <2>11, <1>1, FieldTypes, PathMore
  <2>13. ReadTo(t, n) = ReadTo(s, n)
    BY <2>2 DEF Same, ReadTo
  <2>. QED BY <2>6, <2>12, <2>13 DEF Sends, t, p
<1>. QED BY <1>9, <1>10, <1>11

----------------------------------------------------------------------------
(* The handlers of an exchange *)

\* An end in the middle of exchange k + 1, between two stations.
Midway(s, k) ==
    /\ s \in EndStates /\ s.err = "none" /\ s.key["in"] = KeyNo(k) /\ s.key["out"] = KeyNo(k)
    /\ s.rekeying /\ ~s.done /\ s.sent /\ s.my = k + 1 /\ s.peer = k + 1

\* The messages that are dispatched are set.
LEMMA HandlerSet ==
    ASSUME NEW s \in EndStates, NEW h \in SUBSET KexMessages
    PROVE  LET t == [s EXCEPT !.handler = h]
           IN  /\ t \in EndStates /\ t.handler = h /\ t.rekeying = s.rekeying
               /\ t.done = s.done /\ t.sent = s.sent /\ t.my = s.my /\ t.peer = s.peer
               /\ t.new = s.new /\ t.key = s.key /\ t.queue = s.queue /\ t.err = s.err
               /\ t.out = s.out
  BY DEF EndStates

\* kex_input_kexinit up to the choice of the algorithms: both KEXINITs are known.
LEMMA BothKnown ==
    ASSUME NEW e, NEW k \in Nat, NEW n \in Nat, NEW a, NEW s, Sends(e, s, n, a),
           Station(e, s, k), s.handler = {"KEXINIT"}, NEW p, p.n = k + 1
    PROVE  LET t == kex_send_kexinit([s EXCEPT !.handler = @ \ {"KEXINIT"}, !.peer = p.n])
           IN  /\ Midway(t, k) /\ t.handler = {} /\ t.queue = s.queue
               /\ Path(e, t.out, a, Place(k, 1, n - Len(s.queue)))
<1>. DEFINE u == [s EXCEPT !.handler = @ \ {"KEXINIT"}, !.peer = p.n]
            t == kex_send_kexinit(u)
            d == n - Len(s.queue)
<1>1. s \in EndStates /\ s.err = "none" /\ Queued(s.queue, n) /\ Path(e, s.out, a, SentTo(s, n))
  BY DEF Sends, EndOK
<1>2. k + 1 \in Nat
  OBVIOUS
<1>3. /\ u \in EndStates /\ u.handler = {} /\ u.peer = k + 1 /\ u.rekeying = s.rekeying
      /\ u.done = s.done /\ u.sent = s.sent /\ u.my = s.my /\ u.key = s.key
      /\ u.queue = s.queue /\ u.err = s.err /\ u.out = s.out
  <2>1. s.handler \ {"KEXINIT"} = {} /\ k + 1 \in Int
    OBVIOUS
  <2>2. u = [s EXCEPT !.handler = {}, !.peer = k + 1]
    BY <2>1
  <2>. HIDE DEF u
  <2>. QED BY <1>1, <2>1, <2>2 DEF EndStates
<1>. HIDE DEF u
<1>4. d \in Nat /\ s.out \in Seq(Messages)
  BY <1>1, FieldTypes DEF Queued
<1>5. s.key["in"] = KeyNo(k) /\ (AtRest(s, k) \/ Begun(s, k))
  BY DEF Station, Agreed, Switched, Awaited
<1>6. KeyNo(k)[1] = k /\ KeyNo(k) \in Keys /\ Packet("KEXINIT", k + 1) \in Packets
  BY <1>2, PacketTypes
<1>7. CASE AtRest(s, k)
  <2>. DEFINE m == [pkt |-> Packet("KEXINIT", k + 1), key |-> KeyNo(k)]
  <2>1. ~s.rekeying /\ ~s.sent /\ s.my = k /\ s.key["out"] = KeyNo(k)
    BY <1>7 DEF AtRest, Resting
  <2>2. /\ t \in EndStates /\ t.rekeying /\ ~t.done /\ t.sent /\ t.my = k + 1 /\ t.peer = k + 1
        /\ t.key = s.key /\ t.queue = s.queue /\ t.handler = {} /\ t.err = s.err
        /\ t.out = Append(s.out, m)
    BY <2>1, <1>3, KexinitFields
  <2>3. Midway(t, k)
    BY <2>1, <2>2, <1>1, <1>5 DEF Midway
  <2>4. SentTo(s, n) = Place(k, 0, d)
    BY <2>1, <1>6 DEF SentTo, SentAt
  <2>5. Leads(e, Place(k, 0, d), m, Place(k, 1, d))
    BY DEF Leads, Place
  <2>6. Place(k, 0, d) \in Places /\ Place(k, 1, d) \in Places /\ m \in Messages
    BY <1>4, <1>6 DEF Place, Places, Messages
  <2>. HIDE DEF m, t, d
  <2>7. Path(e, t.out, a, Place(k, 1, d))
    BY <2>2, <2>4, <2>5, <2>6, <1>1, <1>4, PathMore
  <2>. QED BY <2>2, <2>3, <2>7 DEF t, u, d
<1>8. CASE Begun(s, k)
  <2>1. s.rekeying /\ ~s.done /\ s.sent /\ s.my = k + 1 /\ s.key["out"] = KeyNo(k)
    BY <1>8 DEF Begun
  <2>2. t = u
    BY <2>1, <1>3 DEF kex_send_kexinit
  <2>3. Midway(t, k)
    BY <2>1, <2>2, <1>1, <1>3, <1>5 DEF Midway
  <2>4. SentTo(s, n) = Place(k, 1, d)
    BY <2>1, <1>6 DEF SentTo, SentAt
  <2>. QED BY <2>2, <2>3, <2>4, <1>1, <1>3 DEF u
<1>. QED BY <1>5, <1>7, <1>8

\* A KEXINIT is read.
LEMMA KexinitRead ==
    ASSUME NEW e \in Ends, NEW k \in Nat, NEW n \in Nat, NEW a, NEW s, Sends(e, s, n, a),
           Station(e, s, k), s.handler = {"KEXINIT"}, NEW p, p.n = k + 1
    PROVE  LET t == kex_input_kexinit(s, e, p)
           IN  Sends(e, t, n, a) /\ Agreed(e, t, k) /\ t.key["in"] = KeyNo(k)
<1>. DEFINE v == kex_send_kexinit([s EXCEPT !.handler = @ \ {"KEXINIT"}, !.peer = p.n])
            t == kex_input_kexinit(s, e, p)
            d == n - Len(s.queue)
<1>1. Midway(v, k) /\ v.handler = {} /\ v.queue = s.queue /\ Path(e, v.out, a, Place(k, 1, d))
  BY BothKnown
<1>2. Queued(s.queue, n) /\ d \in Nat
  <2>1. s \in EndStates /\ Queued(s.queue, n)
    BY DEF Sends, EndOK
  <2>2. Len(s.queue) \in Nat
    BY <2>1, FieldTypes
  <2>3. Len(s.queue) <= n
    BY <2>1 DEF Queued
  <2>. QED BY <2>1, <2>2, <2>3
<1>3. v \in EndStates /\ v.out \in Seq(Messages) /\ v.key["out"] = KeyNo(k)
  BY <1>1, FieldTypes DEF Midway
<1>4. KeyNo(k)[1] = k /\ KeyNo(k) \in Keys /\ Packet("INIT", 0) \in Packets
  BY PacketTypes DEF Packet, Packets, NoKey, Keys
<1>5. CASE e = "client"
  <2>. DEFINE p2 == Packet("INIT", 0)  m == [pkt |-> p2, key |-> v.key["out"]]
              x == ssh_packet_send2_wrapped(v, p2)
  <2>1. t = [x EXCEPT !.handler = @ \cup {"REPLY"}]
    BY <1>5 DEF kex_input_kexinit
  <2>. HIDE DEF v
  <2>2. p2.type # "NEWKEYS"
    BY DEF Packet
  <2>3. x \in EndStates /\ Same(v, x) /\ x.out = Append(v.out, m)
    BY <2>2, <1>3, <1>4, WrappedSends
  <2>. HIDE DEF x
  <2>4. /\ t \in EndStates /\ t.handler = {"REPLY"} /\ t.out = Append(v.out, m)
        /\ t.rekeying = v.rekeying /\ t.done = v.done /\ t.sent = v.sent /\ t.my = v.my
        /\ t.peer = v.peer /\ t.key = v.key /\ t.queue = v.queue /\ t.err = v.err
    <3>1. x.handler \cup {"REPLY"} = {"REPLY"}
      BY <2>3, <1>1 DEF Same
    <3>2. t = [x EXCEPT !.handler = {"REPLY"}]
      BY <2>1, <3>1
    <3>3. {"REPLY"} \in SUBSET KexMessages
      BY DEF KexMessages
    <3>. HIDE DEF t
    <3>. QED BY <3>2, <3>3, <2>3, HandlerSet DEF Same
  <2>. HIDE DEF t
  <2>5. Agreed(e, t, k) /\ t.key["in"] = KeyNo(k) /\ t.err = "none"
    BY <2>4, <1>1, <1>5 DEF Agreed, Awaited, Midway
  <2>6. EndOK(e, t, n)
    BY <2>4, <2>5, <1>1, <1>2 DEF EndOK, Station
  <2>7. SentTo(t, n) = Place(k, 2, d)
    BY <2>4, <2>5, <1>1, <1>4 DEF SentTo, SentAt, Agreed
  <2>8. Leads(e, Place(k, 1, d), m, Place(k, 2, d))
    BY <1>3, <1>5 DEF Leads, Place, Second
  <2>9. Place(k, 1, d) \in Places /\ Place(k, 2, d) \in Places /\ m \in Messages
    BY <1>2, <1>3, <1>4 DEF Place, Places, Messages
  <2>. HIDE DEF m, d
  <2>10. Path(e, t.out, a, Place(k, 2, d))
    BY <2>4, <2>8, <2>9, <1>1, <1>3, PathMore
  <2>. QED BY <2>5, <2>6, <2>7, <2>10 DEF Sends, t
<1>6. CASE e # "client"
  <2>1. t = [v EXCEPT !.handler = @ \cup {"INIT"}]
    BY <1>6 DEF kex_input_kexinit
  <2>. HIDE DEF v
  <2>4. /\ t \in EndStates /\ t.handler = {"INIT"} /\ t.out = v.out
        /\ t.rekeying = v.rekeying /\ t.done = v.done /\ t.sent = v.sent /\ t.my = v.my
        /\ t.peer = v.peer /\ t.key = v.key /\ t.queue = v.queue /\ t.err = v.err
    <3>1. v.handler \cup {"INIT"} = {"INIT"}
      BY <1>1
    <3>2. t = [v EXCEPT !.handler = {"INIT"}]
      BY <2>1, <3>1
    <3>3. {"INIT"} \in SUBSET KexMessages
      BY DEF KexMessages
    <3>. HIDE DEF t
    <3>. QED BY <3>2, <3>3, <1>3, HandlerSet
  <2>. HIDE DEF t
  <2>5. Agreed(e, t, k) /\ t.key["in"] = KeyNo(k) /\ t.err = "none"
    BY <2>4, <1>1, <1>6 DEF Agreed, Awaited, Midway
  <2>6. EndOK(e, t, n)
    BY <2>4, <2>5, <1>1, <1>2 DEF EndOK, Station
  <2>7. SentTo(t, n) = Place(k, 1, d)
    BY <2>4, <2>5, <1>1, <1>4 DEF SentTo, SentAt, Agreed
  <2>. QED BY <2>4, <2>5, <2>6, <2>7, <1>1 DEF Sends, t
<1>. QED BY <1>5, <1>6

\* kex_send_newkeys: NEWKEYS goes out under the old key, then the queue under the
\* new one, all of it.
LEMMA NewkeysSent ==
    ASSUME NEW e \in Ends, NEW k \in Nat, NEW n \in Nat, NEW a, NEW s, Midway(s, k),
           Queued(s.queue, n), Path(e, s.out, a, Place(k, 2, n - Len(s.queue)))
    PROVE  LET t == kex_send_newkeys(s, e)
           IN  Sends(e, t, n, a) /\ Switched(t, k) /\ t.key["in"] = KeyNo(k)
<1>. DEFINE t == kex_send_newkeys(s, e)
            u == [s EXCEPT !.new = [in |-> Secret(s, e), out |-> Secret(s, e)]]
            v == ssh_packet_send2_wrapped(u, Packet("NEWKEYS", 0))
            x == [v EXCEPT !.rekeying = FALSE, !.late = FALSE]
            y == SendQueue(x)
            m == [pkt |-> Packet("NEWKEYS", 0), key |-> KeyNo(k)]
<1>1. s \in EndStates /\ Secret(s, e) = KeyNo(k + 1) /\ k + 1 \in Nat
  BY DEF Midway, Secret, KeyNo
<1>2. KeyNo(k + 1) \in Keys /\ KeyNo(k + 1)[1] = k + 1 /\ KeyNo(k) \in Keys
  BY <1>1, PacketTypes
<1>3. /\ u \in EndStates /\ u.new["in"] = KeyNo(k + 1) /\ u.new["out"] = KeyNo(k + 1)
      /\ u.rekeying = s.rekeying /\ u.done = s.done /\ u.sent = s.sent /\ u.my = s.my
      /\ u.peer = s.peer /\ u.key = s.key /\ u.queue = s.queue /\ u.handler = s.handler
      /\ u.err = s.err /\ u.out = s.out
  <2>1. [in |-> Secret(s, e), out |-> Secret(s, e)] \in [Modes -> Keys]
    BY <1>1, <1>2 DEF Modes
  <2>. QED BY <1>1, <2>1 DEF EndStates
<1>. HIDE DEF u
<1>4. /\ v \in EndStates /\ v.out = Append(s.out, m) /\ ~v.done /\ v.sent /\ v.my = k + 1
      /\ v.peer = k + 1 /\ v.queue = s.queue /\ v.err = "none" /\ v.key["out"] = KeyNo(k + 1)
      /\ v.key["in"] = KeyNo(k) /\ v.new["in"] = KeyNo(k + 1)
  <2>1. /\ v \in EndStates /\ v.out = Append(u.out, [pkt |-> Packet("NEWKEYS", 0), key |-> u.key["out"]])
        /\ v.done = u.done /\ v.sent = u.sent /\ v.my = u.my /\ v.peer = u.peer
        /\ v.queue = u.queue /\ v.err = u.err /\ v.key["out"] = u.new["out"]
        /\ v.key["in"] = u.key["in"] /\ v.new["in"] = u.new["in"]
    BY <1>3, WrappedNewkeys
  <2>. HIDE DEF v
  <2>. QED BY <2>1, <1>3 DEF Midway
<1>. HIDE DEF v
<1>5. /\ x \in EndStates /\ x.out = Append(s.out, m) /\ ~x.rekeying /\ ~x.done /\ x.sent
      /\ x.my = k + 1 /\ x.peer = k + 1 /\ x.queue = s.queue /\ x.err = "none"
      /\ x.key["out"] = KeyNo(k + 1) /\ x.key["in"] = KeyNo(k) /\ x.new["in"] = KeyNo(k + 1)
  <2>1. /\ x \in EndStates /\ x.rekeying = FALSE /\ x.out = v.out /\ x.done = v.done
        /\ x.sent = v.sent /\ x.my = v.my /\ x.peer = v.peer /\ x.queue = v.queue
        /\ x.err = v.err /\ x.key = v.key /\ x.new = v.new
    BY <1>4 DEF EndStates
  <2>. HIDE DEF x
  <2>. QED BY <2>1, <1>4
<1>6. t = [y EXCEPT !.handler = {"NEWKEYS"}]
  BY DEF kex_send_newkeys, SendNewkeys, u, v
<1>. HIDE DEF x
<1>7. y = Dequeued(x, Len(s.queue))
  <2>1. \A j : Dequeued(x, j).done = x.done
    BY <1>5 DEF Dequeued, EndStates
  <2>2. \A j : ~ssh_packet_need_rekeying(Dequeued(x, j), 1)
    BY <2>1, <1>5 DEF ssh_packet_need_rekeying, ssh_packet_is_rekeying
  <2>. QED BY <2>2, <1>5 DEF SendQueue
<1>. HIDE DEF y
<1>. DEFINE w == [i \in 1 .. Len(s.queue) |-> [pkt |-> s.queue[i], key |-> KeyNo(k + 1)]]
<1>8. /\ y \in EndStates /\ y.out = x.out \o w /\ y.queue = <<>>
      /\ y.rekeying = x.rekeying /\ y.done = x.done /\ y.sent = x.sent /\ y.my = x.my
      /\ y.peer = x.peer /\ y.key = x.key /\ y.new = x.new /\ y.err = x.err
      /\ w \in Seq(Messages) /\ Len(w) = Len(s.queue)
  <2>1. s.queue \in Seq(Packets) /\ Len(s.queue) \in Nat /\ x.out \in Seq(Messages)
    BY <1>1, <1>5, FieldTypes
  <2>2. w \in Seq(Messages) /\ Len(w) = Len(s.queue)
    <3>1. \A i \in 1 .. Len(s.queue) : [pkt |-> s.queue[i], key |-> KeyNo(k + 1)] \in Messages
      BY <2>1, <1>2, ElementOfSeq DEF Messages
    <3>. QED BY <2>1, <3>1
  <2>3. SubSeq(s.queue, Len(s.queue) + 1, Len(s.queue)) = <<>> /\ <<>> \in Seq(Packets)
    BY <2>1, SubSeqEmpty, EmptySeq
  <2>4. x.out \o w \in Seq(Messages)
    BY <2>1, <2>2, ConcatProperties
  <2>5. x.blocks["out"] + Len(s.queue) \in Nat
    BY <2>1, <1>5 DEF EndStates, Modes
  <2>. DEFINE o == x.out \o w  b == x.blocks["out"] + Len(s.queue)
  <2>6. y = [x EXCEPT !.out = o, !.blocks.out = b, !.queue = <<>>]
    BY <1>5, <1>7, <2>3 DEF Dequeued
  <2>. HIDE DEF o, b, w
  <2>7. o \in Seq(Messages) /\ b \in Nat
    BY <2>4, <2>5 DEF o, b
  <2>8. /\ y \in EndStates /\ y.out = o /\ y.queue = <<>>
        /\ y.rekeying = x.rekeying /\ y.done = x.done /\ y.sent = x.sent /\ y.my = x.my
        /\ y.peer = x.peer /\ y.key = x.key /\ y.new = x.new /\ y.err = x.err
    BY <2>3, <2>6, <2>7, <1>5 DEF EndStates, Modes, Messages
  <2>. QED BY <2>2, <2>8 DEF o
<1>9. /\ t \in EndStates /\ t.out = x.out \o w /\ t.queue = <<>> /\ t.handler = {"NEWKEYS"}
      /\ t.rekeying = x.rekeying /\ t.done = x.done /\ t.sent = x.sent /\ t.my = x.my
      /\ t.peer = x.peer /\ t.key = x.key /\ t.new = x.new /\ t.err = x.err
  <2>1. {"NEWKEYS"} \in SUBSET KexMessages
    BY DEF KexMessages
  <2>. HIDE DEF t, w
  <2>. QED BY <2>1, <1>6, <1>8, HandlerSet
<1>. HIDE DEF t
<1>10. Switched(t, k) /\ Station(e, t, k) /\ t.key["in"] = KeyNo(k)
  BY <1>5, <1>9 DEF Switched, Station
<1>11. EndOK(e, t, n) /\ SentTo(t, n) = Place(k + 1, 0, n)
  <2>1. Len(t.queue) = 0
    BY <1>9, EmptySeq
  <2>2. Queued(t.queue, n)
    BY <2>1 DEF Queued
  <2>3. SentTo(t, n) = SentAt(t, n)
    BY <2>1 DEF SentTo
  <2>. QED BY <2>2, <2>3, <1>2, <1>5, <1>9, <1>10 DEF EndOK, SentAt
<1>12. PICK l \in Nat : Len(s.queue) = l /\ l <= n
  BY <1>1, FieldTypes DEF Queued
<1>13. Path(e, x.out, a, Place(k + 1, 0, n - l))
  <2>1. Place(k, 2, n - l) \in Places /\ Place(k + 1, 0, n - l) \in Places /\ m \in Messages
    BY <1>12, <1>1, <1>2 DEF Place, Places, Messages, Packet, Packets, NoKey, Keys
  <2>2. Leads(e, Place(k, 2, n - l), m, Place(k + 1, 0, n - l))
    BY DEF Leads, Place
  <2>3. Path(e, s.out, a, Place(k, 2, n - l)) /\ s.out \in Seq(Messages)
    BY <1>12, <1>1, FieldTypes
  <2>. HIDE DEF m
  <2>. QED BY <2>1, <2>2, <2>3, <1>5, PathMore
<1>14. Path(e, w, Place(k + 1, 0, n - l), Place(k + 1, 0, n))
  <2>. DEFINE b == Place(k + 1, 0, n - l)
  <2>1. b \in Places /\ b.k = k + 1 /\ b.j = 0 /\ b.d = n - l /\ n - l + l = n
    BY <1>12, <1>1 DEF Place, Places
  <2>2. \A i \in 1 .. Len(w) : w[i].pkt = Packet("DATA", b.d + i) /\ w[i].key = KeyNo(b.k)
    BY <2>1, <1>8, <1>12 DEF Queued
  <2>. HIDE DEF b, w
  <2>3. Path(e, w, b, Place(b.k, b.j, b.d + Len(w)))
    BY <2>1, <2>2, <1>8, PathData
  <2>4. Place(b.k, b.j, b.d + Len(w)) = Place(k + 1, 0, n)
    BY <2>1, <1>8, <1>12
  <2>. QED BY <2>3, <2>4 DEF b
<1>15. Path(e, t.out, a, SentTo(t, n))
  <2>1. x.out \in Seq(Messages)
    BY <1>5, FieldTypes
  <2>. HIDE DEF w
  <2>. QED BY <2>1, <1>8, <1>9, <1>11, <1>13, <1>14, PathJoin
<1>. QED BY <1>10, <1>11, <1>15 DEF Sends, t

\* The server reads INIT: it answers REPLY and sends NEWKEYS.
LEMMA InitRead ==
    ASSUME NEW k \in Nat, NEW n \in Nat, NEW a, NEW s, Sends("server", s, n, a),
           Agreed("server", s, k), s.key["in"] = KeyNo(k)
    PROVE  LET t == input_kex_c25519_init(s, "server")
           IN  Sends("server", t, n, a) /\ Switched(t, k) /\ t.key["in"] = KeyNo(k)
<1>. DEFINE p == [Packet("REPLY", 0) EXCEPT !.of = Secret(s, "server")]
            m == [pkt |-> p, key |-> s.key["out"]]
            u == ssh_packet_send2_wrapped(s, p)
<1>1. s \in EndStates /\ s.err = "none" /\ Queued(s.queue, n) /\ Path("server", s.out, a, SentTo(s, n))
  BY DEF Sends, EndOK
<1>2. Secret(s, "server") = KeyNo(k + 1) /\ k + 1 \in Nat /\ s.key["out"] = KeyNo(k)
  BY DEF Secret, Agreed, KeyNo
<1>3. p = Second("server", k + 1) /\ p \in Packets /\ p.type # "NEWKEYS"
  <2>1. p = Second("server", k + 1)
    BY <1>2 DEF Second
  <2>2. p \in Packets /\ p.type \in {"INIT", "REPLY"}
    BY <2>1, <1>2, PacketTypes DEF Ends
  <2>. QED BY <2>1, <2>2
<1>4. KeyNo(k) \in Keys /\ KeyNo(k)[1] = k
  BY PacketTypes
<1>. HIDE DEF p
<1>5. u \in EndStates /\ Same(s, u) /\ u.out = Append(s.out, m)
  BY <1>1, <1>3, WrappedSends
<1>. HIDE DEF u
<1>6. Midway(u, k)
  BY <1>1, <1>5 DEF Midway, Same, Agreed
<1>7. PICK l \in Nat : Len(s.queue) = l /\ l <= n
  BY <1>1, FieldTypes DEF Queued
<1>8. SentTo(s, n) = Place(k, 1, n - l)
  BY <1>2, <1>4, <1>7 DEF SentTo, SentAt, Agreed, Awaited
<1>9. Leads("server", Place(k, 1, n - l), m, Place(k, 2, n - l))
  BY <1>2, <1>3 DEF Leads, Place
<1>10. Place(k, 1, n - l) \in Places /\ Place(k, 2, n - l) \in Places /\ m \in Messages
  BY <1>2, <1>3, <1>4, <1>7 DEF Place, Places, Messages
<1>. HIDE DEF m
<1>11. Path("server", u.out, a, Place(k, 2, n - l))
  BY <1>1, <1>5, <1>8, <1>9, <1>10, FieldTypes, PathMore
<1>12. u.queue = s.queue
  BY <1>5 DEF Same
<1>13. Queued(u.queue, n) /\ Path("server", u.out, a, Place(k, 2, n - Len(u.queue)))
  BY <1>1, <1>7, <1>11, <1>12
<1>14. LET t == kex_send_newkeys(u, "server")
       IN  Sends("server", t, n, a) /\ Switched(t, k) /\ t.key["in"] = KeyNo(k)
  BY <1>6, <1>13, NewkeysSent DEF Ends
<1>. QED BY <1>14 DEF input_kex_c25519_init, u, p

\* The client reads REPLY, whose signature is over this exchange, and sends NEWKEYS.
LEMMA ReplyRead ==
    ASSUME NEW k \in Nat, NEW n \in Nat, NEW a, NEW s, Sends("client", s, n, a),
           Agreed("client", s, k), s.key["in"] = KeyNo(k), NEW p, p.of = KeyNo(k + 1)
    PROVE  LET t == input_kex_c25519_reply(s, "client", p)
           IN  Sends("client", t, n, a) /\ Switched(t, k) /\ t.key["in"] = KeyNo(k)
<1>1. s \in EndStates /\ s.err = "none" /\ Queued(s.queue, n) /\ Path("client", s.out, a, SentTo(s, n))
  BY DEF Sends, EndOK
<1>2. Secret(s, "client") = KeyNo(k + 1) /\ s.key["out"] = KeyNo(k) /\ KeyNo(k)[1] = k
  BY PacketTypes DEF Secret, Agreed, KeyNo
<1>3. Midway(s, k)
  BY <1>1 DEF Midway, Agreed
<1>4. SentTo(s, n) = Place(k, 2, n - Len(s.queue))
  BY <1>2 DEF SentTo, SentAt, Agreed, Awaited
<1>5. LET t == kex_send_newkeys(s, "client")
      IN  Sends("client", t, n, a) /\ Switched(t, k) /\ t.key["in"] = KeyNo(k)
  BY <1>1, <1>3, <1>4, NewkeysSent DEF Ends
<1>. QED BY <1>2, <1>5 DEF input_kex_c25519_reply

\* NEWKEYS is read: the exchange is over.
LEMMA NewkeysRead ==
    ASSUME NEW e, NEW k \in Nat, NEW n \in Nat, NEW a, NEW s, Sends(e, s, n, a),
           Switched(s, k), s.key["in"] = KeyNo(k)
    PROVE  LET t == kex_input_newkeys(s)
           IN  Sends(e, t, n, a) /\ AtRest(t, k + 1) /\ t.key["in"] = KeyNo(k + 1)
<1>. DEFINE u == ssh_set_newkeys(s, "in")  t == kex_input_newkeys(s)
<1>1. s \in EndStates /\ s.err = "none" /\ Queued(s.queue, n) /\ Path(e, s.out, a, SentTo(s, n))
  BY DEF Sends, EndOK
<1>2. NoKey \in Keys /\ s.new["in"] \in Keys /\ k + 1 \in Nat /\ -1 \in Int
  BY <1>1, FieldTypes DEF NoKey, Keys
<1>3. /\ u \in EndStates /\ u.key["in"] = s.new["in"] /\ u.key["out"] = s.key["out"]
      /\ u.rekeying = s.rekeying /\ u.my = s.my /\ u.queue = s.queue /\ u.err = s.err
      /\ u.out = s.out
  BY <1>1, <1>2 DEF ssh_set_newkeys, EndStates, Modes
<1>4. t = [u EXCEPT !.done = TRUE, !.peer = -1, !.sent = FALSE, !.handler = {"KEXINIT"}]
  BY DEF kex_input_newkeys
<1>5. {"KEXINIT"} \in SUBSET KexMessages
  BY DEF KexMessages
<1>. HIDE DEF u, t
<1>6. /\ t \in EndStates /\ t.key = u.key /\ t.rekeying = u.rekeying /\ t.done = TRUE
      /\ t.sent = FALSE /\ t.my = u.my /\ t.peer = -1 /\ t.handler = {"KEXINIT"}
      /\ t.queue = u.queue /\ t.err = u.err /\ t.out = u.out
  BY <1>2, <1>3, <1>4, <1>5 DEF EndStates
<1>7. AtRest(t, k + 1) /\ t.key["in"] = KeyNo(k + 1)
  BY <1>3, <1>6 DEF AtRest, Resting, Switched
<1>8. EndOK(e, t, n)
  BY <1>1, <1>2, <1>3, <1>6, <1>7 DEF EndOK, Station
<1>9. SentTo(t, n) = SentTo(s, n)
  BY <1>3, <1>6 DEF SentTo, SentAt, Switched
<1>. QED BY <1>1, <1>3, <1>6, <1>7, <1>8, <1>9 DEF Sends, t

----------------------------------------------------------------------------
(* Reading *)

\* ssh_packet_read_poll2: the packet has the right key; an exchange may begin.
LEMMA Polled ==
    ASSUME NEW e, NEW k \in Nat, NEW n \in Nat, NEW a, NEW s, Sends(e, s, n, a),
           Station(e, s, k), NEW m, m.key = KeyNo(k)
    PROVE  LET r == ssh_packet_read_poll2(s, m)
           IN  Sends(e, r, n, a) /\ Station(e, r, k) /\ r.handler = s.handler
<1>. DEFINE t == [s EXCEPT !.blocks.in = @ + 1]  r == ssh_packet_read_poll2(s, m)
<1>1. s \in EndStates /\ s.err = "none" /\ Queued(s.queue, n) /\ Path(e, s.out, a, SentTo(s, n))
  BY DEF Sends, EndOK
<1>2. t \in EndStates /\ Same(s, t) /\ t.out = s.out
  <2>1. s.blocks["in"] + 1 \in Nat
    BY <1>1 DEF EndStates, Modes
  <2>. QED BY <1>1, <2>1 DEF EndStates, Modes, Same
<1>3. s.key["in"] = KeyNo(k)
  BY DEF Station
<1>4. r = IF ssh_packet_need_rekeying(t, 0) THEN kex_start_rekex(t) ELSE t
  BY <1>3 DEF ssh_packet_read_poll2
<1>. HIDE DEF t, r
<1>5. Station(e, t, k) /\ SentTo(t, n) = SentTo(s, n) /\ t.handler = s.handler
  BY <1>2 DEF Same, Station, AtRest, Resting, Begun, Agreed, Switched, SentTo, SentAt
<1>6. Sends(e, t, n, a) /\ t.key["in"] = KeyNo(k)
  <2>1. EndOK(e, t, n)
    BY <1>1, <1>2, <1>5 DEF EndOK, Same
  <2>. QED BY <2>1, <1>1, <1>2, <1>3, <1>5 DEF Sends, Same
<1>7. CASE ssh_packet_need_rekeying(t, 0)
  <2>1. ~t.rekeying /\ t.done
    BY <1>7 DEF ssh_packet_need_rekeying, ssh_packet_is_rekeying
  <2>2. Resting(t, k)
    BY <2>1, <1>5 DEF Station, AtRest, Begun, Agreed, Switched
  <2>3. t.err = "none" /\ Queued(t.queue, n) /\ Path(e, t.out, a, SentTo(t, n))
    BY <1>6 DEF Sends, EndOK
  <2>4. r = kex_start_rekex(t)
    BY <1>4, <1>7
  <2>5. Sends(e, r, n, a) /\ Begun(r, k) /\ r.key = t.key /\ r.handler = t.handler
    BY <2>2, <2>3, <2>4, <1>2, <1>6, ExchangeBegins
  <2>. QED BY <2>5, <1>5, <1>6 DEF Station, r
<1>8. CASE ~ssh_packet_need_rekeying(t, 0)
  BY <1>4, <1>5, <1>6, <1>8 DEF r
<1>. QED BY <1>7, <1>8

\* ssh_dispatch_run: the message is one the end waits for, and the end has then
\* received as far as the message leads.
LEMMA Dispatched ==
    ASSUME NEW e \in Ends, NEW n \in Nat, NEW a, NEW s, Sends(e, s, n, a), NEW g \in Nat,
           NEW m, NEW c, Leads(Peer(e), ReadTo(s, g), m, c)
    PROVE  LET t == Dispatch(s, e, m.pkt)
           IN  /\ Sends(e, t, n, a)
               /\ ReadTo(t, IF m.pkt.type = "DATA" THEN g + 1 ELSE g) = c
<1>. DEFINE b == ReadTo(s, g)  t == Dispatch(s, e, m.pkt)
<1>1. PICK k \in Nat : Station(e, s, k)
  BY DEF Sends, EndOK
<1>2. KeyNo(k)[1] = k /\ k + 1 \in Nat /\ KeyNo(k + 1)[1] = k + 1 /\ s.key["in"] = KeyNo(k)
  <2>1. k + 1 \in Nat
    OBVIOUS
  <2>. QED BY <2>1, <1>1, PacketTypes DEF Station
<1>3. b.k = k /\ b.d = g
      /\ b.j = IF s.handler = {"KEXINIT"} THEN 0 ELSE IF s.handler = {"NEWKEYS"} THEN 2 ELSE 1
  BY <1>2 DEF ReadTo, Place
<1>4. \/ m.pkt = Packet("DATA", g + 1) /\ c = Place(k, b.j, g + 1)
      \/ b.j = 0 /\ m.pkt = Packet("KEXINIT", k + 1) /\ c = Place(k, 1, g)
      \/ b.j = 1 /\ m.pkt = Second(Peer(e), k + 1) /\ c = Place(k, 2, g)
      \/ b.j = 2 /\ m.pkt = Packet("NEWKEYS", 0) /\ c = Place(k + 1, 0, g)
  BY <1>3 DEF Leads
<1>5. CASE m.pkt = Packet("DATA", g + 1) /\ c = Place(k, b.j, g + 1)
  <2>1. m.pkt.type = "DATA"
    BY <1>5 DEF Packet
  <2>2. t = s
    BY <2>1 DEF Dispatch
  <2>3. ReadTo(t, g + 1) = c
    BY <2>2, <1>2, <1>3, <1>5 DEF ReadTo
  <2>. QED BY <2>1, <2>2, <2>3
<1>6. CASE b.j = 0 /\ m.pkt = Packet("KEXINIT", k + 1) /\ c = Place(k, 1, g)
  <2>1. m.pkt.type = "KEXINIT" /\ m.pkt.n = k + 1 /\ s.handler = {"KEXINIT"}
    BY <1>3, <1>6 DEF Packet
  <2>2. t = kex_input_kexinit(s, e, m.pkt)
    BY <2>1 DEF Dispatch
  <2>3. Sends(e, t, n, a) /\ Agreed(e, t, k) /\ t.key["in"] = KeyNo(k)
    BY <2>1, <2>2, <1>1, KexinitRead
  <2>. HIDE DEF t
  <2>4. ReadTo(t, g) = c
    BY <2>3, <1>2, <1>6 DEF ReadTo, Agreed, Awaited
  <2>. QED BY <2>1, <2>3, <2>4 DEF t
<1>7. CASE b.j = 1 /\ m.pkt = Second(Peer(e), k + 1) /\ c = Place(k, 2, g)
  <2>1. Agreed(e, s, k) /\ s.handler = {Awaited(e)}
    BY <1>1, <1>3, <1>7 DEF Station, AtRest, Resting, Begun, Switched, Agreed
  <2>2. Sends(e, t, n, a) /\ Switched(t, k) /\ t.key["in"] = KeyNo(k) /\ m.pkt.type # "DATA"
    <3>1. CASE e = "client"
      <4>1. m.pkt.type = "REPLY" /\ m.pkt.of = KeyNo(k + 1) /\ s.handler = {"REPLY"}
        BY <2>1, <3>1, <1>7 DEF Second, Peer, Packet, Awaited
      <4>2. t = input_kex_c25519_reply(s, "client", m.pkt)
        BY <4>1, <3>1 DEF Dispatch
      <4>. QED BY <4>1, <4>2, <3>1, <2>1, <1>2, ReplyRead
    <3>2. CASE e = "server"
      <4>1. m.pkt.type = "INIT" /\ s.handler = {"INIT"}
        BY <2>1, <3>2, <1>7 DEF Second, Peer, Packet, Awaited
      <4>2. t = input_kex_c25519_init(s, "server")
        BY <4>1, <3>2 DEF Dispatch
      <4>. QED BY <4>1, <4>2, <3>2, <2>1, <1>2, InitRead
    <3>. QED BY <3>1, <3>2 DEF Ends
  <2>. HIDE DEF t
  <2>3. ReadTo(t, g) = c
    BY <2>2, <1>2, <1>7 DEF ReadTo, Switched
  <2>. QED BY <2>2, <2>3 DEF t
<1>8. CASE b.j = 2 /\ m.pkt = Packet("NEWKEYS", 0) /\ c = Place(k + 1, 0, g)
  <2>1. m.pkt.type = "NEWKEYS" /\ s.handler = {"NEWKEYS"}
    BY <1>3, <1>8 DEF Packet
  <2>2. t = kex_input_newkeys(s)
    BY <2>1 DEF Dispatch
  <2>3. Switched(s, k)
    BY <2>1, <1>1 DEF Station, AtRest, Resting, Begun, Agreed, Awaited
  <2>4. Sends(e, t, n, a) /\ AtRest(t, k + 1) /\ t.key["in"] = KeyNo(k + 1)
    BY <2>2, <2>3, <1>2, NewkeysRead
  <2>. HIDE DEF t
  <2>5. ReadTo(t, g) = c
    BY <2>4, <1>2, <1>8 DEF ReadTo, AtRest, Resting
  <2>. QED BY <2>1, <2>4, <2>5 DEF t
<1>. QED BY <1>4, <1>5, <1>6, <1>7, <1>8

----------------------------------------------------------------------------
(* The steps *)

LEMMA Peers ==
    ASSUME NEW e \in Ends
    PROVE  Peer(e) \in Ends /\ Peer(e) # e /\ Peer(Peer(e)) = e
           /\ \A f \in Ends : f = e \/ f = Peer(e)
  BY DEF Ends, Peer

\* What TInv says of one end.
LEMMA EndOf ==
    ASSUME TInv, NEW e \in Ends
    PROVE  /\ EndOK(e, st[e], data[e]) /\ st[e].out = <<>> /\ st[e] \in EndStates
           /\ data[e] \in Nat /\ data[e] \in 0 .. MaxData /\ got[e] \in Nat
           /\ wire[e] \in Seq(Messages)
           /\ Path(e, wire[e], ReadTo(st[Peer(e)], got[Peer(e)]), SentTo(st[e], data[e]))
           /\ SentTo(st[e], data[e]) \in Places
           /\ Sends(e, st[e], data[e], SentTo(st[e], data[e]))
<1>1. /\ EndOK(e, st[e], data[e]) /\ st[e].out = <<>> /\ st[e] \in EndStates
      /\ Path(e, wire[e], ReadTo(st[Peer(e)], got[Peer(e)]), SentTo(st[e], data[e]))
  BY DEF TInv
<1>2. data[e] \in 0 .. MaxData /\ data[e] \in Nat /\ got[e] \in Nat /\ wire[e] \in Seq(Messages)
  <2>1. /\ data \in [Ends -> 0 .. MaxData] /\ got \in [Ends -> Nat]
        /\ wire \in [Ends -> Seq(Messages)]
    BY DEF TInv, Messages
  <2>. QED BY <2>1, TransportAssumption
<1>3. SentTo(st[e], data[e]) \in Places
  BY <1>1, <1>2, PlaceTypes
<1>4. Path(e, st[e].out, SentTo(st[e], data[e]), SentTo(st[e], data[e]))
  BY <1>1, <1>3, PathEmpty
<1>. QED BY <1>1, <1>2, <1>3, <1>4 DEF Sends

\* A step of end e that leaves it in state s, with n packets handed to it, g packets
\* got, and v still to be read.
LEMMA Committed ==
    ASSUME TInv, NEW e \in Ends, NEW s, NEW n \in 0 .. MaxData, NEW g \in Nat,
           NEW v \in Seq(Messages), Sends(e, s, n, SentTo(st[e], data[e])),
           Path(Peer(e), v, ReadTo(s, g), SentTo(st[Peer(e)], data[Peer(e)])), Commit(e, s),
           wire' = [wire EXCEPT ![Peer(e)] = v, ![e] = @ \o s.out],
           data' = [data EXCEPT ![e] = n], got' = [got EXCEPT ![e] = g], lates' \in 0 .. MaxLate
    PROVE  TInv'
<1>. DEFINE t == [s EXCEPT !.out = <<>>]  f == Peer(e)
<1>1. s \in EndStates /\ EndOK(e, s, n) /\ Path(e, s.out, SentTo(st[e], data[e]), SentTo(s, n))
  BY DEF Sends, EndOK
<1>2. t \in EndStates /\ Same(s, t) /\ t.out = <<>>
  <2>1. <<>> \in Seq([pkt : Packets, key : Keys])
    BY EmptySeq
  <2>. QED BY <1>1, <2>1 DEF EndStates, Same
<1>. HIDE DEF t
<1>3. /\ EndOK(e, t, n) /\ SentTo(t, n) = SentTo(s, n) /\ ReadTo(t, g) = ReadTo(s, g)
  <2>1. PICK k \in Nat : Station(e, s, k)
    BY <1>1 DEF EndOK
  <2>2. Station(e, t, k)
    BY <2>1, <1>2 DEF Same, Station, AtRest, Resting, Begun, Agreed, Switched
  <2>. QED BY <2>2, <1>1, <1>2 DEF EndOK, Same, SentTo, SentAt, ReadTo
<1>4. f \in Ends /\ f # e /\ Peer(f) = e /\ Ends = {e, f}
  BY DEF Ends, Peer
<1>. HIDE DEF f
<1>5. /\ st \in [Ends -> EndStates] /\ wire \in [Ends -> Seq(Messages)]
      /\ data \in [Ends -> 0 .. MaxData] /\ got \in [Ends -> Nat]
  BY DEF TInv, Messages
<1>6. st' = [st EXCEPT ![e] = t] /\ wire' = [wire EXCEPT ![f] = v, ![e] = @ \o s.out]
  BY DEF Commit, t, f
<1>7. /\ wire[e] \in Seq(Messages) /\ EndOK(f, st[f], data[f]) /\ st[f].out = <<>>
      /\ Path(e, wire[e], ReadTo(st[f], got[f]), SentTo(st[e], data[e]))
  BY <1>4, EndOf DEF f
<1>8. wire[e] \o s.out \in Seq(Messages)
      /\ Path(e, wire[e] \o s.out, ReadTo(st[f], got[f]), SentTo(t, n))
  BY <1>1, <1>3, <1>7, FieldTypes, PathJoin
<1>9. /\ st' \in [Ends -> EndStates] /\ st'[e] = t /\ st'[f] = st[f]
      /\ data' \in [Ends -> 0 .. MaxData] /\ data'[e] = n /\ data'[f] = data[f]
      /\ got' \in [Ends -> Nat] /\ got'[e] = g /\ got'[f] = got[f]
  BY <1>2, <1>4, <1>5, <1>6
<1>10. wire' \in [Ends -> Seq(Messages)] /\ wire'[e] = wire[e] \o s.out /\ wire'[f] = v
  <2>. DEFINE W == Seq(Messages)  o == wire[e] \o s.out
  <2>1. /\ wire \in [Ends -> W] /\ o \in W /\ v \in W
        /\ wire' = [wire EXCEPT ![f] = v, ![e] = o]
    BY <1>5, <1>6, <1>8
  <2>. HIDE DEF W, o
  <2>2. wire'[e] = o /\ wire'[f] = v
    BY <2>1, <1>4
  <2>3. \A h \in Ends : wire'[h] \in W
    BY <2>1, <2>2, <1>4
  <2>4. wire' = [h \in Ends |-> wire'[h]]
    BY <2>1
  <2>. QED BY <2>2, <2>3, <2>4 DEF W, o
<1>11. Path(f, wire'[f], ReadTo(st'[e], got'[e]), SentTo(st'[f], data'[f]))
  BY <1>3, <1>9, <1>10 DEF f
<1>12. Path(e, wire'[e], ReadTo(st'[f], got'[f]), SentTo(st'[e], data'[e]))
  BY <1>8, <1>9, <1>10
<1>13. ASSUME NEW h \in Ends
       PROVE  /\ EndOK(h, st'[h], data'[h]) /\ st'[h].out = <<>>
              /\ Path(h, wire'[h], ReadTo(st'[Peer(h)], got'[Peer(h)]), SentTo(st'[h], data'[h]))
  <2>1. CASE h = e
    BY <2>1, <1>2, <1>3, <1>9, <1>12 DEF f
  <2>2. CASE h = f
    BY <2>2, <1>4, <1>7, <1>9, <1>11
  <2>. QED BY <2>1, <2>2, <1>4
<1>. QED BY <1>9, <1>10, <1>13 DEF TInv, Messages

LEMMA TInvInit == Init => TInv
<1>. SUFFICES ASSUME Init PROVE TInv
  OBVIOUS
<1>1. KeyNo(0) = <<0, 0>> /\ <<0, 0>> \in Keys /\ NoKey \in Keys
  BY DEF KeyNo, Keys, NoKey
<1>2. <<>> \in Seq(Packets) /\ <<>> \in Seq([pkt : Packets, key : Keys]) /\ Len(<<>>) = 0
  BY EmptySeq
<1>3. New \in EndStates
  BY <1>1, <1>2 DEF New, EndStates, KexMessages, Errors, Modes
<1>4. /\ New.err = "none" /\ New.out = <<>> /\ New.queue = <<>> /\ New.handler = {"KEXINIT"}
      /\ New.key["in"] = KeyNo(0) /\ New.key["out"] = KeyNo(0) /\ ~New.rekeying /\ New.done
      /\ ~New.sent /\ New.my = 0 /\ New.peer = -1
  BY <1>1 DEF New
<1>5. ASSUME NEW e \in Ends
      PROVE  EndOK(e, New, 0)
  <2>1. Station(e, New, 0)
    BY <1>4 DEF Station, AtRest, Resting
  <2>2. Queued(New.queue, 0)
    BY <1>2, <1>4 DEF Queued
  <2>. QED BY <2>1, <2>2, <1>3, <1>4 DEF EndOK
<1>6. ReadTo(New, 0) = Place(0, 0, 0) /\ SentTo(New, 0) = Place(0, 0, 0)
  <2>1. KeyNo(0)[1] = 0
    BY PacketTypes
  <2>2. SentTo(New, 0) = SentAt(New, 0)
    BY <1>2, <1>4 DEF SentTo
  <2>. QED BY <2>1, <2>2, <1>4 DEF ReadTo, SentAt
<1>7. Place(0, 0, 0) \in Places
  BY DEF Place, Places
<1>8. \A e \in Ends : Path(e, <<>>, ReadTo(New, 0), SentTo(New, 0))
  BY <1>6, <1>7, PathEmpty
<1>9. /\ st = [e \in Ends |-> New] /\ wire = [e \in Ends |-> <<>>] /\ data = [e \in Ends |-> 0]
      /\ got = [e \in Ends |-> 0] /\ lates = 0
  BY DEF Init
<1>10. ASSUME NEW e \in Ends
       PROVE  /\ EndOK(e, st[e], data[e]) /\ st[e].out = <<>>
              /\ Path(e, wire[e], ReadTo(st[Peer(e)], got[Peer(e)]), SentTo(st[e], data[e]))
  <2>1. st[e] = New /\ st[Peer(e)] = New /\ data[e] = 0 /\ wire[e] = <<>> /\ got[Peer(e)] = 0
    BY <1>9, Peers
  <2>. QED BY <2>1, <1>4, <1>5, <1>8
<1>. QED BY <1>2, <1>3, <1>9, <1>10, TransportAssumption DEF TInv

LEMMA ReadKeeps ==
    ASSUME TInv, NEW e \in Ends, Read(e)
    PROVE  TInv'
<1>. DEFINE f == Peer(e)  m == Head(wire[f])  r == ssh_packet_read_poll2(st[e], m)
            s == IF r.err = "none" THEN Dispatch(r, e, m.pkt) ELSE r
            a == SentTo(st[e], data[e])  n == data[e]
            g == IF m.pkt.type = "DATA" THEN got[e] + 1 ELSE got[e]
<1>1. /\ wire[f] # <<>> /\ Commit(e, s)
      /\ wire' = [wire EXCEPT ![f] = Tail(@), ![e] = @ \o s.out]
      /\ got' = IF m.pkt.type = "DATA" /\ r.err = "none" THEN [got EXCEPT ![e] = @ + 1] ELSE got
      /\ data' = data /\ lates' = lates
  BY DEF Read
<1>2. f \in Ends /\ f # e /\ Peer(f) = e
  BY Peers
<1>3. n \in 0 .. MaxData /\ n \in Nat /\ got[e] \in Nat /\ Sends(e, st[e], n, a)
  BY EndOf
<1>4. /\ wire[f] \in Seq(Messages)
      /\ Path(f, wire[f], ReadTo(st[e], got[e]), SentTo(st[f], data[f]))
  BY <1>2, EndOf
<1>5. PICK k \in Nat : Station(e, st[e], k)
  BY <1>3 DEF Sends, EndOK
<1>. HIDE DEF n, a, f
<1>6. PICK c \in Places : Leads(f, ReadTo(st[e], got[e]), m, c)
                          /\ Path(f, Tail(wire[f]), c, SentTo(st[f], data[f]))
  BY <1>1, <1>4, PathTail
<1>7. Tail(wire[f]) \in Seq(Messages)
  BY <1>1, <1>4, HeadTailProperties
<1>. HIDE DEF m
<1>8. m.key = KeyNo(k)
  <2>1. st[e].key["in"] = KeyNo(k) /\ KeyNo(k)[1] = k
    BY <1>5, PacketTypes DEF Station
  <2>2. ReadTo(st[e], got[e]).k = k
    BY <2>1 DEF ReadTo, Place
  <2>. QED BY <2>2, <1>6 DEF Leads
<1>9. Sends(e, r, n, a) /\ Station(e, r, k) /\ r.handler = st[e].handler
  BY <1>3, <1>5, <1>8, Polled
<1>10. r.err = "none" /\ ReadTo(r, got[e]) = ReadTo(st[e], got[e])
  <2>1. r.key["in"] = st[e].key["in"]
    BY <1>5, <1>9 DEF Station
  <2>. QED BY <2>1, <1>9 DEF ReadTo, Sends, EndOK
<1>. HIDE DEF r
<1>11. s = Dispatch(r, e, m.pkt)
  BY <1>10
<1>12. Leads(Peer(e), ReadTo(r, got[e]), m, c)
  BY <1>6, <1>10 DEF f
<1>13. Sends(e, s, n, a) /\ ReadTo(s, g) = c
  BY <1>3, <1>9, <1>11, <1>12, Dispatched
<1>. HIDE DEF s
<1>14. g \in Nat
  BY <1>3
<1>15. got \in [Ends -> Nat] /\ data \in [Ends -> 0 .. MaxData] /\ lates \in 0 .. MaxLate
       /\ wire \in [Ends -> Seq(Messages)]
  BY DEF TInv, Messages
<1>16. got' = [got EXCEPT ![e] = g] /\ data' = [data EXCEPT ![e] = n]
       /\ wire' = [wire EXCEPT ![f] = Tail(wire[f]), ![e] = @ \o s.out]
  <2>1. got' = [got EXCEPT ![e] = g]
    BY <1>1, <1>10, <1>15
  <2>2. data' = [data EXCEPT ![e] = n]
    BY <1>1, <1>15 DEF n
  <2>3. wire' = [wire EXCEPT ![f] = Tail(wire[f]), ![e] = @ \o s.out]
    BY <1>1, <1>2, <1>15
  <2>. QED BY <2>1, <2>2, <2>3
<1>17. Path(Peer(e), Tail(wire[f]), ReadTo(s, g), SentTo(st[Peer(e)], data[Peer(e)]))
  BY <1>6, <1>13 DEF f
<1>. HIDE DEF g
<1>. QED BY <1>1, <1>3, <1>7, <1>13, <1>14, <1>15, <1>16, <1>17, Committed DEF a, f

LEMMA SendKeeps ==
    ASSUME TInv, NEW e \in Ends, Send(e)
    PROVE  TInv'
<1>. DEFINE n == data[e]  s == ssh_packet_send2(st[e], Packet("DATA", n + 1))
            a == SentTo(st[e], data[e])  f == Peer(e)
<1>1. /\ n < MaxData /\ Commit(e, s) /\ wire' = [wire EXCEPT ![e] = @ \o s.out]
      /\ data' = [data EXCEPT ![e] = @ + 1] /\ got' = got /\ lates' = lates
  BY DEF Send
<1>2. f \in Ends /\ f # e
  BY Peers
<1>3. n \in 0 .. MaxData /\ n \in Nat /\ got[e] \in Nat /\ Sends(e, st[e], n, a)
  BY EndOf
<1>4. wire[f] \in Seq(Messages) /\ Path(f, wire[f], ReadTo(st[e], got[e]), SentTo(st[f], data[f]))
  BY <1>2, EndOf, Peers
<1>5. Sends(e, s, n + 1, a) /\ ReadTo(s, n) = ReadTo(st[e], n)
  BY <1>3, DataSent
<1>6. ReadTo(s, got[e]) = ReadTo(st[e], got[e])
  BY <1>5 DEF ReadTo, Place
<1>7. n + 1 \in 0 .. MaxData
  BY <1>1, <1>3, TransportAssumption
<1>8. got \in [Ends -> Nat] /\ data \in [Ends -> 0 .. MaxData] /\ lates \in 0 .. MaxLate
      /\ wire \in [Ends -> Seq(Messages)]
  BY DEF TInv, Messages
<1>. HIDE DEF s
<1>9. got' = [got EXCEPT ![e] = got[e]] /\ data' = [data EXCEPT ![e] = n + 1]
      /\ wire' = [wire EXCEPT ![f] = wire[f], ![e] = @ \o s.out]
  BY <1>1, <1>2, <1>8
<1>10. Path(Peer(e), wire[f], ReadTo(s, got[e]), SentTo(st[Peer(e)], data[Peer(e)]))
  BY <1>4, <1>6
<1>. HIDE DEF n
<1>. QED BY <1>1, <1>3, <1>4, <1>5, <1>7, <1>8, <1>9, <1>10, Committed

LEMMA LateKeeps ==
    ASSUME TInv, NEW e \in Ends, Late(e)
    PROVE  TInv'
<1>. DEFINE n == data[e]  s == [st[e] EXCEPT !.late = TRUE]
            a == SentTo(st[e], data[e])  f == Peer(e)
<1>1. /\ st' = [st EXCEPT ![e].late = TRUE] /\ wire' = wire /\ data' = data /\ got' = got
      /\ lates' = lates + 1 /\ lates < MaxLate
  BY DEF Late
<1>2. f \in Ends /\ f # e
  BY Peers
<1>3. /\ n \in 0 .. MaxData /\ n \in Nat /\ got[e] \in Nat /\ Sends(e, st[e], n, a)
      /\ st[e] \in EndStates /\ st[e].out = <<>> /\ wire[e] \in Seq(Messages)
  BY EndOf
<1>4. wire[f] \in Seq(Messages) /\ Path(f, wire[f], ReadTo(st[e], got[e]), SentTo(st[f], data[f]))
  BY <1>2, EndOf, Peers
<1>5. /\ s \in EndStates /\ s.out = st[e].out /\ s.rekeying = st[e].rekeying
      /\ s.done = st[e].done /\ s.sent = st[e].sent /\ s.my = st[e].my /\ s.peer = st[e].peer
      /\ s.new = st[e].new /\ s.key = st[e].key /\ s.queue = st[e].queue
      /\ s.handler = st[e].handler /\ s.err = st[e].err
  BY <1>3 DEF EndStates
<1>6. got \in [Ends -> Nat] /\ data \in [Ends -> 0 .. MaxData] /\ lates \in 0 .. MaxLate
      /\ wire \in [Ends -> Seq(Messages)] /\ st \in [Ends -> EndStates]
  BY DEF TInv, Messages
<1>7. Commit(e, s)
  <2>1. [s EXCEPT !.out = <<>>] = s
    BY <1>3, <1>5 DEF EndStates
  <2>. QED BY <2>1, <1>1, <1>6 DEF Commit
<1>. HIDE DEF s
<1>8. PICK k \in Nat : Station(e, st[e], k)
  BY <1>3 DEF Sends, EndOK
<1>9. Station(e, s, k)
  BY <1>5, <1>8 DEF Station, AtRest, Resting, Begun, Agreed, Switched
<1>10. Sends(e, s, n, a) /\ ReadTo(s, got[e]) = ReadTo(st[e], got[e])
  BY <1>3, <1>5, <1>9 DEF Sends, EndOK, SentTo, SentAt, ReadTo
<1>11. got' = [got EXCEPT ![e] = got[e]] /\ data' = [data EXCEPT ![e] = n]
       /\ wire' = [wire EXCEPT ![f] = wire[f], ![e] = @ \o s.out]
  <2>1. wire[e] \o s.out = wire[e]
    BY <1>3, <1>5, ConcatEmptySeq
  <2>. QED BY <2>1, <1>1, <1>2, <1>6
<1>12. Path(Peer(e), wire[f], ReadTo(s, got[e]), SentTo(st[Peer(e)], data[Peer(e)]))
  BY <1>4, <1>10
<1>13. lates' \in 0 .. MaxLate
  BY <1>1, <1>6, TransportAssumption
<1>. HIDE DEF n
<1>. QED BY <1>3, <1>4, <1>7, <1>10, <1>11, <1>12, <1>13, Committed

LEMMA ManualKeeps ==
    ASSUME TInv, Manual
    PROVE  TInv'
<1>. DEFINE e == "client"  n == data[e]  s == kex_start_rekex(st[e])
            a == SentTo(st[e], data[e])  f == Peer(e)
<1>1. /\ ~ssh_packet_is_rekeying(st[e]) /\ Commit(e, s) /\ wire' = [wire EXCEPT ![e] = @ \o s.out]
      /\ data' = data /\ got' = got /\ lates' = lates + 1 /\ lates < MaxLate
  BY DEF Manual
<1>e. e \in Ends
  BY DEF Ends
<1>. HIDE DEF e
<1>2. f \in Ends /\ f # e
  BY <1>e, Peers
<1>3. /\ n \in 0 .. MaxData /\ n \in Nat /\ got[e] \in Nat /\ Sends(e, st[e], n, a)
      /\ st[e] \in EndStates
  BY <1>e, EndOf
<1>4. wire[f] \in Seq(Messages) /\ Path(f, wire[f], ReadTo(st[e], got[e]), SentTo(st[f], data[f]))
  BY <1>e, <1>2, EndOf, Peers
<1>5. PICK k \in Nat : Station(e, st[e], k)
  BY <1>3 DEF Sends, EndOK
<1>6. Resting(st[e], k) /\ st[e].key["in"] = KeyNo(k)
  BY <1>1, <1>5 DEF ssh_packet_is_rekeying, Station, AtRest, Begun, Agreed, Switched
<1>7. st[e].err = "none" /\ Queued(st[e].queue, n) /\ Path(e, st[e].out, a, SentTo(st[e], n))
  BY <1>3 DEF Sends, EndOK
<1>8. Sends(e, s, n, a) /\ s.key = st[e].key /\ s.handler = st[e].handler
  <2>. HIDE DEF n, a
  <2>. QED BY <1>3, <1>6, <1>7, ExchangeBegins
<1>. HIDE DEF s
<1>9. ReadTo(s, got[e]) = ReadTo(st[e], got[e])
  BY <1>8 DEF ReadTo
<1>10. got \in [Ends -> Nat] /\ data \in [Ends -> 0 .. MaxData] /\ lates \in 0 .. MaxLate
       /\ wire \in [Ends -> Seq(Messages)]
  BY DEF TInv, Messages
<1>11. got' = [got EXCEPT ![e] = got[e]] /\ data' = [data EXCEPT ![e] = n]
       /\ wire' = [wire EXCEPT ![f] = wire[f], ![e] = @ \o s.out]
  BY <1>1, <1>2, <1>10
<1>12. Path(Peer(e), wire[f], ReadTo(s, got[e]), SentTo(st[Peer(e)], data[Peer(e)]))
  BY <1>4, <1>9
<1>13. lates' \in 0 .. MaxLate
  BY <1>1, <1>10, TransportAssumption
<1>. HIDE DEF n
<1>. QED BY <1>e, <1>1, <1>3, <1>4, <1>8, <1>11, <1>12, <1>13, Committed

LEMMA TInvStutter == TInv /\ UNCHANGED vars => TInv'
<1>. SUFFICES ASSUME TInv, UNCHANGED vars PROVE TInv'
  OBVIOUS
<1>1. st' = st /\ wire' = wire /\ data' = data /\ got' = got /\ lates' = lates
  BY DEF vars
<1>. QED BY <1>1 DEF TInv

\* The invariant holds in every state of the program.
THEOREM TInvariant == Spec => []TInv
<1>1. TInv /\ [Next]_vars => TInv'
  <2>. SUFFICES ASSUME TInv, [Next]_vars PROVE TInv'
    OBVIOUS
  <2>1. CASE Manual
    BY <2>1, ManualKeeps
  <2>2. CASE \E e \in Ends : Read(e) \/ Send(e) \/ Late(e)
    BY <2>2, ReadKeeps, SendKeeps, LateKeeps
  <2>3. CASE UNCHANGED vars
    BY <2>3, TInvStutter
  <2>. QED BY <2>1, <2>2, <2>3 DEF Next
<1>. QED BY <1>1, TInvInit, PTL DEF Spec

----------------------------------------------------------------------------
(* The properties *)

\* The types of TransportTypeOK: an end is at one of the stations, and it has got no
\* more than the other was handed.
THEOREM TransportTypes == Spec => []TransportTypeOK
<1>1. TInv => TransportTypeOK
  <2>. SUFFICES ASSUME TInv PROVE TransportTypeOK
    OBVIOUS
  <2>1. ASSUME NEW e \in Ends
        PROVE  LET s == st[e]
               IN  /\ s.rekeying \in BOOLEAN /\ s.done \in BOOLEAN /\ s.late \in BOOLEAN
                   /\ s.my \in Nat /\ s.peer \in Int /\ s.sent = ~s.done
                   /\ s.new \in [{"in", "out"} -> Keys] /\ s.key \in [{"in", "out"} -> Keys]
                   /\ s.blocks \in [{"in", "out"} -> Nat]
                   /\ s.queue \in Seq(Packets) /\ s.out = <<>>
                   /\ s.handler \subseteq {"KEXINIT", "INIT", "REPLY", "NEWKEYS"}
    <3>1. st[e] \in EndStates /\ st[e].out = <<>>
      BY EndOf
    <3>2. st[e].sent = ~st[e].done
      <4>1. PICK k \in Nat : Station(e, st[e], k)
        BY EndOf DEF EndOK
      <4>2. st[e].sent \in BOOLEAN /\ st[e].done \in BOOLEAN
        BY <3>1 DEF EndStates
      <4>. QED BY <4>1, <4>2 DEF Station, AtRest, Resting, Begun, Agreed, Switched
    <3>. QED BY <3>1, <3>2 DEF EndStates, Modes, KexMessages
  <2>2. ASSUME NEW e \in Ends
        PROVE  got[e] \in 0 .. MaxData
    <3>. DEFINE f == Peer(e)  a == ReadTo(st[e], got[e])  b == SentTo(st[f], data[f])
    <3>1. f \in Ends /\ Peer(f) = e
      BY Peers
    <3>2. Path(f, wire[f], a, b) /\ wire[f] \in Seq(Messages) /\ data[f] \in 0 .. MaxData
          /\ st[f] \in EndStates /\ got[e] \in Nat
      BY <3>1, EndOf
    <3>3. a.d <= b.d
      BY <3>2, PathForward
    <3>4. a.d = got[e] /\ b.d = data[f] - Len(st[f].queue)
      BY DEF ReadTo, SentTo, SentAt, Place
    <3>5. Len(st[f].queue) \in Nat
      BY <3>2, FieldTypes
    <3>. HIDE DEF a, b, f
    <3>. QED BY <3>2, <3>3, <3>4, <3>5, TransportAssumption
  <2>3. got \in [Ends -> Nat]
    BY DEF TInv
  <2>4. got \in [Ends -> 0 .. MaxData]
    BY <2>2, <2>3
  <2>5. /\ wire \in [Ends -> Seq([pkt : Packets, key : Keys])]
        /\ data \in [Ends -> 0 .. MaxData] /\ lates \in 0 .. MaxLate
    BY DEF TInv
  <2>. QED BY <2>1, <2>4, <2>5 DEF TransportTypeOK
<1>. QED BY <1>1, TInvariant, PTL

\* Every packet is read with the key it was sent with (ReadsWithItsKey): it leads
\* from the place the reader has come to.
THEOREM ReadWithItsKey == Spec => []ReadsWithItsKey
<1>1. TInv => ReadsWithItsKey
  <2>. SUFFICES ASSUME TInv, NEW e \in Ends, wire[e] # <<>>
                PROVE  Head(wire[e]).key = st[Peer(e)].key.in
    BY DEF ReadsWithItsKey
  <2>. DEFINE f == Peer(e)
  <2>1. f \in Ends
    BY Peers
  <2>2. Path(e, wire[e], ReadTo(st[f], got[f]), SentTo(st[e], data[e])) /\ wire[e] \in Seq(Messages)
    BY EndOf
  <2>3. PICK c \in Places : Leads(e, ReadTo(st[f], got[f]), Head(wire[e]), c)
    BY <2>2, PathTail
  <2>4. PICK k \in Nat : Station(f, st[f], k)
    BY <2>1, EndOf DEF EndOK
  <2>5. st[f].key["in"] = KeyNo(k) /\ KeyNo(k)[1] = k
    BY <2>4, PacketTypes DEF Station
  <2>. QED BY <2>3, <2>5 DEF Leads, ReadTo, Place
<1>. QED BY <1>1, TInvariant, PTL

\* No end meets a message it does not wait for, a signature over other cookies or an
\* exchange within one (ExchangesInStep).
THEOREM InStep == Spec => []ExchangesInStep
<1>1. TInv => ExchangesInStep
  BY DEF TInv, EndOK, ExchangesInStep
<1>. QED BY <1>1, TInvariant, PTL

----------------------------------------------------------------------------
(* What the connection carries *)

\* A non-empty set of numbers has a least one.
LEMMA Least ==
    ASSUME NEW T, T \subseteq Nat, T # {}
    PROVE  \E x \in T : \A y \in T : x <= y
<1>. DEFINE R == OpToRel(<, Nat)
<1>1. IsWellFoundedOn(R, Nat)
  BY NatLessThanWellFounded
<1>2. \A x, y \in Nat : x < y => <<x, y>> \in R
  BY DEF OpToRel
<1>. HIDE DEF R
<1>3. PICK x \in T : \A y \in T : ~ (<<y, x>> \in R)
  BY <1>1, WFMin
<1>4. \A y \in T : ~(y < x)
  BY <1>2, <1>3
<1>. QED BY <1>4

\* Induction up to n, over a set.
LEMMA UpTo ==
    ASSUME NEW n \in Nat, NEW B, 0 \in B, \A i \in 1 .. n : i - 1 \in B => i \in B
    PROVE  \A i \in 0 .. n : i \in B
<1>. DEFINE T == (0 .. n) \ B
<1>1. CASE T = {}
  BY <1>1
<1>2. CASE T # {}
  <2>1. T \subseteq Nat
    OBVIOUS
  <2>. HIDE DEF T
  <2>2. PICK x \in T : \A y \in T : x <= y
    BY <1>2, <2>1, Least
  <2>. USE DEF T
  <2>3. x \in 1 .. n /\ x \notin B
    BY <2>2
  <2>4. x - 1 \in 0 .. n /\ ~(x <= x - 1)
    BY <2>3
  <2>. QED BY <2>2, <2>3, <2>4
<1>. QED BY <1>1, <1>2

\* The numbers after x up to y.
Numbers(x, y) == [j \in 1 .. y - x |-> x + j]

LEMMA NumbersGrow ==
    ASSUME NEW x \in Nat, NEW y \in Nat, x <= y
    PROVE  /\ Numbers(x, y) \in Seq(Nat) /\ Len(Numbers(x, y)) = y - x
           /\ Numbers(x, y + 1) = Append(Numbers(x, y), y + 1)
           /\ Numbers(x, x) = <<>>
<1>. DEFINE k == y - x
<1>1. k \in Nat /\ y = x + k /\ (y + 1) - x = k + 1 /\ x - x = 0
  OBVIOUS
<1>. HIDE DEF k
<1>2. Numbers(x, y) \in Seq(Nat) /\ Len(Numbers(x, y)) = k
  BY <1>1 DEF Numbers, k
<1>3. Numbers(x, x) = <<>>
  BY <1>1 DEF Numbers
<1>4. Numbers(x, y + 1) = Append(Numbers(x, y), y + 1)
  <2>. DEFINE v == Numbers(x, y + 1)  w == Append(Numbers(x, y), y + 1)
  <2>1. v \in Seq(Nat) /\ Len(v) = k + 1
    BY <1>1 DEF Numbers
  <2>2. w \in Seq(Nat) /\ Len(w) = k + 1
    BY <1>1, <1>2, AppendProperties
  <2>3. ASSUME NEW i \in 1 .. k + 1
        PROVE  v[i] = w[i]
    <3>1. v[i] = x + i
      BY <1>1 DEF Numbers
    <3>2. CASE i = k + 1
      BY <3>1, <3>2, <1>1, <1>2, AppendProperties
    <3>3. CASE i # k + 1
      <4>1. i \in 1 .. k
        BY <3>3, <1>1
      <4>2. w[i] = Numbers(x, y)[i]
        BY <4>1, <1>2, AppendProperties
      <4>3. Numbers(x, y)[i] = x + i
        BY <4>1, <1>1 DEF Numbers, k
      <4>. QED BY <3>1, <4>2, <4>3
    <3>. QED BY <3>2, <3>3
  <2>. HIDE DEF v, w
  <2>4. v = w
    BY <2>1, <2>2, <2>3, SeqEqual
  <2>. QED BY <2>4 DEF v, w
<1>. QED BY <1>2, <1>3, <1>4 DEF k

\* The session packets of a path are those between its ends.
LEMMA DataOfPath ==
    ASSUME NEW e, NEW a, NEW b, NEW w \in Seq(Messages), Path(e, w, a, b)
    PROVE  DataOf(w) = Numbers(a.d, b.d)
<1>1. PICK p \in [0 .. Len(w) -> Places] :
         /\ p[0] = a /\ p[Len(w)] = b
         /\ \A i \in 1 .. Len(w) : Leads(e, p[i - 1], w[i], p[i]) /\ p[i - 1].d <= b.d
  BY DEF Path
<1>2. PICK n \in Nat : Len(w) = n
  BY LenProperties
<1>3. \A i \in 0 .. n : p[i].d \in Nat
  BY <1>1, <1>2 DEF Places
<1>4. ASSUME NEW i \in 1 .. n
      PROVE  \/ w[i].pkt.type = "DATA" /\ w[i].pkt.n = p[i - 1].d + 1 /\ p[i].d = p[i - 1].d + 1
             \/ w[i].pkt.type # "DATA" /\ p[i].d = p[i - 1].d
  <2>1. Leads(e, p[i - 1], w[i], p[i])
    BY <1>1, <1>2
  <2>2. Second(e, p[i - 1].k + 1).type # "DATA"
    BY PacketTypes
  <2>. QED BY <2>1, <2>2 DEF Leads, Packet, Place
<1>5. \A i \in 0 .. n : a.d <= p[i].d
  <2>. DEFINE B == {i \in 0 .. n : a.d <= p[i].d}
  <2>1. 0 \in B
    BY <1>1, <1>2, <1>3
  <2>2. ASSUME NEW i \in 1 .. n, i - 1 \in B
        PROVE  i \in B
    <3>1. a.d \in Nat /\ p[i].d \in Nat /\ p[i - 1].d \in Nat /\ a.d <= p[i - 1].d
      BY <2>2, <1>1, <1>2, <1>3
    <3>. QED BY <3>1, <1>4
  <2>. HIDE DEF B
  <2>3. \A i \in 0 .. n : i \in B
    BY <2>1, <2>2, UpTo
  <2>. QED BY <2>3 DEF B
<1>. DEFINE Step(g) == [i \in 0 .. Len(w) |->
                          IF i = 0 THEN <<>>
                          ELSE IF w[i].pkt.type = "DATA" THEN Append(g[i - 1], w[i].pkt.n) ELSE g[i - 1]]
            h == [i \in 0 .. n |-> Numbers(a.d, p[i].d)]
            f == CHOOSE g : g = Step(g)
<1>6. h = Step(h)
  <2>1. h[0] = <<>>
    <3>1. a.d \in Nat /\ 0 \in 0 .. n /\ p[0].d = a.d
      BY <1>1, <1>3
    <3>2. \A x \in Nat : x <= x /\ Numbers(x, x) = <<>>
      BY NumbersGrow
    <3>. QED BY <3>1, <3>2
  <2>2. ASSUME NEW i \in 1 .. n
        PROVE  h[i] = IF w[i].pkt.type = "DATA" THEN Append(h[i - 1], w[i].pkt.n) ELSE h[i - 1]
    <3>1. /\ i - 1 \in 0 .. n /\ i \in 0 .. n /\ a.d \in Nat /\ p[i - 1].d \in Nat
          /\ a.d <= p[i - 1].d
      BY <1>1, <1>2, <1>3, <1>5
    <3>2. h[i] = Numbers(a.d, p[i].d) /\ h[i - 1] = Numbers(a.d, p[i - 1].d)
      BY <3>1
    <3>3. Numbers(a.d, p[i - 1].d + 1) = Append(Numbers(a.d, p[i - 1].d), p[i - 1].d + 1)
      BY <3>1, NumbersGrow
    <3>. QED BY <3>2, <3>3, <1>4
  <2>3. \A i \in 0 .. n : h[i] = IF i = 0 THEN <<>>
           ELSE IF w[i].pkt.type = "DATA" THEN Append(h[i - 1], w[i].pkt.n) ELSE h[i - 1]
    <3>. HIDE DEF h
    <3>. QED BY <2>1, <2>2
  <2>4. h = [i \in 0 .. n |-> h[i]]
    OBVIOUS
  <2>. HIDE DEF h
  <2>. QED BY <2>3, <2>4, <1>2
<1>. HIDE DEF h
<1>7. f = Step(f)
  BY <1>6
<1>8. DataOf(w) = f[n]
  BY <1>2 DEF DataOf
<1>. HIDE DEF f
<1>9. \A i \in 0 .. n : f[i] = h[i]
  <2>. DEFINE B == {i \in 0 .. n : f[i] = h[i]}
  <2>1. 0 \in B
    <3>1. 0 \in 0 .. n /\ 0 \in 0 .. Len(w)
      BY <1>2
    <3>2. \A g : g = Step(g) => g[0] = <<>>
      BY <3>1
    <3>. HIDE DEF Step
    <3>3. f[0] = <<>> /\ h[0] = <<>>
      BY <3>2, <1>6, <1>7
    <3>. QED BY <3>1, <3>3
  <2>2. ASSUME NEW i \in 1 .. n, i - 1 \in B
        PROVE  i \in B
    <3>1. f[i - 1] = h[i - 1] /\ i \in 0 .. n /\ i # 0
      BY <2>2
    <3>2. f[i] = IF w[i].pkt.type = "DATA" THEN Append(f[i - 1], w[i].pkt.n) ELSE f[i - 1]
      BY <3>1, <1>2, <1>7
    <3>3. h[i] = IF w[i].pkt.type = "DATA" THEN Append(h[i - 1], w[i].pkt.n) ELSE h[i - 1]
      BY <3>1, <1>2, <1>6
    <3>. QED BY <3>1, <3>2, <3>3
  <2>. HIDE DEF B
  <2>3. \A i \in 0 .. n : i \in B
    BY <2>1, <2>2, UpTo
  <2>. QED BY <2>3 DEF B
<1>10. h[n] = Numbers(a.d, b.d)
  BY <1>1, <1>2 DEF h
<1>. QED BY <1>8, <1>9, <1>10

\* The first number is taken.
LEMMA NumbersShrink ==
    ASSUME NEW x \in Nat, NEW y \in Nat, x < y
    PROVE  /\ Numbers(x, y) # <<>> /\ Head(Numbers(x, y)) = x + 1
           /\ Tail(Numbers(x, y)) = Numbers(x + 1, y)
<1>. DEFINE v == Numbers(x, y)  w == Numbers(x + 1, y)
<1>1. PICK k \in Nat : y - x = k + 1 /\ y - (x + 1) = k
  <2>1. y - x - 1 \in Nat /\ y - x = (y - x - 1) + 1 /\ y - (x + 1) = y - x - 1
    OBVIOUS
  <2>. QED BY <2>1
<1>2. v = [j \in 1 .. k + 1 |-> x + j] /\ w = [j \in 1 .. k |-> x + 1 + j]
  BY <1>1 DEF Numbers
<1>. HIDE DEF v, w
<1>3. v \in Seq(Nat) /\ Len(v) = k + 1 /\ w \in Seq(Nat) /\ Len(w) = k
  BY <1>2
<1>4. v # <<>>
  BY <1>3, EmptySeq
<1>5. /\ Head(v) = v[1] /\ Tail(v) \in Seq(Nat) /\ Len(Tail(v)) = Len(v) - 1
      /\ \A i \in 1 .. Len(Tail(v)) : Tail(v)[i] = v[i + 1]
  BY <1>3, <1>4, HeadTailProperties
<1>6. Len(Tail(v)) = k
  BY <1>3, <1>5
<1>7. ASSUME NEW i \in 1 .. k
      PROVE  Tail(v)[i] = w[i]
  <2>1. Tail(v)[i] = v[i + 1] /\ i + 1 \in 1 .. k + 1
    BY <1>5, <1>6
  <2>2. x + (i + 1) = x + 1 + i
    OBVIOUS
  <2>. QED BY <2>1, <2>2, <1>2
<1>8. Tail(v) = w
  BY <1>3, <1>5, <1>6, <1>7, SeqEqual
<1>9. v[1] = x + 1
  BY <1>2
<1>. QED BY <1>4, <1>5, <1>8, <1>9 DEF v, w

\* On the connection and in the queue are the packets that were handed over and not
\* yet got, in their order.
LEMMA OnItsWay ==
    ASSUME NEW e, NEW w \in Seq(Messages), NEW s, NEW n \in Nat, NEW r, NEW g \in Nat,
           EndOK(e, s, n), Path(e, w, ReadTo(r, g), SentTo(s, n))
    PROVE  /\ DataOf(w) \o [i \in 1 .. Len(s.queue) |-> s.queue[i].n] = Numbers(g, n)
           /\ g <= n
<1>. DEFINE a == ReadTo(r, g)  b == SentTo(s, n)
            q == [i \in 1 .. Len(s.queue) |-> s.queue[i].n]
<1>1. PICK l \in Nat : Len(s.queue) = l /\ l <= n
  BY FieldTypes DEF EndOK, Queued
<1>2. a.d = g /\ b.d = n - l
  BY <1>1 DEF ReadTo, SentTo, SentAt, Place
<1>. HIDE DEF a, b
<1>3. DataOf(w) = Numbers(g, n - l) /\ g <= n - l
  <2>1. Path(e, w, a, b)
    BY DEF a, b
  <2>2. DataOf(w) = Numbers(a.d, b.d) /\ a.d <= b.d
    BY <2>1, DataOfPath, PathForward
  <2>. QED BY <2>2, <1>2
<1>4. g <= n /\ n - l \in Nat
  BY <1>1, <1>3
<1>5. q = [i \in 1 .. l |-> n - l + i]
  <2>1. \A i \in 1 .. l : s.queue[i].n = n - l + i
    <3>1. \A i \in 1 .. l : s.queue[i] = Packet("DATA", n - l + i)
      BY <1>1 DEF EndOK, Queued
    <3>2. \A i \in 1 .. l : Packet("DATA", n - l + i).n = n - l + i
      BY DEF Packet
    <3>. QED BY <3>1, <3>2
  <2>. QED BY <1>1, <2>1
<1>. HIDE DEF q
<1>6. q \in Seq(Nat) /\ Len(q) = l
  BY <1>1, <1>4, <1>5
<1>. DEFINE v == Numbers(g, n - l)
<1>7. v \in Seq(Nat) /\ Len(v) = n - l - g
  BY <1>3, <1>4, NumbersGrow
<1>8. Numbers(g, n) \in Seq(Nat) /\ Len(Numbers(g, n)) = n - g
  BY <1>4, NumbersGrow
<1>9. /\ v \o q \in Seq(Nat) /\ Len(v \o q) = Len(v) + Len(q)
      /\ \A i \in 1 .. Len(v) + Len(q) :
            (v \o q)[i] = IF i <= Len(v) THEN v[i] ELSE q[i - Len(v)]
  BY <1>6, <1>7, ConcatProperties
<1>10. PICK k \in Nat : n - l - g = k /\ n - g = k + l /\ n - l = g + k
  BY <1>1, <1>3, <1>4
<1>11. ASSUME NEW i \in 1 .. k + l
       PROVE  (v \o q)[i] = Numbers(g, n)[i]
  <2>1. (v \o q)[i] = IF i <= k THEN v[i] ELSE q[i - k]
    BY <1>6, <1>7, <1>9, <1>10
  <2>2. Numbers(g, n)[i] = g + i
    BY <1>10 DEF Numbers
  <2>3. CASE i <= k
    <3>1. v[i] = g + i
      BY <2>3, <1>10 DEF Numbers
    <3>. QED BY <2>1, <2>2, <2>3, <3>1
  <2>4. CASE ~(i <= k)
    <3>1. i - k \in 1 .. l /\ n - l + (i - k) = g + i
      BY <2>4, <1>10
    <3>2. q[i - k] = g + i
      BY <3>1, <1>5
    <3>. QED BY <2>1, <2>2, <2>4, <3>2
  <2>. QED BY <2>3, <2>4
<1>. HIDE DEF v
<1>12. Len(v \o q) = k + l /\ Len(Numbers(g, n)) = k + l
  BY <1>6, <1>7, <1>8, <1>9, <1>10
<1>13. v \o q = Numbers(g, n)
  BY <1>8, <1>9, <1>11, <1>12, SeqEqual
<1>. QED BY <1>3, <1>4, <1>13 DEF v, q

LEMMA PipeState ==
    ASSUME TInv, NEW e \in Ends
    PROVE  /\ OnTheWay(e) = Numbers(got[Peer(e)], data[e]) /\ got[Peer(e)] <= data[e]
           /\ got[Peer(e)] \in Nat /\ data[e] \in Nat
<1>1. /\ wire[e] \in Seq(Messages) /\ data[e] \in Nat /\ EndOK(e, st[e], data[e])
      /\ Path(e, wire[e], ReadTo(st[Peer(e)], got[Peer(e)]), SentTo(st[e], data[e]))
  BY EndOf
<1>2. got[Peer(e)] \in Nat
  BY EndOf, Peers
<1>3. /\ DataOf(wire[e]) \o [i \in 1 .. Len(st[e].queue) |-> st[e].queue[i].n]
           = Numbers(got[Peer(e)], data[e])
      /\ got[Peer(e)] <= data[e]
  BY <1>1, <1>2, OnItsWay
<1>. QED BY <1>1, <1>2, <1>3 DEF OnTheWay

LEMMA PipeStateNext ==
    ASSUME TInv', NEW e \in Ends
    PROVE  OnTheWay(e)' = Numbers(got'[Peer(e)], data'[e]) /\ got'[Peer(e)] <= data'[e]
<1>1. /\ wire'[e] \in Seq(Messages) /\ EndOK(e, st'[e], data'[e]) /\ data'[e] \in 0 .. MaxData
      /\ Path(e, wire'[e], ReadTo(st'[Peer(e)], got'[Peer(e)]), SentTo(st'[e], data'[e]))
  <2>1. /\ data' \in [Ends -> 0 .. MaxData] /\ wire' \in [Ends -> Seq(Messages)]
    BY DEF TInv, Messages
  <2>2. /\ EndOK(e, st'[e], data'[e])
        /\ Path(e, wire'[e], ReadTo(st'[Peer(e)], got'[Peer(e)]), SentTo(st'[e], data'[e]))
    BY DEF TInv
  <2>. QED BY <2>1, <2>2
<1>2. got'[Peer(e)] \in Nat /\ data'[e] \in Nat
  <2>1. got' \in [Ends -> Nat]
    BY DEF TInv
  <2>. QED BY <2>1, <1>1, Peers, TransportAssumption
<1>. QED BY <1>1, <1>2, OnItsWay DEF OnTheWay

\* The packet layer is the line of Pipe: the session packets of either end arrive in
\* order, and none is lost, repeated or overtaken in any change of keys.
THEOREM IsAPipe == Spec => P!PipeSafe
<1>1. Init => P!PipeInit
  <2>. SUFFICES ASSUME Init PROVE P!PipeInit
    OBVIOUS
  <2>1. TInv
    BY TInvInit
  <2>2. data = [e \in Ends |-> 0] /\ got = [e \in Ends |-> 0]
    BY DEF Init
  <2>3. ASSUME NEW e \in Ends
        PROVE  OnTheWay(e) = <<>> /\ got[Peer(e)] = 0
    <3>1. data[e] = 0 /\ got[Peer(e)] = 0
      BY <2>2, Peers
    <3>2. OnTheWay(e) = Numbers(0, 0)
      BY <2>1, <3>1, PipeState
    <3>. QED BY <3>1, <3>2, NumbersGrow
  <2>. QED BY <2>2, <2>3 DEF P!PipeInit
<1>2. TInv /\ TInv' /\ [Next]_vars => [P!PipeNext]_(P!pipeVars)
  <2>. SUFFICES ASSUME TInv, TInv', [Next]_vars PROVE P!PipeNext \/ UNCHANGED P!pipeVars
    OBVIOUS
  <2>. DEFINE queue == [e \in Ends |-> OnTheWay(e)]
              taken == [e \in Ends |-> got[Peer(e)]]
              queue2 == [e \in Ends |-> OnTheWay(e)']
              taken2 == [e \in Ends |-> got'[Peer(e)]]
  <2>1. /\ \A e \in Ends : queue[e] = Numbers(taken[e], data[e]) /\ taken[e] <= data[e]
        /\ \A e \in Ends : taken[e] \in Nat /\ data[e] \in Nat
    BY PipeState
  <2>2. \A e \in Ends : queue2[e] = Numbers(taken2[e], data'[e]) /\ taken2[e] <= data'[e]
    BY PipeStateNext
  <2>3. data \in [Ends -> 0 .. MaxData] /\ got \in [Ends -> Nat]
    BY DEF TInv
  <2>4. CASE data' = data /\ got' = got
    <3>1. \A e \in Ends : queue2[e] = queue[e] /\ taken2[e] = taken[e]
      BY <2>1, <2>2, <2>4
    <3>. QED BY <3>1, <2>4 DEF P!pipeVars
  <2>5. ASSUME NEW e \in Ends, data' = [data EXCEPT ![e] = @ + 1], got' = got
        PROVE  P!HandOver(e)
    <3>1. \A f \in Ends : taken2[f] = taken[f] /\ (f # e => queue2[f] = queue[f])
      BY <2>1, <2>2, <2>3, <2>5
    <3>2. queue2[e] = Append(queue[e], data[e] + 1)
      <4>1. data'[e] = data[e] + 1
        BY <2>3, <2>5
      <4>2. Numbers(taken[e], data[e] + 1) = Append(Numbers(taken[e], data[e]), data[e] + 1)
        BY <2>1, NumbersGrow
      <4>. QED BY <2>1, <2>2, <3>1, <4>1, <4>2
    <3>3. queue2 = [queue EXCEPT ![e] = Append(queue[e], data[e] + 1)] /\ taken2 = taken
      BY <3>1, <3>2
    <3>. QED BY <3>3, <2>5 DEF P!HandOver
  <2>6. ASSUME NEW f \in Ends, data' = data, got' = [got EXCEPT ![f] = @ + 1]
        PROVE  P!Deliver(Peer(f))
    <3>. DEFINE e == Peer(f)
    <3>1. e \in Ends /\ Peer(e) = f /\ \A h \in Ends : h # e => Peer(h) # f
      BY Peers DEF Ends, Peer
    <3>2. taken2[e] = taken[e] + 1 /\ \A h \in Ends : h # e => taken2[h] = taken[h]
      BY <3>1, <2>3, <2>6, Peers
    <3>3. \A h \in Ends : h # e => queue2[h] = queue[h]
      BY <3>2, <2>1, <2>2, <2>6
    <3>4. queue[e] # <<>> /\ Head(queue[e]) = taken[e] + 1 /\ queue2[e] = Tail(queue[e])
      <4>1. taken[e] + 1 <= data[e] /\ taken[e] \in Nat /\ data[e] \in Nat
        BY <3>1, <3>2, <2>1, <2>2, <2>6
      <4>2. taken[e] < data[e]
        BY <4>1
      <4>3. /\ Numbers(taken[e], data[e]) # <<>> /\ Head(Numbers(taken[e], data[e])) = taken[e] + 1
            /\ Tail(Numbers(taken[e], data[e])) = Numbers(taken[e] + 1, data[e])
        BY <4>1, <4>2, NumbersShrink
      <4>. QED BY <4>3, <3>1, <3>2, <2>1, <2>2, <2>6
    <3>5. queue2 = [queue EXCEPT ![e] = Tail(queue[e])] /\ taken2 = [taken EXCEPT ![e] = taken[e] + 1]
      BY <3>1, <3>2, <3>3, <3>4
    <3>. QED BY <3>1, <3>4, <3>5, <2>6 DEF P!Deliver
  <2>7. CASE Next
    <3>1. CASE Manual
      BY <3>1, <2>4 DEF Manual
    <3>2. ASSUME NEW e \in Ends, Read(e) PROVE P!PipeNext \/ UNCHANGED P!pipeVars
      <4>1. data' = data /\ (got' = got \/ got' = [got EXCEPT ![e] = @ + 1])
        BY <3>2 DEF Read
      <4>2. Peer(e) \in Ends
        BY Peers
      <4>. QED BY <4>1, <4>2, <2>4, <2>6 DEF P!PipeNext
    <3>3. ASSUME NEW e \in Ends, Send(e) PROVE P!PipeNext
      BY <3>3, <2>5 DEF Send, P!PipeNext
    <3>4. ASSUME NEW e \in Ends, Late(e) PROVE P!PipeNext \/ UNCHANGED P!pipeVars
      BY <3>4, <2>4 DEF Late
    <3>. QED BY <2>7, <3>1, <3>2, <3>3, <3>4 DEF Next
  <2>8. CASE UNCHANGED vars
    BY <2>8, <2>4 DEF vars
  <2>. QED BY <2>7, <2>8
<1>. QED BY <1>1, <1>2, TInvariant, PTL DEF Spec, P!PipeSafe
=============================================================================
