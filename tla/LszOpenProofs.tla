--------------------------- MODULE LszOpenProofs ----------------------------
(***************************************************************************)
(* The stream lsz writes is honest whatever the receiver answers: for any  *)
(* batch, block lengths and limits, and any answers at any time.           *)
(***************************************************************************)
EXTENDS LszOpen, SequenceTheorems, TLAPS

-----------------------------------------------------------------------------
(* Items and sequences of items *)

\* A header of any known type is an item (stohdr, zshhdr).
LEMMA HdrIsItem ==
  ASSUME NEW t \in FrameTypes, NEW f \in 0..NFiles, NEW p \in Nat
  PROVE  Hdr(t, f, p) \in Item
  BY DEF Hdr, Item

\* So is a data subpacket (zsdata, zsda32).
LEMMA SubIsItem ==
  ASSUME NEW e \in FrameEnds, NEW f \in 0..NFiles, NEW p \in Nat, NEW n \in Nat
  PROVE  Sub(e, f, p, n) \in Item
  BY DEF Sub, Item

\* canit and saybibi put items on the line.
LEMMA CanitIsItems == Canit \in Seq(Item) /\ Canit \o Canit \in Seq(Item) /\ OO \in Item
  <1>1. Can \in Item /\ OO \in Item
    BY BatchAssumption DEF Can, OO, Item
  <1>2. Canit \in Seq(Item)
    BY <1>1 DEF Canit
  <1> QED BY <1>1, <1>2, ConcatProperties

\* What an item becomes when it is damaged is an item.
LEMMA JunkIsItem == ASSUME NEW f \in 0..NFiles PROVE Junk(f) \in Item
  BY DEF Junk, Item

\* A line is empty exactly when it holds no item.
LEMMA EmptyItems ==
  ASSUME NEW q \in Seq(Item)
  PROVE  Len(q) \in Nat /\ (q = <<>> <=> Len(q) = 0)
  BY EmptySeq, LenProperties

\* Taking the first item off a line that is not empty.
LEMMA TailItems ==
  ASSUME NEW q \in Seq(Item), q # <<>>
  PROVE  /\ Tail(q) \in Seq(Item) /\ Len(Tail(q)) = Len(q) - 1 /\ Len(q) \in Nat \ {0}
         /\ Head(q) = q[1] /\ q[1] \in Item
         /\ \A j \in 1..Len(Tail(q)) : Tail(q)[j] = q[j + 1]
  BY HeadTailProperties, EmptySeq, LenProperties, ElementOfSeq

\* What zgethdr leaves of the line.
LEMMA GetHdrRest ==
  ASSUME NEW q \in Seq(Item), NEW e \in BOOLEAN, NEW r \in ZGetHdr(q, e)
  PROVE  r.pos \in Nat /\ r.rest \in Seq(Item)
<1>1. CASE q = <<>>
  <2>1. r = Outcome("TIMEOUT", 0, <<>>)
    BY <1>1 DEF ZGetHdr, AtEnd, When
  <2>. QED BY <2>1 DEF Outcome
<1>2. CASE q # <<>>
  <2>1. q[1] \in Item /\ Head(q) = q[1] /\ Tail(q) \in Seq(Item) /\ 1 \in 1 .. Len(q)
    BY <1>2, TailItems
  <2>2. Damage(q, 1) \in Seq(Item) /\ q[1].pos \in Nat
    <3>1. Junk(q[1].f) \in Item
      BY <2>1, JunkIsItem DEF Item
    <3>. QED BY <2>1, <3>1, ExceptSeq DEF Damage, Item
  <2>3. r \in {Outcome(q[1].t, q[1].pos, Tail(q)), Outcome("ZCAN", 0, Tail(q)),
               Outcome("scan", 0, Tail(q)), Outcome("MYERROR", 0, Tail(q)),
               Outcome("MYERROR", 0, Damage(q, 1))}
    BY <1>2, <2>1 DEF ZGetHdr, When
  <2>4. \A c, p, w : Outcome(c, p, w).pos = p /\ Outcome(c, p, w).rest = w
    BY DEF Outcome
  <2>5. \E c, p, w : r = Outcome(c, p, w) /\ p \in Nat /\ w \in Seq(Item)
    <3>1. 0 \in Nat
      OBVIOUS
    <3>. QED BY <2>1, <2>2, <2>3, <3>1, Zenon
  <2>. QED BY <2>4, <2>5
<1>. QED BY <1>1, <1>2

-----------------------------------------------------------------------------
(* The sender *)

\* The places before the first byte of the file at hand is sent, and after.
Offering == {"getnak", "rxinit", "rxinitHdr", "zsinit", "zsinitHdr", "zfile", "zfileHdr",
             "zfileDrain"}
Streaming == {"zdata", "block", "waitack", "eof", "eofHdr"}

\* The place p speaks of file n; input_f stands at x, bytes_sent is b, eof_seen e.
InFile(p, n, x, b, e) ==
  /\ p \in Offering => n \in Files /\ x = 0 /\ ~e
  /\ p \in Streaming => n \in Files /\ b = x /\ (e => x >= Size[n])
  /\ p \in {"eof", "eofHdr"} => e

\* The item a is the last one on the line: only in zsendfdata's loop does it leave
\* a frame open, which goes on where input_f stands.
After(p, n, x, a) ==
  /\ Continues(a) <=> p = "block"
  /\ p = "block" => a.f = n /\ EndOf(a) = x
  /\ p \in {"eof", "eofHdr"} /\ a.k = "sub" => EndOf(a) = x

LInv ==
  /\ LszTypeOK /\ last \in Item
  /\ spc = "start" => zrqinits = 0 /\ argn = 1
  /\ InFile(spc, argn, inpos, bytes_sent, eof_seen)
  /\ ~closed => After(spc, argn, inpos, last)

-----------------------------------------------------------------------------
(* What a step puts on the line *)

\* A step of lsz: what it wrote before is taken.
Step ==
  /\ s2r = <<>> /\ answers' = answers
  /\ last' = IF s2r' = <<>> THEN last ELSE s2r'[Len(s2r')]

\* Items that belong to no frame of data.
Plain(v) ==
  /\ v \in Seq(Item)
  /\ v # <<>> => /\ v[1].k # "sub" /\ ~(v[1].k = "hdr" /\ v[1].t = "ZEOF")
                 /\ ~Continues(v[Len(v)])

\* The line after a step that leaves no frame open.
Shut ==
  /\ s2r' \in Seq(Item) /\ last' \in Item /\ HonestStep
  /\ ~closed => ~Continues(last')

\* What is sent is on the line, unless the line is gone.
LEMMA Sends ==
  ASSUME last \in Item, Step, NEW v \in Seq(Item), Send(v)
  PROVE  /\ s2r' \in Seq(Item) /\ last' \in Item
         /\ closed => s2r' = <<>> /\ last' = last
         /\ ~closed => s2r' = v /\ (v # <<>> => last' = v[Len(v)])
                       /\ (v = <<>> => last' = last)
<1>1. s2r' = IF closed THEN <<>> ELSE v
  <2>1. <<>> \o v = v
    BY ConcatEmptySeq
  <2>. QED BY <2>1 DEF Send, Put, Step
<1>2. <<>> \in Seq(Item)
  BY EmptySeq
<1>3. ASSUME v # <<>> PROVE v[Len(v)] \in Item
  <2>1. Len(v) \in 1 .. Len(v)
    BY <1>3, EmptyItems
  <2>. QED BY <2>1, ElementOfSeq
<1>. QED BY <1>1, <1>2, <1>3 DEF Step

\* A step that sends nothing.
LEMMA Silent ==
  ASSUME LInv, Step, s2r' = s2r
  PROVE  /\ s2r' \in Seq(Item) /\ last' = last /\ last' \in Item /\ HonestStep
         /\ ~closed /\ spc # "block" => ~Continues(last')
<1>1. s2r' = <<>> /\ last' = last
  BY DEF Step
<1>. QED BY <1>1 DEF LInv, LszTypeOK, HonestStep, After

\* A step outside zsendfdata's loop that sends plain items.
LEMMA SendsPlain ==
  ASSUME LInv, Step, NEW v, Plain(v), Send(v), spc # "block"
  PROVE  Shut
<1>1. v \in Seq(Item) /\ last \in Item
  BY DEF Plain, LInv
<1>2. /\ s2r' \in Seq(Item) /\ last' \in Item
      /\ closed => s2r' = <<>> /\ last' = last
      /\ ~closed => s2r' = v /\ (v # <<>> => last' = v[Len(v)])
                    /\ (v = <<>> => last' = last)
  BY <1>1, Sends
<1>3. ~closed => ~Continues(last)
  BY DEF LInv, After
<1>4. ~closed => ~Continues(last')
  BY <1>2, <1>3 DEF Plain
<1>5. HonestStep
  <2>. SUFFICES ASSUME s2r' # <<>>
                PROVE  /\ ~Continues(last) /\ s2r'[1].k # "sub"
                       /\ ~(s2r'[1].k = "hdr" /\ s2r'[1].t = "ZEOF")
    BY DEF HonestStep
  <2>. QED BY <1>2, <1>3 DEF Plain
<1>. QED BY <1>2, <1>4, <1>5 DEF Shut

LEMMA PlainHdr ==
  ASSUME NEW t \in FrameTypes \ {"ZDATA", "ZEOF"}, NEW f \in 0 .. NFiles, NEW p \in Nat
  PROVE  Plain(<<Hdr(t, f, p)>>)
<1>. DEFINE a == Hdr(t, f, p)
<1>1. a \in Item
  BY HdrIsItem
<1>2. a.k = "hdr" /\ a.t = t
  BY DEF Hdr
<1>3. ~Continues(a) /\ a.k # "sub" /\ a.t # "ZEOF"
  BY <1>2 DEF Continues
<1>. HIDE DEF a
<1>4. <<a>> \in Seq(Item) /\ Len(<<a>>) = 1 /\ <<a>>[1] = a
  BY <1>1
<1>5. Plain(<<a>>)
  BY <1>3, <1>4 DEF Plain
<1>. QED BY <1>5 DEF a

\* A header with its subpacket (ZSINIT, ZFILE), and "rz" before ZRQINIT.
LEMMA PlainTwo ==
  ASSUME NEW a \in Item, NEW b \in Item, a.k # "sub", ~(a.k = "hdr" /\ a.t = "ZEOF"),
         ~Continues(b)
  PROVE  Plain(<<a, b>>)
<1>1. <<a, b>> \in Seq(Item) /\ Len(<<a, b>>) = 2 /\ <<a, b>>[1] = a /\ <<a, b>>[2] = b
  OBVIOUS
<1>. QED BY <1>1 DEF Plain

\* Two cancels in a row.
LEMMA TwoAndTwo ==
  ASSUME NEW c \in Seq(Item), NEW d \in Seq(Item), Len(c) = 2, Len(d) = 2
  PROVE  Len(c \o d) = 4 /\ (c \o d)[1] = c[1] /\ (c \o d)[4] = d[2]
<1>0. PICK n \in Nat, m \in Nat : Len(c) = n /\ Len(d) = m /\ n = 2 /\ m = 2
  OBVIOUS
<1>1. /\ Len(c \o d) = n + m
      /\ \A i \in 1 .. n + m : (c \o d)[i] = IF i <= n THEN c[i] ELSE d[i - n]
  <2>1. Len(c) = n /\ Len(d) = m
    BY <1>0
  <2>. QED BY ONLY <2>1, ConcatProperties
<1>. QED BY <1>0, <1>1

LEMMA PlainCanit == Plain(Canit) /\ Plain(Canit \o Canit) /\ Plain(<<OO>>) /\ Plain(<<>>)
<1>1. Canit \in Seq(Item) /\ Canit \o Canit \in Seq(Item) /\ OO \in Item
  BY CanitIsItems
<1>2. Can.k = "can" /\ OO.k = "oo"
  BY DEF Can, OO
<1>3. ~Continues(Can) /\ ~Continues(OO)
  BY <1>2 DEF Continues
<1>4. Len(Canit) = 2 /\ Canit[1] = Can /\ Canit[2] = Can
  BY DEF Canit
<1>5. Plain(Canit)
  BY <1>1, <1>2, <1>3, <1>4 DEF Plain
<1>6. Len(Canit \o Canit) = 4 /\ (Canit \o Canit)[1] = Can /\ (Canit \o Canit)[4] = Can
  <2>1. Len(Canit \o Canit) = 4 /\ (Canit \o Canit)[1] = Canit[1] /\ (Canit \o Canit)[4] = Canit[2]
    BY <1>1, <1>4, TwoAndTwo, Zenon
  <2>. QED BY <1>4, <2>1
<1>7. Plain(Canit \o Canit)
  BY <1>1, <1>2, <1>3, <1>6 DEF Plain
<1>8. <<OO>> \in Seq(Item) /\ Len(<<OO>>) = 1 /\ <<OO>>[1] = OO
  BY <1>1
<1>9. Plain(<<OO>>)
  BY <1>2, <1>3, <1>8 DEF Plain
<1>10. Plain(<<>>)
  BY EmptySeq DEF Plain
<1>. QED BY <1>5, <1>7, <1>9, <1>10

-----------------------------------------------------------------------------
(* The actions *)

\* What has to be shown of a step that leaves no frame open.
LEMMA ShutKeeps ==
  ASSUME Shut, closed' = closed, spc' \notin {"start", "block", "eof", "eofHdr"}, LszTypeOK',
         InFile(spc', argn', inpos', bytes_sent', eof_seen')
  PROVE  LInv' /\ HonestStep
<1>1. ~closed' => After(spc', argn', inpos', last')
  BY DEF Shut, After
<1>. QED BY <1>1 DEF Shut, LInv

\* A silent step outside the loop leaves no frame open.
LEMMA SilentIsShut ==
  ASSUME LInv, Step, s2r' = s2r, spc # "block"
  PROVE  Shut
  BY Silent DEF Shut

\* wcsend gives up.
LEMMA Aborts ==
  ASSUME LInv, Step, Abort, spc # "block"
  PROVE  Shut /\ spc' = "exit" /\ sexit' = "incomplete"
  BY PlainCanit, SendsPlain DEF Abort

\* The header lsz reads, and what is left.
LEMMA Reads ==
  ASSUME LInv, NEW r \in ZGetHdr(r2s, closed)
  PROVE  r.pos \in Nat /\ r.rest \in Seq(Item)
  BY GetHdrRest DEF LInv, LszTypeOK

\* A header about the file at hand.
LEMMA PlainSHdr ==
  ASSUME LInv, argn \in Files, NEW t \in FrameTypes \ {"ZDATA", "ZEOF"}, NEW p \in Nat
  PROVE  Plain(<<SHdr(t, p)>>)
<1>1. argn \in 0 .. NFiles
  BY BatchAssumption DEF Files
<1>. QED BY <1>1, PlainHdr DEF SHdr

\* A header of the file at hand and its subpacket.
LEMMA PlainOffer ==
  ASSUME LInv, argn \in Files, NEW t \in FrameTypes \ {"ZDATA", "ZEOF"}, NEW n \in Nat
  PROVE  Plain(<<SHdr(t, 0), Sub("ZCRCW", argn, 0, n)>>)
<1>1. argn \in 0 .. NFiles
  BY BatchAssumption DEF Files
<1>2. SHdr(t, 0) \in Item /\ Sub("ZCRCW", argn, 0, n) \in Item
  BY <1>1, HdrIsItem, SubIsItem DEF SHdr, FrameEnds
<1>3. SHdr(t, 0).k = "hdr" /\ SHdr(t, 0).t = t
  BY DEF SHdr, Hdr
<1>4. Sub("ZCRCW", argn, 0, n).k = "sub" /\ Sub("ZCRCW", argn, 0, n).t = "ZCRCW"
  BY DEF Sub
<1>5. ~Continues(Sub("ZCRCW", argn, 0, n))
  BY <1>4 DEF Continues
<1>. QED BY <1>2, <1>3, <1>5, PlainTwo

LEMMA SayRzKeeps ==
  ASSUME LInv, Step, SayRz
  PROVE  LInv' /\ HonestStep
<1>. USE DEF SGoto, datav
<1>1. argn = 1 /\ zrqinits = 0 /\ spc = "start"
  BY DEF LInv, SayRz
<1>2. Plain(<<Junk(1), SHdr("ZRQINIT", 0)>>)
  <2>1. Junk(1) \in Item /\ SHdr("ZRQINIT", 0) \in Item
    BY <1>1, BatchAssumption, JunkIsItem, HdrIsItem DEF SHdr, FrameTypes
  <2>2. Junk(1).k = "junk" /\ SHdr("ZRQINIT", 0).k = "hdr" /\ SHdr("ZRQINIT", 0).t = "ZRQINIT"
    BY DEF Junk, SHdr, Hdr
  <2>3. ~Continues(SHdr("ZRQINIT", 0))
    BY <2>2 DEF Continues
  <2>. QED BY <2>1, <2>2, <2>3, PlainTwo
<1>3. Shut
  BY <1>1, <1>2, SendsPlain DEF SayRz
<1>4. LszTypeOK'
  BY <1>1, <1>3, SenderAssumption DEF LInv, Shut, LszTypeOK, SayRz, Step, SPlaces
<1>5. InFile(spc', argn', inpos', bytes_sent', eof_seen')
  BY DEF SayRz, InFile, Offering, Streaming
<1>. QED BY <1>3, <1>4, <1>5, ShutKeeps DEF SayRz

\* wcs returns: on to the next file.
LEMMA Reports ==
  ASSUME LInv, argn \in Files, NEW s \in SStats, Report(s)
  PROVE  /\ spc' = "wcs" /\ argn' \in 1 .. NFiles + 1 /\ sstat' \in [Files -> SStats]
         /\ \A x, b, e : InFile(spc', argn', x, b, e)
<1>1. spc' = "wcs" /\ argn' = argn + 1
  BY DEF Report, SGoto
<1>2. argn' \in 1 .. NFiles + 1
  BY <1>1, BatchAssumption DEF Files
<1>3. sstat' \in [Files -> SStats]
  BY DEF Report, LInv, LszTypeOK
<1>. QED BY <1>1, <1>2, <1>3 DEF InFile, Offering, Streaming

LEMMA OpenNextFileKeeps ==
  ASSUME LInv, Step, OpenNextFile
  PROVE  LInv' /\ HonestStep
<1>. USE DEF SGoto, datav, line
<1>1. spc = "wcs" /\ argn \in Files /\ s2r' = s2r /\ closed' = closed
  BY BatchAssumption DEF LInv, LszTypeOK, OpenNextFile, Files
<1>2. Shut
  BY <1>1, SilentIsShut
<1>3. CASE argn \in Unreadable \cup Directories
  <2>. DEFINE s == IF argn \in Unreadable THEN "unreadable" ELSE "directory"
  <2>1. Report(s) /\ UNCHANGED <<tries, datav>> /\ s \in SStats
    BY <1>3 DEF OpenNextFile, SStats
  <2>. HIDE DEF s
  <2>2. /\ spc' = "wcs" /\ argn' \in 1 .. NFiles + 1 /\ sstat' \in [Files -> SStats]
        /\ InFile(spc', argn', inpos', bytes_sent', eof_seen')
    BY <1>1, <2>1, Reports
  <2>3. LszTypeOK'
    BY <1>2, <2>1, <2>2 DEF LInv, Shut, LszTypeOK, OpenNextFile, Step, SPlaces
  <2>. QED BY <1>1, <1>2, <2>2, <2>3, ShutKeeps
<1>4. CASE argn \notin Unreadable \cup Directories
  <2>1. /\ eof_seen' = FALSE /\ bytes_sent' = 0 /\ inpos' = 0 /\ tries' = 0
        /\ spc' \in {"zfile", "getnak"} /\ argn' = argn /\ sstat' = sstat /\ lastsync' = lastsync
    BY <1>4 DEF OpenNextFile
  <2>2. LszTypeOK'
    BY <1>2, <2>1 DEF LInv, Shut, LszTypeOK, OpenNextFile, Step, SPlaces
  <2>3. InFile(spc', argn', inpos', bytes_sent', eof_seen')
    BY <1>1, <2>1 DEF InFile, Offering, Streaming
  <2>. QED BY <1>1, <1>2, <2>1, <2>2, <2>3, ShutKeeps
<1>. QED BY <1>3, <1>4

LEMMA NoMoreFilesKeeps ==
  ASSUME LInv, Step, NoMoreFiles
  PROVE  LInv' /\ HonestStep
<1>. USE DEF SGoto, datav, initv
<1>1. spc = "wcs" /\ closed' = closed
  BY DEF NoMoreFiles
<1>2. Shut /\ spc' \in {"exit", "bibi", "ymodem"} /\ sexit' \in {"no", "ok", "incomplete"}
  <2>1. CASE s2r' = s2r
    BY <1>1, <2>1, SilentIsShut DEF NoMoreFiles, LInv, LszTypeOK
  <2>2. CASE Send(Canit \o Canit)
    BY <1>1, <2>2, PlainCanit, SendsPlain DEF NoMoreFiles, LInv, LszTypeOK
  <2>. QED BY <2>1, <2>2 DEF NoMoreFiles
<1>3. LszTypeOK'
  BY <1>2 DEF LInv, Shut, LszTypeOK, NoMoreFiles, Step, SPlaces
<1>4. InFile(spc', argn', inpos', bytes_sent', eof_seen')
  BY <1>2 DEF InFile, Offering, Streaming
<1>. QED BY <1>1, <1>2, <1>3, <1>4, ShutKeeps

\* Where the file at hand was not begun.
LEMMA InOffer ==
  ASSUME LInv, spc \in Offering
  PROVE  argn \in Files /\ inpos = 0 /\ ~eof_seen /\ spc # "block"
  BY DEF LInv, InFile, Offering

\* A step from one such place to another, or to the end.
LEMMA StaysInOffer ==
  ASSUME LInv, spc \in Offering, argn' = argn, inpos' = 0, eof_seen' = eof_seen,
         spc' \in Offering \cup {"exit", "ymodem"}
  PROVE  /\ InFile(spc', argn', inpos', bytes_sent', eof_seen')
         /\ spc' \notin {"start", "block", "eof", "eofHdr"}
  BY InOffer DEF InFile, Offering, Streaming

LEMMA GetNakKeeps ==
  ASSUME LInv, Step, GetNak
  PROVE  LInv' /\ HonestStep
<1>. USE DEF SGoto, datav
<1>1. spc = "getnak" /\ closed' = closed /\ spc \in Offering
  BY DEF GetNak, Offering
<1>2. argn \in Files /\ inpos = 0 /\ spc # "block"
  BY <1>1, InOffer
<1>3. Counted \in Nat
  BY DEF Counted, LInv, LszTypeOK
<1>4. /\ Shut /\ r2s' \in Seq(Item) /\ tries' \in Nat /\ tmo' \in 0 .. 1
      /\ zrqinits' \in 0 .. MaxZrqinit
      /\ spc' \in Offering \cup {"exit", "ymodem"} /\ sexit' \in {"no", "ok", "incomplete"}
  <2>1. CASE s2r' = s2r /\ zrqinits' = zrqinits /\ sexit' = sexit
    <3>1. Shut
      BY <1>2, <2>1, SilentIsShut
    <3>2. r2s' \in Seq(Item)
      <4>1. r2s' = r2s \/ (r2s # <<>> /\ r2s' = Tail(r2s))
        BY <2>1 DEF GetNak
      <4>. QED BY <4>1, TailItems DEF LInv, LszTypeOK
    <3>3. tries' = MaxRxTries \/ tries' \in Counted .. (MaxNakTries + 1) \/ tries' = Counted
          \/ tries' = tries
      BY <2>1 DEF GetNak
    <3>4. tries' \in Nat
      BY <1>3, <3>3, SenderAssumption DEF LInv, LszTypeOK
    <3>5. tmo' \in 0 .. 1
      BY <2>1 DEF GetNak, LInv, LszTypeOK
    <3>6. spc' \in {"getnak", "rxinit", "ymodem", "exit"}
      BY <1>1, <2>1 DEF GetNak, Abort
    <3>. QED BY <2>1, <3>1, <3>2, <3>4, <3>5, <3>6 DEF LInv, LszTypeOK, Offering
  <2>2. CASE Abort /\ UNCHANGED <<tmo, zrqinits>>
    <3>1. Shut /\ spc' = "exit" /\ sexit' = "incomplete"
      BY <1>2, <2>2, Aborts
    <3>2. r2s' \in Seq(Item)
      <4>1. r2s' = r2s \/ (r2s # <<>> /\ r2s' = Tail(r2s))
        BY DEF GetNak
      <4>. QED BY <4>1, TailItems DEF LInv, LszTypeOK
    <3>3. tries' = Counted \/ tries' = tries
      BY <1>1, <3>1 DEF GetNak
    <3>4. tries' \in Nat
      BY <1>3, <3>3 DEF LInv, LszTypeOK
    <3>. QED BY <2>2, <3>1, <3>2, <3>4 DEF LInv, LszTypeOK
  <2>3. CASE /\ r2s' = r2s /\ tmo' = tmo /\ tries' = Counted /\ spc' = spc /\ sexit' = sexit
             /\ MayInvite /\ Send(<<SHdr("ZRQINIT", 0)>>) /\ zrqinits' = zrqinits + 1
    <3>1. Shut
      BY <1>2, <2>3, PlainSHdr, SendsPlain DEF FrameTypes
    <3>2. zrqinits' \in 0 .. MaxZrqinit
      BY <2>3, SenderAssumption DEF MayInvite, LInv, LszTypeOK
    <3>. QED BY <1>1, <1>3, <2>3, <3>1, <3>2 DEF LInv, LszTypeOK
  <2>. QED BY <2>1, <2>2, <2>3 DEF GetNak
<1>5. LszTypeOK'
  BY <1>4 DEF LInv, Shut, LszTypeOK, GetNak, Step, SPlaces, Offering
<1>6. /\ InFile(spc', argn', inpos', bytes_sent', eof_seen')
      /\ spc' \notin {"start", "block", "eof", "eofHdr"}
  BY <1>1, <1>2, <1>4, StaysInOffer DEF GetNak
<1>. QED BY <1>1, <1>4, <1>5, <1>6, ShutKeeps

LEMMA RxInitOfferKeeps ==
  ASSUME LInv, Step, RxInitOffer
  PROVE  LInv' /\ HonestStep
<1>. USE DEF SGoto, datav
<1>1. spc = "rxinit" /\ closed' = closed /\ spc \in Offering
  BY DEF RxInitOffer, Offering
<1>2. argn \in Files /\ inpos = 0 /\ spc # "block"
  BY <1>1, InOffer
<1>3. /\ Shut /\ tries' \in Nat /\ quiet' \in BOOLEAN /\ zrqinits' \in 0 .. MaxZrqinit
      /\ spc' \in {"rxinitHdr", "exit"} /\ sexit' \in {"no", "ok", "incomplete"}
  <2>1. CASE /\ tries > 0 /\ tries' = tries - 1 /\ quiet' = FALSE /\ SGoto("rxinitHdr")
             /\ IF MayInvite /\ ~quiet
                THEN Send(<<SHdr("ZRQINIT", 0)>>) /\ zrqinits' = zrqinits + 1
                ELSE UNCHANGED <<s2r, zrqinits>>
             /\ UNCHANGED sexit
    <3>1. Shut
      BY <1>2, <2>1, PlainSHdr, SendsPlain, SilentIsShut DEF FrameTypes
    <3>2. tries' \in Nat
      BY <2>1 DEF LInv, LszTypeOK
    <3>3. zrqinits' \in 0 .. MaxZrqinit
      BY <2>1, SenderAssumption DEF MayInvite, LInv, LszTypeOK
    <3>. QED BY <2>1, <3>1, <3>2, <3>3 DEF LInv, LszTypeOK
  <2>2. CASE tries = 0 /\ Abort /\ UNCHANGED <<tries, quiet, zrqinits>>
    BY <1>2, <2>2, Aborts DEF LInv, LszTypeOK
  <2>. QED BY <2>1, <2>2 DEF RxInitOffer
<1>4. LszTypeOK'
  BY <1>3 DEF LInv, Shut, LszTypeOK, RxInitOffer, Step, SPlaces
<1>5. /\ InFile(spc', argn', inpos', bytes_sent', eof_seen')
      /\ spc' \notin {"start", "block", "eof", "eofHdr"}
  BY <1>1, <1>2, <1>3, StaysInOffer DEF RxInitOffer, Offering
<1>. QED BY <1>1, <1>3, <1>4, <1>5, ShutKeeps

LEMMA GetZrxinitKeeps ==
  ASSUME LInv, Step, GetZrxinit
  PROVE  LInv' /\ HonestStep
<1>. USE DEF SGoto, datav
<1>1. spc = "rxinitHdr" /\ closed' = closed /\ spc \in Offering
  BY DEF GetZrxinit, Offering
<1>2. argn \in Files /\ inpos = 0 /\ spc # "block"
  BY <1>1, InOffer
<1>3. PICK r \in ZGetHdr(r2s, closed) : GetZrxinit!2!(r)
  BY DEF GetZrxinit
<1>4. r.pos \in Nat /\ r2s' \in Seq(Item)
  BY <1>3, Reads
<1>5. Shut
  <2>1. CASE s2r' = s2r
    BY <1>2, <2>1, SilentIsShut
  <2>2. CASE Abort
    BY <1>2, <2>2, Aborts
  <2>3. CASE Send(CASE r.c = "ZRQINIT" /\ r.pos # 0 -> <<>>
                    [] r.c = "ZCHALLENGE"            -> <<SHdr("ZACK", r.pos)>>
                    [] OTHER                         -> <<SHdr("ZNAK", 0)>>)
    <3>1. Plain(<<>>) /\ Plain(<<SHdr("ZACK", r.pos)>>) /\ Plain(<<SHdr("ZNAK", 0)>>)
      BY <1>2, <1>4, PlainCanit, PlainSHdr DEF FrameTypes
    <3>2. Send(<<>>) \/ Send(<<SHdr("ZACK", r.pos)>>) \/ Send(<<SHdr("ZNAK", 0)>>)
      BY <2>3
    <3>. QED BY <1>2, <3>1, <3>2, SendsPlain
  <2>. QED BY <1>3, <2>1, <2>2, <2>3
<1>6. spc' \in {"zsinit", "rxinit", "rxinitHdr", "exit"} /\ sexit' \in {"no", "ok", "incomplete"}
  BY <1>1, <1>3 DEF Abort, LInv, LszTypeOK
<1>7. zmodem' \in BOOLEAN
  BY <1>3 DEF LInv, LszTypeOK
<1>8. serr' \in 0 .. MaxSinit /\ tmo' \in 0 .. 1
  BY <1>3, SenderAssumption DEF LInv, LszTypeOK
<1>9. LszTypeOK'
  BY <1>4, <1>5, <1>6, <1>7, <1>8 DEF LInv, Shut, LszTypeOK, GetZrxinit, Step, SPlaces
<1>10. /\ InFile(spc', argn', inpos', bytes_sent', eof_seen')
       /\ spc' \notin {"start", "block", "eof", "eofHdr"}
  BY <1>1, <1>2, <1>6, StaysInOffer DEF GetZrxinit, Offering
<1>. QED BY <1>1, <1>5, <1>9, <1>10, ShutKeeps

\* ZSINIT and ZFILE are sent.
LEMMA OfferKeeps ==
  ASSUME LInv, Step, SendZsinit \/ SendZfile
  PROVE  LInv' /\ HonestStep
<1>. USE DEF SGoto, datav, initv
<1>1. spc \in {"zsinit", "zfile"} /\ closed' = closed /\ spc \in Offering
  BY DEF SendZsinit, SendZfile, Offering
<1>2. argn \in Files /\ inpos = 0 /\ spc # "block"
  BY <1>1, InOffer
<1>3. Shut
  <2>1. /\ Plain(<<SHdr("ZSINIT", 0), Sub("ZCRCW", argn, 0, 3)>>)
        /\ Plain(<<SHdr("ZFILE", 0), Sub("ZCRCW", argn, 0, 1)>>)
    BY <1>2, PlainOffer DEF FrameTypes
  <2>. QED BY <1>2, <2>1, SendsPlain DEF SendZsinit, SendZfile
<1>4. spc' \in {"zsinitHdr", "zfileHdr"} /\ UNCHANGED <<r2s, closed, faults, argn, initv, datav, sstat, sexit>>
  BY DEF SendZsinit, SendZfile
<1>5. LszTypeOK'
  BY <1>3, <1>4 DEF LInv, Shut, LszTypeOK, Step, SPlaces
<1>6. /\ InFile(spc', argn', inpos', bytes_sent', eof_seen')
      /\ spc' \notin {"start", "block", "eof", "eofHdr"}
  BY <1>1, <1>2, <1>4, StaysInOffer DEF Offering
<1>. QED BY <1>1, <1>3, <1>5, <1>6, ShutKeeps

LEMMA ZsinitAnswerKeeps ==
  ASSUME LInv, Step, ZsinitAnswer
  PROVE  LInv' /\ HonestStep
<1>. USE DEF SGoto, datav
<1>1. spc = "zsinitHdr" /\ closed' = closed /\ spc \in Offering
  BY DEF ZsinitAnswer, Offering
<1>2. argn \in Files /\ inpos = 0 /\ spc # "block"
  BY <1>1, InOffer
<1>3. PICK r \in ZGetHdr(r2s, closed) : ZsinitAnswer!2!(r)
  BY DEF ZsinitAnswer
<1>4. r2s' \in Seq(Item)
  BY <1>3, Reads
<1>5. Shut
  BY <1>2, <1>3, SilentIsShut, Aborts
<1>6. spc' \in {"zfile", "zsinit", "zsinitHdr", "exit"} /\ sexit' \in {"no", "ok", "incomplete"}
  BY <1>1, <1>3 DEF Abort, LInv, LszTypeOK
<1>7. serr' \in 0 .. MaxSinit
  BY <1>3, SenderAssumption DEF LInv, LszTypeOK
<1>8. LszTypeOK'
  BY <1>4, <1>5, <1>6, <1>7 DEF LInv, Shut, LszTypeOK, ZsinitAnswer, Step, SPlaces
<1>9. /\ InFile(spc', argn', inpos', bytes_sent', eof_seen')
      /\ spc' \notin {"start", "block", "eof", "eofHdr"}
  BY <1>1, <1>2, <1>6, StaysInOffer DEF ZsinitAnswer, Offering
<1>. QED BY <1>1, <1>5, <1>8, <1>9, ShutKeeps

\* zsendfile's answers: only a ZRPOS leads to data, with input_f where it says.
LEMMA ZfileAnswerKeeps ==
  ASSUME LInv, Step, ZfileAnswer
  PROVE  LInv' /\ HonestStep
<1>. USE DEF SGoto, datav, initv
<1>1. spc = "zfileHdr" /\ closed' = closed /\ spc \in Offering
  BY DEF ZfileAnswer, Offering
<1>2. argn \in Files /\ inpos = 0 /\ ~eof_seen /\ spc # "block"
  BY <1>1, InOffer
<1>3. PICK r \in ZGetHdr(r2s, closed) : ZfileAnswer!2!(r)
  BY DEF ZfileAnswer
<1>4. r.pos \in Nat /\ r2s' \in Seq(Item)
  BY <1>3, Reads
<1>5. UNCHANGED <<closed, faults, initv>>
  BY DEF ZfileAnswer
<1>6. CASE r.c = "ZRPOS"
  <2>1. /\ spc' = "zdata" /\ bytes_sent' = r.pos /\ lastsync' = r.pos - 1
        /\ inpos' = SeekTo(r.pos) /\ UNCHANGED <<s2r, argn, eof_seen, sstat, sexit>>
    BY <1>3, <1>6 DEF Abort
  <2>2. inpos' = r.pos
    BY <1>2, <2>1 DEF SeekTo
  <2>3. lastsync' \in Nat \cup {-1}
    BY <1>4, <2>1
  <2>4. Shut
    BY <1>2, <2>1, SilentIsShut
  <2>5. LszTypeOK'
    BY <1>4, <1>5, <2>1, <2>2, <2>3, <2>4 DEF LInv, Shut, LszTypeOK, Step, SPlaces
  <2>6. InFile(spc', argn', inpos', bytes_sent', eof_seen')
    BY <1>2, <2>1, <2>2 DEF InFile, Offering, Streaming
  <2>. QED BY <1>1, <2>1, <2>4, <2>5, <2>6, ShutKeeps
<1>7. CASE r.c = "ZSKIP"
  <2>1. Report(SkipStatus) /\ UNCHANGED <<s2r, datav, sexit>>
    BY <1>3, <1>7 DEF Abort
  <2>2. SkipStatus \in SStats
    BY DEF SkipStatus, SStats
  <2>3. /\ spc' = "wcs" /\ argn' \in 1 .. NFiles + 1 /\ sstat' \in [Files -> SStats]
        /\ InFile(spc', argn', inpos', bytes_sent', eof_seen')
    BY <1>2, <2>1, <2>2, Reports
  <2>4. Shut
    BY <1>2, <2>1, SilentIsShut
  <2>5. LszTypeOK'
    BY <1>4, <1>5, <2>1, <2>3, <2>4 DEF LInv, Shut, LszTypeOK, Step, SPlaces
  <2>. QED BY <1>1, <2>3, <2>4, <2>5, ShutKeeps
<1>8. CASE r.c \notin {"ZRPOS", "ZSKIP"}
  <2>1. /\ spc' \in {"zfileDrain", "exit", "zfileHdr", "zfile"}
        /\ sexit' \in {"no", "ok", "incomplete"}
        /\ UNCHANGED <<argn, eof_seen, bytes_sent, lastsync, sstat>>
    BY <1>1, <1>3, <1>8 DEF Abort, LInv, LszTypeOK
  <2>2. inpos' = 0
    BY <1>2, <1>3, <1>8
  <2>3. Shut
    <3>1. CASE s2r' = s2r
      BY <1>2, <3>1, SilentIsShut
    <3>2. CASE Abort
      BY <1>2, <3>2, Aborts
    <3>3. CASE Send(<<SHdr("ZCRC", 0)>>)
      BY <1>2, <3>3, PlainSHdr, SendsPlain DEF FrameTypes
    <3>. QED BY <1>3, <1>8, <3>1, <3>2, <3>3
  <2>4. LszTypeOK'
    BY <1>4, <1>5, <2>1, <2>2, <2>3 DEF LInv, Shut, LszTypeOK, Step, SPlaces
  <2>5. /\ InFile(spc', argn', inpos', bytes_sent', eof_seen')
        /\ spc' \notin {"start", "block", "eof", "eofHdr"}
    BY <1>1, <2>1, <2>2, StaysInOffer DEF Offering
  <2>. QED BY <1>1, <2>3, <2>4, <2>5, ShutKeeps
<1>. QED BY <1>6, <1>7, <1>8

LEMMA ZfileDrainKeeps ==
  ASSUME LInv, Step, ZfileDrain
  PROVE  LInv' /\ HonestStep
<1>. USE DEF SGoto, datav, initv
<1>1. spc = "zfileDrain" /\ closed' = closed /\ spc \in Offering /\ s2r' = s2r
  BY DEF ZfileDrain, Offering
<1>2. argn \in Files /\ inpos = 0 /\ spc # "block"
  BY <1>1, InOffer
<1>3. Shut
  BY <1>1, <1>2, SilentIsShut
<1>4. r2s' \in Seq(Item)
  <2>1. r2s' = r2s \/ (r2s # <<>> /\ r2s' = Tail(r2s))
    BY DEF ZfileDrain
  <2>. QED BY <2>1, TailItems DEF LInv, LszTypeOK
<1>5. spc' \in {"zfileHdr", "zfileDrain", "zfile"}
  BY DEF ZfileDrain
<1>6. LszTypeOK'
  BY <1>3, <1>4, <1>5 DEF LInv, Shut, LszTypeOK, ZfileDrain, Step, SPlaces
<1>7. /\ InFile(spc', argn', inpos', bytes_sent', eof_seen')
      /\ spc' \notin {"start", "block", "eof", "eofHdr"}
  BY <1>1, <1>2, <1>5, StaysInOffer DEF ZfileDrain, Offering
<1>. QED BY <1>1, <1>3, <1>6, <1>7, ShutKeeps

-----------------------------------------------------------------------------
(* zsendfdata *)

\* In zsendfdata bytes_sent is where input_f stands.
LEMMA InStream ==
  ASSUME LInv, spc \in Streaming
  PROVE  /\ argn \in Files /\ argn \in 0 .. NFiles /\ bytes_sent = inpos /\ inpos \in Nat
         /\ Size[argn] \in Nat /\ (eof_seen => inpos >= Size[argn])
<1>1. argn \in Files
  BY DEF LInv, InFile
<1>2. argn \in 0 .. NFiles /\ Size[argn] \in Nat
  BY <1>1, BatchAssumption DEF Files
<1>. QED BY <1>1, <1>2 DEF LInv, InFile, LszTypeOK

\* What has to be shown of a step that ends in zsendfdata.
LEMMA StreamKeeps ==
  ASSUME LszTypeOK', last' \in Item, HonestStep, spc' # "start",
         InFile(spc', argn', inpos', bytes_sent', eof_seen'),
         ~closed' => After(spc', argn', inpos', last')
  PROVE  LInv' /\ HonestStep
  BY DEF LInv

\* The header opens a frame where input_f stands.
LEMMA SendZdataKeeps ==
  ASSUME LInv, Step, SendZdata
  PROVE  LInv' /\ HonestStep
<1>. USE DEF SGoto, datav, initv
<1>. DEFINE a == SHdr("ZDATA", bytes_sent)
<1>1. spc = "zdata" /\ spc' = "block" /\ spc \in Streaming
      /\ UNCHANGED <<r2s, closed, faults, argn, initv, datav, sstat, sexit>>
  BY DEF SendZdata, Streaming
<1>2. /\ argn \in Files /\ argn \in 0 .. NFiles /\ bytes_sent = inpos /\ inpos \in Nat
      /\ (eof_seen => inpos >= Size[argn])
  BY <1>1, InStream
<1>3. a \in Item /\ a.k = "hdr" /\ a.t = "ZDATA" /\ a.f = argn /\ a.pos = inpos /\ a.n = 0
  BY <1>2, HdrIsItem DEF SHdr, Hdr, FrameTypes
<1>4. Continues(a) /\ EndOf(a) = inpos
  BY <1>2, <1>3 DEF Continues, EndOf
<1>5. Send(<<a>>) /\ last \in Item
  BY DEF SendZdata, LInv
<1>. HIDE DEF a
<1>6. <<a>> \in Seq(Item) /\ <<a>> # <<>> /\ Len(<<a>>) = 1 /\ <<a>>[1] = a
  BY <1>3
<1>7. /\ s2r' \in Seq(Item) /\ last' \in Item
      /\ closed => s2r' = <<>>
      /\ ~closed => s2r' = <<a>> /\ last' = a
  BY <1>5, <1>6, Sends
<1>8. HonestStep
  <2>1. ~closed => ~Continues(last)
    BY <1>1 DEF LInv, After
  <2>. QED BY <1>3, <1>6, <1>7, <2>1 DEF HonestStep
<1>9. ~closed' => After(spc', argn', inpos', last')
  BY <1>1, <1>3, <1>4, <1>7 DEF After
<1>10. LszTypeOK'
  BY <1>1, <1>7 DEF LInv, LszTypeOK, Step, SPlaces
<1>11. InFile(spc', argn', inpos', bytes_sent', eof_seen')
  BY <1>1, <1>2 DEF InFile, Offering, Streaming
<1>. QED BY <1>1, <1>7, <1>8, <1>9, <1>10, <1>11, StreamKeeps

\* fread finds no more than is there.
LEMMA FilledIsTyped ==
  ASSUME NEW b \in BlkLens, inpos \in Nat, Size[argn] \in Nat
  PROVE  Filled(b) \in Nat
  BY SenderAssumption DEF Filled

\* A block goes on where the frame stands, and the last one ends at the end of the file.
LEMMA SendDataKeeps ==
  ASSUME LInv, Step, SendData
  PROVE  LInv' /\ HonestStep
<1>. USE DEF SGoto, datav, initv
<1>1. spc = "block" /\ spc \in Streaming
      /\ UNCHANGED <<r2s, closed, faults, argn, initv, lastsync, sstat, sexit>>
  BY DEF SendData, Streaming
<1>2. /\ argn \in Files /\ argn \in 0 .. NFiles /\ bytes_sent = inpos /\ inpos \in Nat
      /\ Size[argn] \in Nat /\ (eof_seen => inpos >= Size[argn])
  BY <1>1, InStream
<1>3. PICK b \in BlkLens : SendData!2!(b)
  BY DEF SendData
<1>. DEFINE n == Filled(b)
            e == IF eof_seen \/ AtEof(b) THEN "ZCRCE"
                 ELSE IF bytes_sent = lastsync THEN "ZCRCW" ELSE "ZCRCG"
            a == Sub(e, argn, inpos, n)
<1>4. n \in Nat
  BY <1>2, FilledIsTyped
<1>5. /\ eof_seen' = (eof_seen \/ AtEof(b)) /\ Send(<<a>>)
      /\ bytes_sent' = bytes_sent + n /\ inpos' = inpos + n
      /\ spc' = IF e = "ZCRCW" THEN "waitack" ELSE IF e = "ZCRCE" THEN "eof" ELSE "block"
  BY <1>3
<1>6. /\ e \in {"ZCRCE", "ZCRCW", "ZCRCG"}
      /\ e = "ZCRCE" <=> (eof_seen \/ AtEof(b))
  OBVIOUS
<1>7. AtEof(b) => inpos + n >= Size[argn]
  BY DEF AtEof
<1>. HIDE DEF e, n
<1>8. a \in Item /\ a.k = "sub" /\ a.t = e /\ a.f = argn /\ a.pos = inpos /\ a.n = n
  <2>1. a \in Item
    BY <1>2, <1>4, <1>6, SubIsItem DEF FrameEnds
  <2>. QED BY <2>1 DEF Sub
<1>. HIDE DEF a
<1>9. EndOf(a) = inpos + n /\ (Continues(a) <=> e = "ZCRCG")
  BY <1>6, <1>8 DEF EndOf, Continues
<1>10. <<a>> \in Seq(Item) /\ <<a>> # <<>> /\ Len(<<a>>) = 1 /\ <<a>>[1] = a
  BY <1>8
<1>11. last \in Item
  BY DEF LInv
<1>12. /\ s2r' \in Seq(Item) /\ last' \in Item
       /\ closed => s2r' = <<>>
       /\ ~closed => s2r' = <<a>> /\ last' = a
  BY <1>5, <1>10, <1>11, Sends
<1>13. HonestStep
  <2>1. ~closed => Continues(last) /\ last.f = argn /\ EndOf(last) = inpos
    BY <1>1 DEF LInv, After
  <2>. QED BY <1>8, <1>10, <1>12, <2>1 DEF HonestStep
<1>14. spc' \in {"waitack", "eof", "block"} /\ (spc' = "block" <=> e = "ZCRCG")
       /\ (spc' = "eof" <=> e = "ZCRCE")
  BY <1>5, <1>6
<1>15. ~closed' => After(spc', argn', inpos', last')
  BY <1>1, <1>5, <1>8, <1>9, <1>12, <1>14 DEF After
<1>16. eof_seen' \in BOOLEAN
  BY <1>5 DEF LInv, LszTypeOK
<1>17. bytes_sent' = inpos' /\ inpos' \in Nat
  BY <1>2, <1>4, <1>5
<1>18. eof_seen' => inpos' >= Size[argn]
  <2>1. eof_seen => inpos + n >= Size[argn]
    BY <1>2, <1>4
  <2>. QED BY <1>5, <1>7, <2>1
<1>19. LszTypeOK'
  BY <1>1, <1>12, <1>14, <1>16, <1>17 DEF LInv, LszTypeOK, Step, SPlaces
<1>20. InFile(spc', argn', inpos', bytes_sent', eof_seen')
  BY <1>1, <1>2, <1>5, <1>6, <1>14, <1>17, <1>18 DEF InFile, Offering, Streaming
<1>. QED BY <1>12, <1>13, <1>14, <1>15, <1>19, <1>20, StreamKeeps

\* ZEOF names the place where the blocks ended.
LEMMA SendZeofKeeps ==
  ASSUME LInv, Step, SendZeof
  PROVE  LInv' /\ HonestStep
<1>. USE DEF SGoto, datav, initv
<1>. DEFINE a == SHdr("ZEOF", bytes_sent)
<1>1. spc = "eof" /\ spc' = "eofHdr" /\ spc \in Streaming
      /\ UNCHANGED <<r2s, closed, faults, argn, initv, datav, sstat, sexit>>
  BY DEF SendZeof, Streaming
<1>2. /\ argn \in Files /\ argn \in 0 .. NFiles /\ bytes_sent = inpos /\ inpos \in Nat
      /\ eof_seen /\ inpos >= Size[argn]
  BY <1>1, InStream DEF LInv, InFile
<1>3. a \in Item /\ a.k = "hdr" /\ a.t = "ZEOF" /\ a.f = argn /\ a.pos = inpos
  BY <1>2, HdrIsItem DEF SHdr, Hdr, FrameTypes
<1>4. ~Continues(a)
  BY <1>3 DEF Continues
<1>5. Send(<<a>>) /\ last \in Item
  BY DEF SendZeof, LInv
<1>. HIDE DEF a
<1>6. <<a>> \in Seq(Item) /\ <<a>> # <<>> /\ Len(<<a>>) = 1 /\ <<a>>[1] = a
  BY <1>3
<1>7. /\ s2r' \in Seq(Item) /\ last' \in Item
      /\ closed => s2r' = <<>>
      /\ ~closed => s2r' = <<a>> /\ last' = a
  BY <1>5, <1>6, Sends
<1>8. HonestStep
  <2>1. ~closed => ~Continues(last) /\ (last.k = "sub" => EndOf(last) = inpos)
    BY <1>1 DEF LInv, After
  <2>. QED BY <1>2, <1>3, <1>6, <1>7, <2>1 DEF HonestStep
<1>9. ~closed' => After(spc', argn', inpos', last')
  BY <1>1, <1>3, <1>4, <1>7 DEF After
<1>10. LszTypeOK'
  BY <1>1, <1>7 DEF LInv, LszTypeOK, Step, SPlaces
<1>11. InFile(spc', argn', inpos', bytes_sent', eof_seen')
  BY <1>1, <1>2 DEF InFile, Offering, Streaming
<1>. QED BY <1>1, <1>7, <1>8, <1>9, <1>10, <1>11, StreamKeeps

\* getinsync's answers: a ZRPOS moves input_f and bytes_sent together, or neither.
LEMMA GetInsyncKeeps ==
  ASSUME LInv, Step, GetInsync
  PROVE  LInv' /\ HonestStep
<1>. USE DEF SGoto, datav, initv
<1>1. spc \in {"waitack", "eofHdr"} /\ closed' = closed /\ spc \in Streaming /\ spc # "block"
  BY DEF GetInsync, Streaming
<1>2. /\ argn \in Files /\ argn \in 0 .. NFiles /\ bytes_sent = inpos /\ inpos \in Nat
      /\ Size[argn] \in Nat /\ (eof_seen => inpos >= Size[argn])
  BY <1>1, InStream
<1>3. PICK r \in ZGetHdr(r2s, closed) : GetInsync!2!(r)
  BY DEF GetInsync
<1>4. r.pos \in Nat /\ r2s' \in Seq(Item)
  BY <1>3, Reads
<1>5. UNCHANGED <<closed, faults, initv>>
  BY DEF GetInsync
<1>6. CASE r.c \in {"ZCAN", "ZABORT", "ZFIN", "TIMEOUT"}
  <2>1. Abort /\ UNCHANGED <<argn, datav, sstat>>
    BY <1>3, <1>6
  <2>2. Shut /\ spc' = "exit" /\ sexit' = "incomplete"
    BY <1>1, <2>1, Aborts
  <2>3. LszTypeOK'
    BY <1>4, <1>5, <2>1, <2>2 DEF LInv, Shut, LszTypeOK, Step, SPlaces
  <2>4. InFile(spc', argn', inpos', bytes_sent', eof_seen')
    BY <2>2 DEF InFile, Offering, Streaming
  <2>. QED BY <1>1, <2>2, <2>3, <2>4, ShutKeeps
<1>7. CASE r.c = "ZRPOS"
  <2>1. Reposition(r.pos) /\ spc' = "zdata" /\ UNCHANGED <<s2r, argn, sstat, sexit>>
    BY <1>3, <1>7 DEF Abort
  <2>2. /\ bytes_sent' = inpos' /\ inpos' \in Nat /\ lastsync' \in Nat \cup {-1}
        /\ eof_seen' = eof_seen /\ (eof_seen => inpos' = inpos)
    BY <1>2, <1>4, <2>1 DEF Reposition, LInv, LszTypeOK
  <2>3. Shut
    BY <1>1, <2>1, SilentIsShut
  <2>4. LszTypeOK'
    BY <1>4, <1>5, <2>1, <2>2, <2>3 DEF LInv, Shut, LszTypeOK, Step, SPlaces
  <2>5. InFile(spc', argn', inpos', bytes_sent', eof_seen')
    BY <1>2, <2>1, <2>2 DEF InFile, Offering, Streaming
  <2>. QED BY <1>1, <2>1, <2>3, <2>4, <2>5, ShutKeeps
<1>8. CASE r.c \in {"ZRINIT", "ZSKIP"}
  <2>1. PICK s \in SStats : Report(s) /\ UNCHANGED <<s2r, datav, sexit>>
    BY <1>3, <1>8 DEF Abort, AfterEof, SkipStatus, SStats
  <2>2. /\ spc' = "wcs" /\ argn' \in 1 .. NFiles + 1 /\ sstat' \in [Files -> SStats]
        /\ InFile(spc', argn', inpos', bytes_sent', eof_seen')
    BY <1>2, <2>1, Reports
  <2>3. Shut
    BY <1>1, <2>1, SilentIsShut
  <2>4. LszTypeOK'
    BY <1>4, <1>5, <2>1, <2>2, <2>3 DEF LInv, Shut, LszTypeOK, Step, SPlaces
  <2>. QED BY <1>1, <2>2, <2>3, <2>4, ShutKeeps
<1>9. CASE r.c \in {"ZACK", "scan"}
  <2>1. /\ UNCHANGED <<s2r, argn, datav, sstat, sexit>>
        /\ spc' = spc \/ (spc = "waitack" /\ spc' = "zdata") \/ (spc = "eofHdr" /\ spc' = "eof")
    BY <1>1, <1>3, <1>9 DEF Abort
  <2>2. /\ s2r' \in Seq(Item) /\ last' = last /\ last' \in Item /\ HonestStep
        /\ ~closed => ~Continues(last')
    BY <1>1, <2>1, Silent
  <2>3. LszTypeOK'
    BY <1>1, <1>4, <1>5, <2>1, <2>2 DEF LInv, LszTypeOK, Step, SPlaces
  <2>4. InFile(spc', argn', inpos', bytes_sent', eof_seen')
    BY <1>1, <1>2, <2>1 DEF LInv, InFile, Offering, Streaming
  <2>5. ~closed' => After(spc', argn', inpos', last')
    BY <1>1, <1>5, <2>1, <2>2 DEF LInv, After
  <2>. QED BY <1>1, <2>1, <2>2, <2>3, <2>4, <2>5, StreamKeeps
<1>10. CASE r.c \in {"MYERROR", "ZRQINIT", "ZSINIT", "ZFILE", "ZNAK", "ZDATA", "ZEOF", "ZCRC",
                     "ZCHALLENGE", "ZCOMPL", "ZFREECNT", "ZCOMMAND", "ZFERR", "ZSTDERR"}
  <2>. DEFINE a == SHdr("ZNAK", 0)
  <2>1. Send(<<a>>) /\ UNCHANGED <<spc, argn, datav, sstat, sexit>>
    BY <1>3, <1>10
  <2>2. Plain(<<a>>)
    BY <1>2, PlainSHdr DEF FrameTypes
  <2>3. a.k = "hdr"
    BY DEF SHdr, Hdr
  <2>. HIDE DEF a
  <2>4. Shut /\ last \in Item /\ <<a>> \in Seq(Item)
    BY <1>1, <2>1, <2>2, SendsPlain DEF Plain, LInv
  <2>5. ~closed => last' = a
    <3>1. <<a>> # <<>> /\ <<a>>[Len(<<a>>)] = a
      OBVIOUS
    <3>. QED BY <2>1, <2>4, <3>1, Sends
  <2>6. LszTypeOK'
    BY <1>4, <1>5, <2>1, <2>4 DEF LInv, Shut, LszTypeOK, Step
  <2>7. InFile(spc', argn', inpos', bytes_sent', eof_seen')
    BY <2>1 DEF LInv
  <2>8. ~closed' => After(spc', argn', inpos', last')
    BY <1>1, <1>5, <2>1, <2>3, <2>4, <2>5 DEF After, Shut
  <2>. QED BY <1>1, <2>1, <2>4, <2>6, <2>7, <2>8, StreamKeeps DEF Shut
<1>. QED BY <1>3, <1>6, <1>7, <1>8, <1>9, <1>10

-----------------------------------------------------------------------------
(* saybibi and the other side *)

LEMMA SendZfinKeeps ==
  ASSUME LInv, Step, SendZfin
  PROVE  LInv' /\ HonestStep
<1>. USE DEF SGoto, datav, initv
<1>1. spc = "bibi" /\ spc' = "bibiHdr" /\ closed' = closed
  BY DEF SendZfin
<1>2. Plain(<<Hdr("ZFIN", NFiles, 0)>>)
  <2>1. NFiles \in 0 .. NFiles
    BY BatchAssumption
  <2>. QED BY <2>1, PlainHdr DEF FrameTypes
<1>3. Shut
  BY <1>1, <1>2, SendsPlain DEF SendZfin
<1>4. LszTypeOK'
  BY <1>3 DEF LInv, Shut, LszTypeOK, SendZfin, Step, SPlaces
<1>5. InFile(spc', argn', inpos', bytes_sent', eof_seen')
  BY <1>1 DEF InFile, Offering, Streaming
<1>. QED BY <1>1, <1>3, <1>4, <1>5, ShutKeeps

LEMMA SayBibiKeeps ==
  ASSUME LInv, Step, SayBibi
  PROVE  LInv' /\ HonestStep
<1>. USE DEF SGoto, datav, initv
<1>1. spc = "bibiHdr" /\ closed' = closed
  BY DEF SayBibi
<1>2. PICK r \in ZGetHdr(r2s, closed) : SayBibi!2!(r)
  BY DEF SayBibi
<1>3. r2s' \in Seq(Item)
  BY <1>2, Reads
<1>4. Shut
  BY <1>1, <1>2, SilentIsShut, PlainCanit, SendsPlain
<1>5. spc' \in {"exit", "bibiHdr", "bibi"} /\ sexit' \in {"no", "ok", "incomplete"}
  BY <1>1, <1>2 DEF Finish, LInv, LszTypeOK
<1>6. LszTypeOK'
  BY <1>3, <1>4, <1>5 DEF LInv, Shut, LszTypeOK, SayBibi, Step, SPlaces
<1>7. InFile(spc', argn', inpos', bytes_sent', eof_seen')
  BY <1>5 DEF InFile, Offering, Streaming
<1>. QED BY <1>1, <1>4, <1>5, <1>6, <1>7, ShutKeeps

\* The receiver's answers, and a pipe that is drained or goes away.
LEMMA OthersKeep ==
  ASSUME LInv, SendHeader \/ SendText \/ SendCancel \/ Absorb \/ HangUp
  PROVE  LInv' /\ HonestStep
<1>. USE DEF lszv, initv, datav, rxv
<1>1. ASSUME NEW a \in Item, Answer(a) PROVE LInv' /\ HonestStep
  <2>1. r2s' \in Seq(Item)
    BY <1>1, AppendProperties DEF Answer, LInv, LszTypeOK
  <2>2. answers' \in 0 .. MaxAnswers
    BY <1>1, AnswersAssumption DEF Answer, LInv, LszTypeOK
  <2>3. LszTypeOK'
    BY <1>1, <2>1, <2>2 DEF Answer, LInv, LszTypeOK
  <2>. QED BY <1>1, <2>3 DEF Answer, LInv, HonestStep
<1>2. CASE SendHeader
  <2>1. PICK t \in Answers : \E p \in (0 .. Size[argn]) \cup {0, 1} : Answer(Hdr(t, argn, p))
    BY <1>2 DEF SendHeader
  <2>2. PICK p \in (0 .. Size[argn]) \cup {0, 1} : Answer(Hdr(t, argn, p))
    BY <2>1
  <2>3. argn \in 0 .. NFiles /\ p \in Nat /\ t \in FrameTypes
    BY <1>2, <2>2, BatchAssumption, AnswersAssumption DEF SendHeader, Files
  <2>. QED BY <1>1, <2>2, <2>3, HdrIsItem
<1>3. CASE SendText \/ SendCancel
  <2>1. Junk(1) \in Item /\ Can \in Item
    <3>1. 1 \in 0 .. NFiles
      BY BatchAssumption
    <3>2. Can \in Item
      BY BatchAssumption DEF Can, Item
    <3>. QED BY <3>1, <3>2, JunkIsItem
  <2>. QED BY <1>1, <1>3, <2>1 DEF SendText, SendCancel
<1>4. CASE Absorb
  <2>1. s2r' = <<>> /\ <<>> \in Seq(Item)
    BY <1>4, EmptySeq DEF Absorb
  <2>2. LszTypeOK'
    BY <1>4, <2>1 DEF Absorb, LInv, LszTypeOK
  <2>. QED BY <1>4, <2>1, <2>2 DEF Absorb, LInv, HonestStep
<1>5. CASE HangUp
  <2>1. LszTypeOK'
    BY <1>5 DEF HangUp, Hangup, LInv, LszTypeOK
  <2>. QED BY <1>5, <2>1 DEF HangUp, Hangup, LInv, HonestStep
<1>. QED BY <1>2, <1>3, <1>4, <1>5

\* lsz starts with nothing on the line.
LEMMA LInvInit == LszOpenInit => LInv
<1>. SUFFICES ASSUME LszOpenInit PROVE LInv
  OBVIOUS
<1>1. <<>> \in Seq(Item) /\ Junk(0) \in Item
  <2>1. 0 \in 0 .. NFiles
    BY BatchAssumption
  <2>. QED BY <2>1, EmptySeq, JunkIsItem
<1>2. ~Continues(Junk(0))
  <2>1. Junk(0).k = "junk"
    BY DEF Junk
  <2>. QED BY <2>1 DEF Continues
<1>3. LszTypeOK
  <2>1. sstat \in [Files -> SStats]
    BY DEF LszOpenInit, LszInit, SStats
  <2>2. 1 \in 1 .. NFiles + 1 /\ 0 \in 0 .. MaxZrqinit /\ 0 \in 0 .. MaxSinit
        /\ 0 \in 0 .. MaxAnswers
    BY BatchAssumption, SenderAssumption, AnswersAssumption
  <2>3. s2r \in Seq(Item) /\ r2s \in Seq(Item)
    BY <1>1 DEF LszOpenInit
  <2>4. /\ spc \in SPlaces /\ argn \in 1 .. NFiles + 1 /\ zrqinits \in 0 .. MaxZrqinit
        /\ serr \in 0 .. MaxSinit /\ answers \in 0 .. MaxAnswers
    BY <2>2 DEF LszOpenInit, LszInit, SPlaces
  <2>5. closed \in BOOLEAN /\ zmodem \in BOOLEAN /\ quiet \in BOOLEAN /\ eof_seen \in BOOLEAN
    BY DEF LszOpenInit, LszInit
  <2>6. /\ tries \in Nat /\ tmo \in 0 .. 1 /\ bytes_sent \in Nat /\ inpos \in Nat
        /\ lastsync \in Nat \cup {-1} /\ sexit \in {"no", "ok", "incomplete"}
    BY DEF LszOpenInit, LszInit
  <2>. QED BY <2>1, <2>3, <2>4, <2>5, <2>6 DEF LszTypeOK
<1>. QED BY <1>1, <1>2, <1>3 DEF LszOpenInit, LszInit, LInv, InFile, After, Offering, Streaming

\* Every step keeps the invariant and is honest.
LEMMA LInvNext == LInv /\ [LszOpenNext]_lszOpenVars => LInv' /\ [HonestStep]_lszOpenVars
<1>. SUFFICES ASSUME LInv, [LszOpenNext]_lszOpenVars PROVE LInv' /\ [HonestStep]_lszOpenVars
  OBVIOUS
<1>1. CASE LszStep
  <2>1. Step /\ LszNext
    BY <1>1 DEF LszStep, Step
  <2>2. CASE \/ SayRz \/ OpenNextFile \/ NoMoreFiles \/ GetNak \/ RxInitOffer
             \/ GetZrxinit \/ SendZsinit \/ SendZfile \/ ZsinitAnswer
    BY <2>1, <2>2, SayRzKeeps, OpenNextFileKeeps, NoMoreFilesKeeps, GetNakKeeps,
       RxInitOfferKeeps, GetZrxinitKeeps, OfferKeeps, ZsinitAnswerKeeps
  <2>3. CASE \/ ZfileAnswer \/ ZfileDrain \/ SendZdata \/ SendData \/ SendZeof
             \/ GetInsync \/ SendZfin \/ SayBibi
    BY <2>1, <2>3, ZfileAnswerKeeps, ZfileDrainKeeps, SendZdataKeeps, SendDataKeeps,
       SendZeofKeeps, GetInsyncKeeps, SendZfinKeeps, SayBibiKeeps
  <2>. QED BY <2>1, <2>2, <2>3 DEF LszNext
<1>2. CASE SendHeader \/ SendText \/ SendCancel \/ Absorb \/ HangUp
  BY <1>2, OthersKeep
<1>3. CASE UNCHANGED lszOpenVars
  <2>1. LszTypeOK'
    BY <1>3 DEF lszOpenVars, line, lszv, initv, datav, rxv, LInv, LszTypeOK
  <2>2. LInv'
    BY <1>3, <2>1 DEF lszOpenVars, line, lszv, initv, datav, rxv, LInv
  <2>. QED BY <1>3, <2>2
<1>. QED BY <1>1, <1>2, <1>3 DEF LszOpenNext

-----------------------------------------------------------------------------
(* The theorems *)

\* The inductive invariant holds against every receiver.
THEOREM SenderInvariant == LszOpenSpec => []LInv
  BY LInvInit, LInvNext, PTL DEF LszOpenSpec

\* The sender's variables keep their types, whatever the receiver answers: no more
\* than MaxZrqinit invitations are sent, no more than MaxSinit wrong answers to
\* ZSINIT are taken, and no position goes below zero.
THEOREM SenderTypes == LszOpenSpec => []LszTypeOK
<1>1. LInv => LszTypeOK
  BY DEF LInv
<1>. QED BY <1>1, SenderInvariant, PTL

\* Every block lsz sends carries the bytes of the place its header and the blocks
\* before it have announced, and ZEOF names the place where the blocks ended
\* (StreamIsHonest), for every batch, receiver and order of the answers.
THEOREM SendsHonestly == LszOpenSpec => StreamIsHonest
<1>1. LInv /\ [LszOpenNext]_lszOpenVars => [HonestStep]_lszOpenVars
  BY LInvNext
<1>2. LszOpenSpec => [][LszOpenNext]_lszOpenVars
  BY DEF LszOpenSpec
<1>3. LszOpenSpec => [][HonestStep]_lszOpenVars
  BY <1>1, <1>2, SenderInvariant, PTL
<1>. QED BY <1>3 DEF StreamIsHonest
=============================================================================
