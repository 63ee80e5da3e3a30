--------------------------- MODULE LrzOpenProofs ----------------------------
(***************************************************************************)
(* Type correctness of lrz against any honest sender, one lemma per group  *)
(* of actions, and the integrity of what it writes: what is in flight is an *)
(* honest stream (Stream), so a ZDATA header that rzfile accepts is followed *)
(* by the block of that place of the file under way (AtFrame), and putsec  *)
(* is reached with nothing else (DiskStep).  From there the theorems about *)
(* the files follow byte by byte.                                          *)
(***************************************************************************)
EXTENDS LrzOpen, SequenceTheorems, TLAPS

USE DEF openv

-----------------------------------------------------------------------------
(* Items and sequences of items *)

\* A header of any known type is an item (stohdr, zshhdr).
LEMMA HdrIsItem ==
  ASSUME NEW t \in FrameTypes, NEW f \in 0..NFiles, NEW p \in Nat
  PROVE  Hdr(t, f, p) \in Item
  BY DEF Hdr, Item

\* So is a data subpacket (zsdata, zsda32).
LEMMA SubIsItem ==
  ASSUME NEW e \in FrameEnds, NEW f \in 0..NFiles, NEW p \in Nat, NEW n \in Nat
  PROVE  Sub(e, f, p, n) \in Item
  BY DEF Sub, Item

\* canit and saybibi put items on the line.
LEMMA CanitIsItems ==
  Canit \in Seq(Item) /\ Canit \o Canit \o Canit \in Seq(Item) /\ OO \in Item
  <1>1. Can \in Item /\ OO \in Item
    BY BatchAssumption DEF Can, OO, Item
  <1>2. Canit \in Seq(Item)
    BY <1>1 DEF Canit
  <1>3. Canit \o Canit \in Seq(Item)
    BY <1>2, ConcatProperties
  <1> QED BY <1>1, <1>2, <1>3, ConcatProperties

\* Writing to the line, open or gone, keeps it a sequence of items.
LEMMA PutItems ==
  ASSUME NEW q \in Seq(Item), NEW items \in Seq(Item)
  PROVE  Put(q, items) \in Seq(Item)
  BY ConcatProperties DEF Put

\* The fields of an item are numbers.
LEMMA ItemFields ==
  ASSUME NEW a \in Item
  PROVE  /\ a.f \in 0..NFiles /\ a.pos \in Nat /\ a.n \in Nat
         /\ EndOf(a) \in Nat /\ EndOf(a) # -1
  <1>1. a.f \in 0..NFiles /\ a.pos \in Nat /\ a.n \in Nat
    BY DEF Item
  <1>2. a.pos + a.n \in Nat /\ a.pos + a.n # -1
    BY <1>1
  <1> QED BY <1>1, <1>2 DEF EndOf

\* What an item becomes when it is damaged is an item.
LEMMA JunkIsItem == ASSUME NEW f \in 0..NFiles PROVE Junk(f) \in Item
  BY DEF Junk, Item

\* Damage replaces one item by junk and leaves the others alone.
LEMMA DamageItems ==
  ASSUME NEW q \in Seq(Item), NEW i \in 1..Len(q)
  PROVE  /\ Damage(q, i) \in Seq(Item) /\ Len(Damage(q, i)) = Len(q)
         /\ Damage(q, i)[i] = Junk(q[i].f)
         /\ \A j \in 1..Len(q) : j # i => Damage(q, i)[j] = q[j]
  <1>1. q[i] \in Item
    BY ElementOfSeq
  <1>2. Junk(q[i].f) \in Item
    BY <1>1, JunkIsItem DEF Item
  <1> QED BY <1>2, ExceptSeq DEF Damage

\* A line is empty exactly when it holds no item.
LEMMA EmptyItems ==
  ASSUME NEW q \in Seq(Item)
  PROVE  Len(q) \in Nat /\ (q = <<>> <=> Len(q) = 0)
  BY EmptySeq, LenProperties

\* Taking the first item off a line that is not empty.
LEMMA TailItems ==
  ASSUME NEW q \in Seq(Item), q # <<>>
  PROVE  /\ Tail(q) \in Seq(Item) /\ Len(Tail(q)) = Len(q) - 1 /\ Len(q) \in Nat \ {0}
         /\ Head(q) = q[1] /\ q[1] \in Item
         /\ \A j \in 1..Len(Tail(q)) : Tail(q)[j] = q[j + 1]
  BY HeadTailProperties, EmptySeq, LenProperties, ElementOfSeq

\* Adding one or two items at the end of the line.
LEMMA ConcatIsAppend ==
  ASSUME NEW q \in Seq(Item), NEW a \in Item, NEW b \in Item
  PROVE  q \o <<a>> = Append(q, a) /\ q \o <<a, b>> = Append(Append(q, a), b)
  <1>1. q \o <<a>> = Append(q, a)
    <2>1. q \o <<a>> \in Seq(Item) /\ Append(q, a) \in Seq(Item)
      OBVIOUS
    <2>2. Len(q \o <<a>>) = Len(q) + 1 /\ Len(Append(q, a)) = Len(q) + 1
      OBVIOUS
    <2>3. \A i \in 1..Len(q \o <<a>>) : (q \o <<a>>)[i] = Append(q, a)[i]
      OBVIOUS
    <2> QED BY <2>1, <2>2, <2>3, SeqEqual
  <1>2. q \o <<a, b>> = Append(Append(q, a), b)
    <2>1. q \o <<a, b>> \in Seq(Item) /\ Append(Append(q, a), b) \in Seq(Item)
      OBVIOUS
    <2>2. Len(q \o <<a, b>>) = Len(q) + 2 /\ Len(Append(Append(q, a), b)) = Len(q) + 2
      OBVIOUS
    <2>3. \A i \in 1..Len(q \o <<a, b>>) : (q \o <<a, b>>)[i] = Append(Append(q, a), b)[i]
      OBVIOUS
    <2> QED BY <2>1, <2>2, <2>3, SeqEqual
  <1> QED BY <1>1, <1>2

-----------------------------------------------------------------------------
(* What zgethdr and zrdata return *)

\* zgethdr either reports the header at the head of the line as it was sent, or
\* reports none; it takes one item off, or leaves the rest of a long one as junk.
LEMMA GetHdrOutcome ==
  ASSUME NEW q \in Seq(Item), NEW e \in BOOLEAN, NEW r \in ZGetHdr(q, e)
  PROVE  /\ r.pos \in Nat /\ r.rest \in Seq(Item)
         /\ \/ q = <<>> /\ r.rest = <<>> /\ r.c = "TIMEOUT"
            \/ /\ q # <<>> /\ r.rest = Tail(q)
               /\ \/ r.c \in FrameTypes \cup FrameEnds \cup {""} /\ q[1].k = "hdr" /\ q[1].t = r.c /\ q[1].pos = r.pos
                  \/ r.c \in {"ZCAN", "scan", "MYERROR"} /\ q[1].k # "hdr"
            \/ q # <<>> /\ r.rest = Damage(q, 1) /\ r.c = "MYERROR" /\ q[1].k = "sub"
  <1>1. CASE q = <<>>
    <2>1. r = Outcome("TIMEOUT", 0, <<>>)
      BY <1>1 DEF ZGetHdr, AtEnd, When
    <2> QED BY <1>1, <2>1 DEF Outcome
  <1>2. CASE q # <<>>
    <2>1. /\ q[1] \in Item /\ Head(q) = q[1] /\ Tail(q) \in Seq(Item)
          /\ Damage(q, 1) \in Seq(Item)
      BY <1>2, TailItems, DamageItems
    <2> DEFINE h == q[1]
    <2>2. h.k \in {"hdr", "sub", "can", "oo", "junk"} /\ h.pos \in Nat /\ h.t \in FrameTypes \cup FrameEnds \cup {""}
      BY <2>1 DEF Item
    <2>3. CASE h.k = "hdr"
      <3>1. r = Outcome(h.t, h.pos, Tail(q))
        BY <1>2, <2>1, <2>3 DEF ZGetHdr, When
      <3> QED BY <1>2, <2>1, <2>2, <2>3, <3>1 DEF Outcome
    <2>4. CASE h.k = "can"
      <3>1. r = Outcome("ZCAN", 0, Tail(q))
        BY <1>2, <2>1, <2>4 DEF ZGetHdr, When
      <3> QED BY <1>2, <2>1, <2>4, <3>1 DEF Outcome
    <2>5. CASE h.k = "sub"
      <3>1. r \in {Outcome("scan", 0, Tail(q)), Outcome("MYERROR", 0, Tail(q)),
                   Outcome("MYERROR", 0, Damage(q, 1))}
        BY <1>2, <2>1, <2>5 DEF ZGetHdr, When
      <3>2. CASE r = Outcome("scan", 0, Tail(q))
        BY <1>2, <2>1, <2>5, <3>2 DEF Outcome
      <3>3. CASE r = Outcome("MYERROR", 0, Tail(q))
        BY <1>2, <2>1, <2>5, <3>3 DEF Outcome
      <3>4. CASE r = Outcome("MYERROR", 0, Damage(q, 1))
        BY <1>2, <2>1, <2>5, <3>4 DEF Outcome
      <3> QED BY <3>1, <3>2, <3>3, <3>4
    <2>6. CASE h.k \in {"junk", "oo"}
      <3>1. r \in {Outcome("scan", 0, Tail(q)), Outcome("MYERROR", 0, Tail(q))}
        BY <1>2, <2>1, <2>6 DEF ZGetHdr, When
      <3>2. CASE r = Outcome("scan", 0, Tail(q))
        BY <1>2, <2>1, <2>6, <3>2 DEF Outcome
      <3>3. CASE r = Outcome("MYERROR", 0, Tail(q))
        BY <1>2, <2>1, <2>6, <3>3 DEF Outcome
      <3> QED BY <3>1, <3>2, <3>3
    <2> QED BY <2>2, <2>3, <2>4, <2>5, <2>6
  <1> QED BY <1>1, <1>2

\* zrdata reports a frame end only for an intact subpacket at the head of the
\* line, with that subpacket's length; otherwise it takes at most two items off.
LEMMA RDataOutcome ==
  ASSUME NEW q \in Seq(Item), NEW e \in BOOLEAN, NEW r \in ZRData(q, e)
  PROVE  /\ r.pos \in Nat /\ r.rest \in Seq(Item)
         /\ \/ q = <<>> /\ r.rest = <<>> /\ r.c = "TIMEOUT"
            \/ /\ q # <<>> /\ r.rest = Tail(q)
               /\ \/ q[1].k = "sub" /\ r.c = q[1].t /\ r.pos = q[1].n
                  \/ r.c \in {"ZCAN", "MYERROR", "TIMEOUT"} /\ q[1].k # "sub"
                  \/ r.c = "scan" /\ q[1].k \notin {"sub", "can", "junk"}
            \/ /\ q # <<>> /\ r.c = "MYERROR"
               /\ Tail(q) # <<>> /\ r.rest = Tail(Tail(q))
               /\ q[1].k \notin {"sub", "can", "junk"} /\ q[2].k = "sub"
  <1>1. CASE q = <<>>
    <2>1. r = Outcome("TIMEOUT", 0, <<>>)
      BY <1>1 DEF ZRData, AtEnd, When
    <2> QED BY <1>1, <2>1 DEF Outcome
  <1>2. CASE q # <<>>
    <2>1. /\ q[1] \in Item /\ Head(q) = q[1] /\ Tail(q) \in Seq(Item)
          /\ Len(Tail(q)) = Len(q) - 1 /\ Len(q) \in Nat \ {0}
      BY <1>2, TailItems
    <2> DEFINE h == q[1]
    <2>2. h.k \in {"hdr", "sub", "can", "oo", "junk"} /\ h.n \in Nat
      BY <2>1 DEF Item
    <2>3. CASE h.k = "sub"
      <3>1. r = Outcome(h.t, h.n, Tail(q))
        BY <1>2, <2>1, <2>3 DEF ZRData, When
      <3> QED BY <1>2, <2>1, <2>2, <2>3, <3>1 DEF Outcome
    <2>4. CASE h.k = "can"
      <3>1. r = Outcome("ZCAN", 0, Tail(q))
        BY <1>2, <2>1, <2>4 DEF ZRData, When
      <3> QED BY <1>2, <2>1, <2>4, <3>1 DEF Outcome
    <2>5. CASE h.k = "junk"
      <3>1. r = Outcome("MYERROR", 0, Tail(q))
        BY <1>2, <2>1, <2>5 DEF ZRData, When
      <3> QED BY <1>2, <2>1, <2>5, <3>1 DEF Outcome
    <2>6. CASE h.k \notin {"sub", "can", "junk"}
      <3>1. CASE Len(q) = 1
        <4>1. r = Outcome("TIMEOUT", 0, <<>>)
          BY <1>2, <2>1, <2>6, <3>1 DEF ZRData, When
        <4>2. Tail(q) = <<>>
          <5>1. Len(Tail(q)) = 0
            BY <2>1, <3>1
          <5> QED BY <2>1, <5>1, EmptyItems
        <4> QED BY <1>2, <2>1, <2>6, <4>1, <4>2 DEF Outcome
      <3>2. CASE Len(q) # 1
        <4>1. Tail(q) # <<>> /\ Tail(Tail(q)) \in Seq(Item)
          <5>1. Len(Tail(q)) # 0
            BY <2>1, <3>2
          <5>2. Tail(q) # <<>>
            BY <2>1, <5>1, EmptyItems
          <5> QED BY <2>1, <5>2, TailItems
        <4>2. CASE q[2].k = "sub"
          <5>1. r = Outcome("MYERROR", 0, Tail(Tail(q)))
            BY <1>2, <2>1, <2>6, <3>2, <4>2 DEF ZRData, When
          <5> QED BY <1>2, <2>1, <2>6, <4>1, <4>2, <5>1 DEF Outcome
        <4>3. CASE q[2].k # "sub"
          <5>1. r = Outcome("scan", 0, Tail(q))
            BY <1>2, <2>1, <2>6, <3>2, <4>3 DEF ZRData, When
          <5> QED BY <1>2, <2>1, <2>6, <5>1 DEF Outcome
        <4> QED BY <4>2, <4>3
      <3> QED BY <3>1, <3>2
    <2> QED BY <2>2, <2>3, <2>4, <2>5, <2>6
  <1> QED BY <1>1, <1>2

-----------------------------------------------------------------------------
(* Type correctness *)

Bytes == (0..NFiles) \X Nat

\* A piece of a file is a sequence of bytes.
LEMMA SliceIsBytes ==
  ASSUME NEW f \in 0..NFiles, NEW p \in Nat, NEW n \in Nat
  PROVE  Slice(f, p, n) \in Seq(Bytes)
  BY DEF Slice, Bytes

\* putsec keeps the files sequences of bytes and the count a number.
LEMMA WriteIsTyped ==
  ASSUME LrzTypeOK, NEW f \in 0..NFiles, NEW p \in Nat, NEW n \in Nat, Putsec(f, p, n)
  PROVE  disk' \in [Files -> Seq((0..NFiles) \X Nat)] /\ bytes_received' \in Nat
  <1>1. Slice(f, p, n) \in Seq(Bytes)
    BY SliceIsBytes
  <1>2. ASSUME NEW h \in Files PROVE disk[h] \o Slice(f, p, n) \in Seq(Bytes)
    <2>1. disk[h] \in Seq(Bytes)
      BY DEF LrzTypeOK, Bytes
    <2> QED BY <1>1, <2>1, ConcatProperties
  <1>3. disk' \in [Files -> Seq(Bytes)]
    BY <1>2 DEF Putsec, LrzTypeOK, Bytes
  <1>4. bytes_received' \in Nat
    BY DEF Putsec, LrzTypeOK
  <1> QED BY <1>3, <1>4 DEF Bytes

\* Reply and the final cancel keep the type of the line to the sender.
LEMMA ReplyIsTyped ==
  ASSUME LrzTypeOK, NEW t \in FrameTypes, NEW p \in Nat
  PROVE  /\ Put(r2s, <<Hdr(t, fname, p)>>) \in Seq(Item)
         /\ Put(r2s, <<Junk(fname)>>) \in Seq(Item)
  <1>1. Hdr(t, fname, p) \in Item /\ Junk(fname) \in Item
    BY HdrIsItem, JunkIsItem DEF LrzTypeOK
  <1>2. <<Hdr(t, fname, p)>> \in Seq(Item) /\ <<Junk(fname)>> \in Seq(Item)
    BY <1>1
  <1> QED BY <1>2, PutItems, CanitIsItems DEF LrzTypeOK

\* The clean-up of a failed session keeps the types.
LEMMA FubarIsTyped ==
  ASSUME LrzTypeOK, Fubar \/ FubarUnclosed
  PROVE  /\ r2s' \in Seq(Item) /\ rpc' = "exit" /\ rexit' = "error"
         /\ disk' \in [Files -> Seq(Bytes)] /\ rstat' \in [Files -> RStats]
         /\ UNCHANGED <<openv, bytes_received, anker>>
  <1>1. r2s' \in Seq(Item)
    <2>1. Put(r2s, Canit \o Canit \o Canit) \in Seq(Item) /\ Put(r2s, Canit) \in Seq(Item)
      BY PutItems, CanitIsItems DEF LrzTypeOK
    <2> QED BY <2>1 DEF Fubar, FubarUnclosed
  <1>2. disk' \in [Files -> Seq(Bytes)] /\ rstat' \in [Files -> RStats]
    <2>1. <<>> \in Seq(Bytes)
      BY EmptySeq
    <2>2. disk' \in [Files -> Seq(Bytes)]
      BY <2>1 DEF Fubar, FubarUnclosed, Removed, LrzTypeOK, Bytes
    <2>3. "removed" \in RStats
      BY DEF RStats
    <2>4. rstat' \in [Files -> RStats]
      BY <2>3 DEF Fubar, FubarUnclosed, Removed, LrzTypeOK
    <2> QED BY <2>2, <2>4
  <1> QED BY <1>1, <1>2 DEF Fubar, FubarUnclosed

\* The types hold when lrz starts.
LEMMA TypeInit == OpenInit => LrzTypeOK
  <1> SUFFICES ASSUME OpenInit PROVE LrzTypeOK
    OBVIOUS
  <1>1. <<>> \in Seq(Item) /\ <<>> \in Seq(Bytes)
    BY EmptySeq
  <1>2. disk \in [Files -> Seq((0..NFiles) \X Nat)]
    BY <1>1 DEF OpenInit, LrzInit, Bytes
  <1>3. rstat \in [Files -> RStats]
    BY DEF OpenInit, LrzInit, RStats
  <1>4. /\ tryleft \in Nat /\ txf \in Files /\ sent \in 0..MaxSent /\ faults \in 0..MaxFaults
        /\ fname \in 0..NFiles /\ path \in 0..NFiles /\ zmanag \in Nat
    BY BatchAssumption, FaultAssumption, ReceiverAssumption, OpenAssumption
       DEF OpenInit, LrzInit, Files, NoRequest
  <1> QED BY <1>1, <1>2, <1>3, <1>4 DEF OpenInit, LrzInit, LrzTypeOK, InTryz

\* tryz keeps the types.
LEMMA TypeTryz ==
  ASSUME LrzTypeOK, UNCHANGED txv,
         TryzOffer \/ TryzGiveUp \/ TryzHdr \/ TryzFile \/ TryzSinit \/ TryzCommand
  PROVE  LrzTypeOK'
  <1> USE DEF tryzv, filev, txv, Goto, InTryz
  <1>1. CASE TryzOffer
    <2>1. r2s' \in Seq(Item)
      BY <1>1, ReplyIsTyped DEF TryzOffer, Reply, LrzTypeOK, FrameTypes
    <2> QED BY <1>1, <2>1 DEF TryzOffer, LrzTypeOK
  <1>2. CASE TryzGiveUp
    <2>1. CASE fname = 0
      BY <1>2, <2>1 DEF TryzGiveUp, LrzTypeOK
    <2>2. CASE fname # 0
      BY <1>2, <2>2, FubarIsTyped DEF TryzGiveUp, LrzTypeOK, Bytes
    <2> QED BY <2>1, <2>2
  <1>3. CASE TryzHdr
    <2>1. PICK r \in ZGetHdr(s2r, closed) : TryzHdr!2!(r)
      BY <1>3 DEF TryzHdr
    <2>2. s2r' \in Seq(Item) /\ zmanag' \in Nat
      BY <2>1, GetHdrOutcome DEF LrzTypeOK
    <2>3. CASE r.c \in {"ZRINIT", "ZCAN"}
      BY <1>3, <2>1, <2>2, <2>3, FubarIsTyped DEF TryzHdr, LrzTypeOK, Bytes
    <2>4. CASE r.c \notin {"ZRINIT", "ZCAN"}
      <3>1. r2s' \in Seq(Item)
        BY <2>1, <2>4, ReplyIsTyped DEF Reply, LrzTypeOK, FrameTypes
      <3>2. UNCHANGED <<filev, rexit>>
        BY <2>1, <2>4
      <3>a. tryleft' = tryleft \/ tryleft' = tryleft + 1
        BY <2>1, <2>4
      <3>b. rqs' = rqs \/ rqs' = rqs + 1
        BY <2>1, <2>4
      <3>c. nleft' = nleft \/ nleft' = 3
        BY <2>1, <2>4
      <3>d. hdrtype' = hdrtype \/ hdrtype' = "ZRINIT"
        BY <2>1, <2>4
      <3>3. tryleft' \in Nat /\ rqs' \in Nat /\ nleft' \in Nat /\ hdrtype' \in {"ZRINIT", "ZSKIP"}
        BY <3>a, <3>b, <3>c, <3>d DEF LrzTypeOK
      <3>4. rpc' \in InTryz \cup InRzfile \cup
                     {"procheader", "bibi", "bibiWait", "exit", "ymodem", "asleep"}
        BY <2>1, <2>4 DEF LrzTypeOK
      <3> QED BY <1>3, <2>2, <3>1, <3>2, <3>3, <3>4 DEF TryzHdr, LrzTypeOK
    <2> QED BY <2>3, <2>4
  <1>4. CASE TryzFile
    <2>1. PICK r \in ZRData(s2r, closed) : TryzFile!2!(r)
      BY <1>4 DEF TryzFile
    <2>2. s2r' \in Seq(Item)
      BY <2>1, RDataOutcome DEF LrzTypeOK
    <2>3. r2s' \in Seq(Item)
      BY <2>1, ReplyIsTyped DEF Reply, LrzTypeOK, FrameTypes
    <2>4. fname' \in 0..NFiles
      <3>1. CASE r.c = "ZCRCW"
        <4>1. s2r # <<>>
          BY <3>1, RDataOutcome DEF LrzTypeOK
        <4>2. Head(s2r) \in Item
          BY <4>1, TailItems DEF LrzTypeOK
        <4> QED BY <2>1, <3>1, <4>2 DEF Item
      <3>2. CASE r.c # "ZCRCW"
        BY <2>1, <3>2 DEF LrzTypeOK
      <3> QED BY <3>1, <3>2
    <2> QED BY <1>4, <2>1, <2>2, <2>3, <2>4 DEF TryzFile, LrzTypeOK
  <1>5. CASE TryzSinit
    <2>1. PICK r \in ZRData(s2r, closed) : TryzSinit!2!(r)
      BY <1>5 DEF TryzSinit
    <2>2. s2r' \in Seq(Item)
      BY <2>1, RDataOutcome DEF LrzTypeOK
    <2>3. r2s' \in Seq(Item)
      BY <2>1, ReplyIsTyped DEF Reply, LrzTypeOK, FrameTypes
    <2>4. attn' \in {"none", "text", "pause"}
      BY <2>1 DEF LrzTypeOK
    <2> QED BY <1>5, <2>1, <2>2, <2>3, <2>4 DEF TryzSinit, LrzTypeOK
  <1>6. CASE TryzCommand
    <2>1. PICK r \in ZRData(s2r, closed) : TryzCommand!2!(r)
      BY <1>6 DEF TryzCommand
    <2>2. s2r' \in Seq(Item)
      BY <2>1, RDataOutcome DEF LrzTypeOK
    <2>3. r2s' \in Seq(Item)
      BY <2>1, ReplyIsTyped DEF Reply, LrzTypeOK, FrameTypes
    <2> QED BY <1>6, <2>1, <2>2, <2>3 DEF TryzCommand, LrzTypeOK
  <1> QED BY <1>1, <1>2, <1>3, <1>4, <1>5, <1>6

\* The retry limits are numbers.
LEMMA LimitsAreNat == MaxTry \in Nat /\ MaxErrors \in Nat
  BY ReceiverAssumption

\* What resuming keeps of a file is not more than the file sent.
LEMMA KeptIsBounded ==
  ASSUME LrzTypeOK, NEW f \in Files
  PROVE  Kept(f) \in Nat /\ Kept(f) <= Size[f]
  <1>1. Size[f] \in Nat /\ OldLen[f] \in Nat /\ WholeBlock \in Nat \ {0}
    BY BatchAssumption, ReceiverAssumption DEF Files
  <1>2. LengthOf(f) \in Nat
    <2>1. start[f] \in Nat /\ Len(disk[f]) \in Nat
      BY LenProperties DEF LrzTypeOK
    <2> QED BY <1>1, <2>1 DEF LengthOf
  <1>3. LengthOf(f) % WholeBlock \in Nat /\ LengthOf(f) % WholeBlock <= LengthOf(f)
    BY <1>1, <1>2
  <1> QED BY <1>1, <1>2, <1>3 DEF Kept

\* procheader and rzfile keep the types.
LEMMA TypeRzfile ==
  ASSUME LrzTypeOK, UNCHANGED txv, rpc = "procheader" => fname \in Files,
         ProcHeader \/ SendRpos \/ NextHeader \/ RzHdr \/ RzJunkData \/ RzOosbData
         \/ Zmputs \/ RzMoreData
  PROVE  LrzTypeOK'
  <1> USE DEF tryzv, filev, txv, Goto, InTryz, InRzfile, Retry
  <1>1. CASE ProcHeader
    <2>1. {"refused", "open"} \subseteq RStats /\ <<>> \in Seq((0..NFiles) \X Nat)
      BY EmptySeq DEF RStats
    <2>2. rstat' \in [Files -> RStats]
      BY <1>1, <2>1 DEF ProcHeader, LrzTypeOK
    <2>3. disk' \in [Files -> Seq((0..NFiles) \X Nat)]
      BY <1>1, <2>1 DEF ProcHeader, LrzTypeOK
    <2>4. /\ tryleft' \in Nat /\ rqs' \in Nat /\ nleft' \in Nat /\ hdrtype' \in {"ZRINIT", "ZSKIP"}
          /\ path' \in 0..NFiles /\ rpc' \in {"tryz", "rpos"}
      <3>1. /\ tryleft' \in {tryleft, MaxTry} /\ rqs' \in {rqs, 0} /\ nleft' \in {nleft, MaxErrors}
            /\ hdrtype' \in {hdrtype, "ZSKIP"} /\ path' \in {path, fname}
            /\ rpc' \in {"tryz", "rpos"}
        BY <1>1 DEF ProcHeader, NextTryz
      <3> QED BY <3>1, LimitsAreNat DEF LrzTypeOK
    <2>5. UNCHANGED <<line, fname, zmanag, rxpos, anker, attn, rexit>>
      BY <1>1 DEF ProcHeader
    <2>6. /\ bytes_skipped' \in Nat /\ bytes_received' \in Nat
          /\ start' \in [Files -> Nat]
      <3>1. Kept(fname) \in Nat
        BY <1>1, KeptIsBounded DEF ProcHeader
      <3>2. /\ bytes_skipped' \in {bytes_skipped, 0, Kept(fname)}
            /\ bytes_received' \in {bytes_received, bytes_skipped'}
            /\ start' \in {start, [start EXCEPT ![fname] = 0], [start EXCEPT ![fname] = Kept(fname)]}
        BY <1>1 DEF ProcHeader
      <3> QED BY <3>1, <3>2 DEF LrzTypeOK
    <2> QED BY <2>2, <2>3, <2>4, <2>5, <2>6 DEF LrzTypeOK, line
  <1>2. CASE SendRpos
    <2>1. r2s' \in Seq(Item)
      BY <1>2, ReplyIsTyped DEF SendRpos, Reply, LrzTypeOK, FrameTypes
    <2> QED BY <1>2, <2>1 DEF SendRpos, LrzTypeOK
  <1>3. CASE NextHeader
    <2>1. CASE \E b \in anker : NextHeader!2!1!(b)
      <3>1. PICK b \in anker : NextHeader!2!1!(b)
        BY <2>1
      <3>2. b.f \in 0..NFiles /\ b.from \in Nat /\ b.n \in Nat
        BY DEF LrzTypeOK
      <3>3. Putsec(b.f, b.from, b.n) /\ UNCHANGED <<rpc, anker>>
        BY <3>1
      <3>4. disk' \in [Files -> Seq((0..NFiles) \X Nat)] /\ bytes_received' \in Nat
        BY <3>2, <3>3, WriteIsTyped
      <3>5. UNCHANGED <<line, tryzv, nleft, fname, zmanag, rxpos, openv, rstat, attn, rexit>>
        BY <1>3 DEF NextHeader
      <3> QED BY <3>3, <3>4, <3>5 DEF LrzTypeOK, line
    <2>2. CASE NextHeader!2!2
      BY <1>3, <2>2 DEF NextHeader, LrzTypeOK, line
    <2> QED BY <1>3, <2>1, <2>2 DEF NextHeader
  <1>4. CASE RzHdr
    <2>1. PICK r \in ZGetHdr(s2r, closed) : RzHdr!2!(r)
      BY <1>4 DEF RzHdr
    <2>2. s2r' \in Seq(Item) /\ r.pos \in Nat
      BY <2>1, GetHdrOutcome DEF LrzTypeOK
    <2>3. UNCHANGED <<closed, faults, fname, zmanag, attn>>
      BY <1>4 DEF RzHdr
    <2>4. CASE (Fubar \/ FubarUnclosed) /\ UNCHANGED <<tryzv, nleft, rxpos>>
      BY <2>2, <2>3, <2>4, FubarIsTyped DEF LrzTypeOK, Bytes
    <2>5. CASE ~((Fubar \/ FubarUnclosed) /\ UNCHANGED <<tryzv, nleft, rxpos>>)
      <3>1. {"closed", "skipped", "removed"} \subseteq RStats /\ <<>> \in Seq((0..NFiles) \X Nat)
        BY EmptySeq DEF RStats
      <3>2. /\ UNCHANGED <<r2s, openv, bytes_received, anker, rexit>>
            /\ disk' \in {disk, [disk EXCEPT ![path] = <<>>]}
            /\ rstat' \in {rstat, [rstat EXCEPT ![path] = "closed"],
                           [rstat EXCEPT ![path] = "skipped"], [rstat EXCEPT ![path] = "removed"]}
        BY <2>1, <2>5 DEF Removed
      <3>3. rstat' \in [Files -> RStats] /\ disk' \in [Files -> Seq((0..NFiles) \X Nat)]
        BY <3>1, <3>2 DEF LrzTypeOK
      <3>a. /\ tryleft' \in {tryleft, MaxTry} /\ rqs' \in {rqs, 0} /\ hdrtype' = hdrtype
            /\ rxpos' \in {rxpos, r.pos} /\ (nleft' = nleft \/ (nleft > 0 /\ nleft' = nleft - 1))
        BY <2>1, <2>5 DEF NextTryz
      <3>4. /\ tryleft' \in Nat /\ rqs' \in Nat /\ nleft' \in Nat
            /\ hdrtype' \in {"ZRINIT", "ZSKIP"} /\ rxpos' \in Nat
        BY <2>2, <3>a, LimitsAreNat DEF LrzTypeOK
      <3>5. rpc' \in InTryz \cup InRzfile
        BY <1>4, <2>1, <2>5 DEF NextTryz, RzHdr
      <3> QED BY <2>2, <2>3, <3>2, <3>3, <3>4, <3>5 DEF LrzTypeOK
    <2> QED BY <2>1, <2>4, <2>5
  <1>5. CASE RzJunkData
    <2>1. PICK r \in ZRData(s2r, closed) : RzJunkData!2!(r)
      BY <1>5 DEF RzJunkData
    <2>2. s2r' \in Seq(Item)
      BY <2>1, RDataOutcome DEF LrzTypeOK
    <2> QED BY <1>5, <2>1, <2>2 DEF RzJunkData, LrzTypeOK
  <1>6. CASE RzOosbData
    <2>1. PICK r \in ZRData(s2r, closed) : RzOosbData!2!(r)
      BY <1>6 DEF RzOosbData
    <2>2. s2r' \in Seq(Item) /\ r.pos \in Nat
      BY <2>1, RDataOutcome DEF LrzTypeOK
    <2>3. anker' \subseteq [pos : Nat, f : 0..NFiles, from : Nat, n : Nat]
      <3>1. CASE r.c \in FrameEnds
        <4>1. s2r # <<>>
          BY <3>1, RDataOutcome DEF LrzTypeOK, FrameEnds
        <4>2. Head(s2r) \in Item
          BY <4>1, TailItems DEF LrzTypeOK
        <4>3. [pos |-> rxpos, f |-> Head(s2r).f, from |-> Head(s2r).pos, n |-> r.pos]
                \in [pos : Nat, f : 0..NFiles, from : Nat, n : Nat]
          BY <2>2, <4>2 DEF Item, LrzTypeOK
        <4> QED BY <2>1, <4>3 DEF LrzTypeOK
      <3>2. CASE r.c \notin FrameEnds
        BY <2>1, <3>2 DEF LrzTypeOK
      <3> QED BY <3>1, <3>2
    <2> QED BY <1>6, <2>1, <2>2, <2>3 DEF RzOosbData, LrzTypeOK
  <1>7. CASE Zmputs
    <2>1. r2s' \in Seq(Item)
      BY <1>7, ReplyIsTyped DEF Zmputs, LrzTypeOK, FrameTypes
    <2> QED BY <1>7, <2>1 DEF Zmputs, LrzTypeOK
  <1>8. CASE RzMoreData
    <2>1. PICK r \in ZRData(s2r, closed) : RzMoreData!2!(r)
      BY <1>8 DEF RzMoreData
    <2>2. s2r' \in Seq(Item) /\ r.pos \in Nat
      BY <2>1, RDataOutcome DEF LrzTypeOK
    <2>3. CASE r.c \in FrameEnds
      <3>1. s2r # <<>>
        BY <2>3, RDataOutcome DEF LrzTypeOK, FrameEnds
      <3>2. Head(s2r).f \in 0..NFiles /\ Head(s2r).pos \in Nat
        BY <3>1, TailItems DEF LrzTypeOK, Item
      <3>3. /\ nleft' = MaxErrors /\ Putsec(Head(s2r).f, Head(s2r).pos, r.pos)
            /\ IF r.c \in {"ZCRCW", "ZCRCQ"} THEN Reply("ZACK", bytes_received')
                                             ELSE UNCHANGED r2s
            /\ rpc' \in {"moredata", "nxthdr"}
            /\ UNCHANGED <<openv, rstat, anker, rexit>>
        BY <2>1, <2>3 DEF FrameEnds
      <3>4. disk' \in [Files -> Seq((0..NFiles) \X Nat)] /\ bytes_received' \in Nat
        BY <2>2, <3>2, <3>3, WriteIsTyped
      <3>5. r2s' \in Seq(Item)
        BY <3>3, <3>4, ReplyIsTyped DEF Reply, LrzTypeOK, FrameTypes
      <3>6. nleft' \in Nat /\ rpc' \in InRzfile
        BY <3>3, LimitsAreNat
      <3>7. UNCHANGED <<openv, rstat, anker, rexit, closed, faults, tryzv, fname, zmanag, rxpos, attn>>
        BY <1>8, <3>3 DEF RzMoreData
      <3> QED BY <2>2, <3>4, <3>5, <3>6, <3>7 DEF LrzTypeOK
    <2>4. CASE Fubar /\ UNCHANGED nleft
      BY <1>8, <2>2, <2>4, FubarIsTyped DEF RzMoreData, LrzTypeOK, Bytes
    <2>5. CASE r.c \notin FrameEnds /\ ~(Fubar /\ UNCHANGED nleft)
      <3>1. /\ nleft' = nleft \/ (nleft > 0 /\ nleft' = nleft - 1)
            /\ rpc' \in {rpc, "zmputs", "rpos"}
            /\ UNCHANGED <<r2s, filev, rexit>>
        BY <2>1, <2>5
      <3>2. nleft' \in Nat
        BY <3>1 DEF LrzTypeOK
      <3>3. UNCHANGED <<closed, faults, tryzv, fname, zmanag, rxpos, attn>>
        BY <1>8 DEF RzMoreData
      <3> QED BY <2>2, <3>1, <3>2, <3>3 DEF LrzTypeOK
    <2> QED BY <2>3, <2>4, <2>5
  <1> QED BY <1>1, <1>2, <1>3, <1>4, <1>5, <1>6, <1>7, <1>8

\* ackbibi keeps the types.
LEMMA TypeBibi ==
  ASSUME LrzTypeOK, UNCHANGED txv, AckBibi \/ BibiWait
  PROVE  LrzTypeOK'
  <1> USE DEF tryzv, filev, txv, Goto
  <1>1. CASE AckBibi
    <2>1. ASSUME NEW k \in 1..(Len(s2r) + 1) PROVE SubSeq(s2r, k, Len(s2r)) \in Seq(Item)
      <3>1. \A i \in k..Len(s2r) : s2r[i] \in Item
        BY ElementOfSeq, EmptyItems DEF LrzTypeOK
      <3>2. k \in Int /\ Len(s2r) \in Int
        BY EmptyItems DEF LrzTypeOK
      <3> QED BY <3>1, <3>2, SubSeqProperties
    <2>2. r2s' \in Seq(Item)
      BY <1>1, ReplyIsTyped DEF AckBibi, Reply, LrzTypeOK, FrameTypes
    <2>3. s2r' \in Seq(Item)
      BY <1>1, <2>1 DEF AckBibi, LrzTypeOK
    <2>4. nleft' \in Nat /\ rpc' \in {"bibiWait", "exit"} /\ rexit' \in {rexit, "ok"}
      BY <1>1 DEF AckBibi, LrzTypeOK
    <2>5. UNCHANGED <<closed, faults, tryzv, fname, zmanag, rxpos, filev, attn>>
      BY <1>1 DEF AckBibi
    <2> QED BY <2>2, <2>3, <2>4, <2>5 DEF LrzTypeOK
  <1>2. CASE BibiWait
    <2>1. s2r' \in Seq(Item)
      BY <1>2, TailItems DEF BibiWait, LrzTypeOK
    <2> QED BY <1>2, <2>1 DEF BibiWait, LrzTypeOK
  <1> QED BY <1>1, <1>2

\* The sender's request fits into a header.
LEMMA AsksIsNat == Asks \in Nat
  BY OpenAssumption DEF Requests, NoRequest, ZCRESUM

\* What one Transmit appends is a sequence of items.
LEMMA OfferedItems ==
  ASSUME LrzTypeOK
  PROVE  /\ \A t \in FrameTypes, p \in Nat : <<Hdr(t, txf, p)>> \in Seq(Item)
         /\ \A e \in FrameEnds, p \in Nat, n \in Nat : <<Sub(e, txf, p, n)>> \in Seq(Item)
         /\ \A t \in FrameTypes, p, n \in Nat : <<Hdr(t, txf, p), Sub("ZCRCW", txf, 0, n)>> \in Seq(Item)
         /\ <<OO>> \in Seq(Item)
  <1>1. txf \in 0..NFiles
    BY BatchAssumption DEF LrzTypeOK, Files
  <1>2. \A t \in FrameTypes, p \in Nat : Hdr(t, txf, p) \in Item
    BY <1>1, HdrIsItem
  <1>3. \A e \in FrameEnds, p \in Nat, n \in Nat : Sub(e, txf, p, n) \in Item
    BY <1>1, SubIsItem
  <1>4. "ZCRCW" \in FrameEnds /\ OO \in Item
    BY CanitIsItems DEF FrameEnds
  <1> QED BY <1>2, <1>3, <1>4

\* Whatever sequence of items a sender adds, the types stay.
LEMMA TypeTransmit ==
  ASSUME LrzTypeOK, NEW items \in Seq(Item), NEW p \in Nat \cup {-1}, Transmit(items, p),
         UNCHANGED txf
  PROVE  LrzTypeOK'
  <1>1. s2r' \in Seq(Item)
    BY ConcatProperties DEF Transmit, LrzTypeOK
  <1>2. sent' \in 0..MaxSent
    BY OpenAssumption DEF Transmit, LrzTypeOK
  <1> QED BY <1>1, <1>2 DEF Transmit, LrzTypeOK, lrzv, tryzv, filev

\* Every step of the sender keeps the types.
LEMMA TypeSender ==
  ASSUME LrzTypeOK, SenderStep
  PROVE  LrzTypeOK'
  <1>a. /\ Size[txf] \in Nat /\ BlockLens \subseteq Nat /\ AttnLens \subseteq Nat
        /\ Others \subseteq FrameTypes /\ Asks \in Nat
    BY BatchAssumption, OpenAssumption, AsksIsNat DEF LrzTypeOK, Files
  <1>b. {"ZFILE", "ZDATA", "ZEOF", "ZSINIT", "ZCOMMAND"} \subseteq FrameTypes
    BY DEF FrameTypes
  <1>1. CASE OfferFile
    BY <1>1, <1>a, <1>b, OfferedItems, TypeTransmit DEF OfferFile
  <1>2. CASE NextFile
    <2>1. txf' \in Files
      BY <1>2, BatchAssumption DEF NextFile, LrzTypeOK, Files
    <2> QED BY <1>2, <2>1 DEF NextFile, LrzTypeOK, line, lrzv, tryzv, filev
  <1>3. CASE OpenFrame
    <2>1. PICK p \in 0..Size[txf] : Transmit(<<Hdr("ZDATA", txf, p)>>, p)
      BY <1>3 DEF OpenFrame
    <2>2. p \in Nat
      BY <1>a
    <2> QED BY <1>3, <1>b, <2>1, <2>2, OfferedItems, TypeTransmit DEF OpenFrame
  <1>4. CASE SendBlock
    <2>1. PICK n \in BlockLens, e \in FrameEnds :
            Transmit(<<Sub(e, txf, txpos, n)>>, IF e \in {"ZCRCG", "ZCRCQ"} THEN txpos + n ELSE -1)
      BY <1>4 DEF SendBlock
    <2>2. txpos \in Nat /\ n \in Nat
      BY <1>4, <1>a DEF SendBlock, LrzTypeOK
    <2>3. (IF e \in {"ZCRCG", "ZCRCQ"} THEN txpos + n ELSE -1) \in Nat \cup {-1}
      BY <2>2
    <2> QED BY <1>4, <2>1, <2>2, <2>3, OfferedItems, TypeTransmit DEF SendBlock
  <1>5. CASE SendEof
    BY <1>5, <1>a, <1>b, OfferedItems, TypeTransmit DEF SendEof
  <1>6. CASE SendOther
    <2>1. \E items \in Seq(Item) : Transmit(items, -1)
      <3>1. CASE \E t \in Others : Transmit(<<Hdr(t, txf, 0)>>, -1)
        BY <1>a, <3>1, OfferedItems
      <3>2. CASE \E n \in AttnLens : Transmit(<<Hdr("ZSINIT", txf, 0), Sub("ZCRCW", txf, 0, n)>>, -1)
        BY <1>a, <1>b, <3>2, OfferedItems
      <3>3. CASE Transmit(<<Hdr("ZCOMMAND", txf, 0), Sub("ZCRCW", txf, 0, 1)>>, -1)
        BY <1>b, <3>3, OfferedItems
      <3>4. CASE Transmit(<<OO>>, -1)
        BY <3>4, OfferedItems
      <3> QED BY <1>6, <3>1, <3>2, <3>3, <3>4 DEF SendOther
    <2> QED BY <1>6, <2>1, TypeTransmit DEF SendOther
  <1>7. CASE Cancel
    BY <1>7, CanitIsItems, TypeTransmit DEF Cancel
  <1>8. CASE TakeReply
    <2>1. r2s' \in Seq(Item)
      BY <1>8, TailItems DEF TakeReply, LrzTypeOK
    <2> QED BY <1>8, <2>1 DEF TakeReply, LrzTypeOK, lrzv, tryzv, filev, txv
  <1> QED BY <1>1, <1>2, <1>3, <1>4, <1>5, <1>6, <1>7, <1>8 DEF SenderStep

\* Damage and hangup keep the types.
LEMMA TypeLine ==
  ASSUME LrzTypeOK, LineStep
  PROVE  LrzTypeOK'
  <1> USE DEF lrzv, tryzv, filev, txv
  <1>1. CASE DamageToReceiver
    <2>1. PICK i \in DOMAIN s2r : s2r' = Damage(s2r, i) /\ faults' = faults + 1 /\ faults < MaxFaults
      BY <1>1 DEF DamageToReceiver
    <2>2. i \in 1..Len(s2r)
      BY LenProperties DEF LrzTypeOK
    <2>3. s2r' \in Seq(Item)
      BY <2>1, <2>2, DamageItems DEF LrzTypeOK
    <2>4. faults' \in 0..MaxFaults
      BY <2>1, FaultAssumption DEF LrzTypeOK
    <2> QED BY <1>1, <2>3, <2>4 DEF DamageToReceiver, LineStep, LrzTypeOK
  <1>2. CASE Swallow
    <2>1. 2 \in 1..Len(s2r)
      BY <1>2, EmptyItems DEF Swallow, LrzTypeOK
    <2>2. Damage(s2r, 2) \in Seq(Item) /\ Damage(s2r, 2) # <<>>
      <3>1. Damage(s2r, 2) \in Seq(Item) /\ Len(Damage(s2r, 2)) = Len(s2r)
        BY <2>1, DamageItems DEF LrzTypeOK
      <3>2. Len(Damage(s2r, 2)) # 0
        BY <2>1, <3>1
      <3> QED BY <3>1, <3>2, EmptyItems
    <2>3. s2r' \in Seq(Item)
      BY <1>2, <2>2, TailItems DEF Swallow
    <2>4. faults' \in 0..MaxFaults
      BY <1>2, FaultAssumption DEF LrzTypeOK, Swallow
    <2> QED BY <1>2, <2>3, <2>4 DEF Swallow, LineStep, LrzTypeOK
  <1>3. CASE Hangup
    BY <1>3 DEF Hangup, LineStep, LrzTypeOK
  <1> QED BY <1>1, <1>2, <1>3 DEF LineStep

\* The types are kept, given that procheader is reached with a file of the batch.
LEMMA TypeNext ==
  ASSUME LrzTypeOK, rpc = "procheader" => fname \in Files, [OpenNext]_openVars
  PROVE  LrzTypeOK'
  <1>1. CASE LrzStep
    BY <1>1, TypeTryz, TypeRzfile, TypeBibi DEF LrzStep, LrzNext
  <1>2. CASE SenderStep
    BY <1>2, TypeSender
  <1>3. CASE LineStep
    BY <1>3, TypeLine
  <1>4. CASE UNCHANGED openVars
    BY <1>4 DEF openVars, LrzTypeOK, line, lrzv, tryzv, filev, txv
  <1> QED BY <1>1, <1>2, <1>3, <1>4 DEF OpenNext

-----------------------------------------------------------------------------
(* What reading, damage and sending do to the stream *)

\* Reading one item off an honest stream leaves one, and after a ZDATA header or
\* an unfinished block it leaves the receiver where the next block belongs.
LEMMA StreamTail ==
  ASSUME NEW q \in Seq(Item), q # <<>>, NEW lo, NEW f, NEW p, Stream(q, lo, f, p)
  PROVE  /\ Stream(Tail(q), lo, f, p)
         /\ Continues(q[1]) =>
              IF Tail(q) = <<>> THEN f = q[1].f /\ p = EndOf(q[1])
                                ELSE Fits(Tail(q)[1], q[1].f, EndOf(q[1]))
  <1> DEFINE n == Len(q)
  <1> DEFINE t == Tail(q)
  <1>1. /\ t \in Seq(Item) /\ Len(t) = n - 1 /\ n \in Nat \ {0}
        /\ \A j \in 1..Len(t) : t[j] = q[j + 1]
    BY TailItems
  <1>2. t = <<>> <=> n = 1
    <2>1. Len(t) = 0 <=> n = 1
      BY <1>1
    <2> QED BY <1>1, <2>1, EmptyItems
  <1> HIDE DEF n, t
  <1>a. /\ \A i \in 1..n : ItemOK(q[i], lo, f)
        /\ \A i, j \in 1..n : (i < j /\ Carries(q[i]) /\ Carries(q[j])) => q[i].f <= q[j].f
        /\ \A i \in 1..n : Continues(q[i]) =>
             IF i = n THEN f = q[i].f /\ p = EndOf(q[i])
                      ELSE Fits(q[i + 1], q[i].f, EndOf(q[i]))
    BY DEF Stream, n
  <1>3. \A i \in 1..Len(t) : ItemOK(t[i], lo, f)
    BY <1>1, <1>a
  <1>4. ASSUME NEW i \in 1..Len(t), NEW j \in 1..Len(t), i < j, Carries(t[i]), Carries(t[j])
        PROVE  t[i].f <= t[j].f
    <2>1. i + 1 \in 1..n /\ j + 1 \in 1..n /\ i + 1 < j + 1
      BY <1>1, <1>4
    <2>2. t[i] = q[i + 1] /\ t[j] = q[j + 1]
      BY <1>1
    <2> QED BY <1>4, <1>a, <2>1, <2>2
  <1>5. ASSUME NEW i \in 1..Len(t), Continues(t[i])
        PROVE  IF i = Len(t) THEN f = t[i].f /\ p = EndOf(t[i])
                             ELSE Fits(t[i + 1], t[i].f, EndOf(t[i]))
    <2>1. i + 1 \in 1..n /\ t[i] = q[i + 1] /\ (i = Len(t) <=> i + 1 = n)
      BY <1>1
    <2>2. i # Len(t) => t[i + 1] = q[i + 2]
      BY <1>1
    <2>3. (i + 1) + 1 = i + 2
      BY <1>1
    <2> QED BY <1>5, <1>a, <2>1, <2>2, <2>3
  <1>6. Continues(q[1]) => IF t = <<>> THEN f = q[1].f /\ p = EndOf(q[1])
                                       ELSE Fits(t[1], q[1].f, EndOf(q[1]))
    <2>1. n # 1 => t[1] = q[1 + 1]
      BY <1>1
    <2>2. 1 \in 1..n
      BY <1>1
    <2> QED BY <1>a, <1>2, <2>1, <2>2
  <1> QED BY <1>3, <1>4, <1>5, <1>6 DEF Stream, t

\* Junk promises nothing and may stand anywhere.
LEMMA JunkIsQuiet ==
  ASSUME NEW g
  PROVE  ~Carries(Junk(g)) /\ ~Continues(Junk(g)) /\ \A f, p : Fits(Junk(g), f, p)
  BY DEF Junk, Carries, Continues, Fits

\* Damage keeps a stream honest.
LEMMA StreamDamage ==
  ASSUME NEW q \in Seq(Item), NEW i \in 1..Len(q), NEW lo, NEW f, NEW p, Stream(q, lo, f, p)
  PROVE  Stream(Damage(q, i), lo, f, p)
  <1> DEFINE d == Damage(q, i)
  <1>1. /\ d \in Seq(Item) /\ Len(d) = Len(q) /\ d[i] = Junk(q[i].f) /\ Len(q) \in Nat
        /\ \A j \in 1..Len(q) : j # i => d[j] = q[j]
    BY DamageItems, EmptyItems
  <1>2. ~Carries(d[i]) /\ ~Continues(d[i]) /\ \A g, o : Fits(d[i], g, o)
    BY <1>1, JunkIsQuiet
  <1> HIDE DEF d
  <1>3. \A j \in 1..Len(d) : ItemOK(d[j], lo, f)
    BY <1>1, <1>2 DEF Stream, ItemOK
  <1>4. \A j, k \in 1..Len(d) : (j < k /\ Carries(d[j]) /\ Carries(d[k])) => d[j].f <= d[k].f
    BY <1>1, <1>2 DEF Stream
  <1>5. ASSUME NEW j \in 1..Len(d), Continues(d[j])
        PROVE  IF j = Len(d) THEN f = d[j].f /\ p = EndOf(d[j])
                             ELSE Fits(d[j + 1], d[j].f, EndOf(d[j]))
    <2>1. j # i /\ d[j] = q[j] /\ Continues(q[j])
      BY <1>1, <1>2, <1>5
    <2>2. IF j = Len(q) THEN f = q[j].f /\ p = EndOf(q[j])
                        ELSE Fits(q[j + 1], q[j].f, EndOf(q[j]))
      BY <1>1, <2>1 DEF Stream
    <2>3. j # Len(d) => j + 1 = i \/ d[j + 1] = q[j + 1]
      BY <1>1
    <2> QED BY <1>1, <1>2, <2>1, <2>2, <2>3
  <1> QED BY <1>3, <1>4, <1>5 DEF Stream, d

\* An item that continues the open frame, or starts a new one, keeps it honest.
LEMMA StreamAppend ==
  ASSUME NEW q \in Seq(Item), NEW lo, NEW f \in Files, NEW p \in Nat \cup {-1},
         Stream(q, lo, f, p),
         NEW a \in Item, ItemOK(a, lo, f), Carries(a) => a.f = f, p # -1 => Fits(a, f, p),
         NEW pp, Continues(a) => pp = EndOf(a)
  PROVE  Stream(Append(q, a), lo, f, pp)
  <1> DEFINE s == Append(q, a)
  <1> DEFINE n == Len(q)
  <1>1. /\ s \in Seq(Item) /\ Len(s) = n + 1 /\ n \in Nat /\ s[n + 1] = a
        /\ \A i \in 1..n : s[i] = q[i]
    BY AppendProperties, EmptyItems
  <1>2. \A i \in 1..n : q[i] \in Item
    BY ElementOfSeq
  <1> HIDE DEF s
  <1>3. \A i \in 1..Len(s) : ItemOK(s[i], lo, f)
    BY <1>1 DEF Stream
  <1>4. \A i, j \in 1..Len(s) : (i < j /\ Carries(s[i]) /\ Carries(s[j])) => s[i].f <= s[j].f
    <2>1. \A i \in 1..n : Carries(q[i]) => q[i].f <= f
      BY DEF Stream, ItemOK
    <2> QED BY <1>1, <2>1 DEF Stream
  <1>5. ASSUME NEW i \in 1..Len(s), Continues(s[i])
        PROVE  IF i = Len(s) THEN f = s[i].f /\ pp = EndOf(s[i])
                             ELSE Fits(s[i + 1], s[i].f, EndOf(s[i]))
    <2>1. CASE i = n + 1
      BY <1>1, <1>5, <2>1 DEF Continues, Carries
    <2>2. CASE i = n
      <3>1. f = q[n].f /\ p = EndOf(q[n]) /\ n \in 1..n
        BY <1>1, <1>5, <2>2 DEF Stream
      <3>2. p # -1
        BY <1>2, <3>1, ItemFields
      <3> QED BY <1>1, <2>2, <3>1, <3>2
    <2>3. CASE i \in 1..(n - 1)
      <3>1. s[i] = q[i] /\ s[i + 1] = q[i + 1]
        BY <1>1, <2>3
      <3> QED BY <1>1, <1>5, <2>3, <3>1 DEF Stream
    <2> QED BY <1>1, <2>1, <2>2, <2>3
  <1> QED BY <1>3, <1>4, <1>5 DEF Stream, s

\* The receiver moves to the file of the first item.
LEMMA StreamRaise ==
  ASSUME NEW q \in Seq(Item), q # <<>>, NEW lo \in Nat, NEW f \in Files, NEW p,
         Stream(q, lo, f, p), Carries(q[1])
  PROVE  Stream(Tail(q), q[1].f, f, p) /\ 1 <= q[1].f /\ lo <= q[1].f /\ q[1].f <= f
  <1> DEFINE t == Tail(q)
  <1>1. /\ Len(q) \in Nat \ {0} /\ Len(t) = Len(q) - 1 /\ \A j \in 1..Len(t) : t[j] = q[j + 1]
    BY TailItems
  <1>2. Stream(t, lo, f, p)
    BY StreamTail
  <1> HIDE DEF t
  <1>3. ASSUME NEW j \in 1..Len(t) PROVE ItemOK(t[j], q[1].f, f)
    <2>1. Carries(q[j + 1]) => q[1].f <= q[j + 1].f
      BY <1>1 DEF Stream
    <2> QED BY <1>1, <1>2, <2>1 DEF Stream, ItemOK
  <1>4. 1 <= q[1].f /\ lo <= q[1].f /\ q[1].f <= f
    BY <1>1 DEF Stream, ItemOK
  <1> QED BY <1>2, <1>3, <1>4 DEF Stream, t

\* The sender moves on to the next file.
LEMMA StreamNext ==
  ASSUME NEW q \in Seq(Item), NEW lo, NEW f \in Nat, Stream(q, lo, f, -1)
  PROVE  Stream(q, lo, f + 1, -1)
  <1>1. \A i \in 1..Len(q) : q[i] \in Item
    BY ElementOfSeq
  <1>2. ASSUME NEW i \in 1..Len(q) PROVE ItemOK(q[i], lo, f + 1)
    <2>1. q[i].f \in Int
      BY <1>1, ItemFields
    <2>2. q[i].f <= f => q[i].f <= f + 1
      BY <2>1
    <2> QED BY <2>2 DEF Stream, ItemOK
  <1>3. ASSUME NEW i \in 1..Len(q), Continues(q[i])
        PROVE i # Len(q) /\ Fits(q[i + 1], q[i].f, EndOf(q[i]))
    <2>1. EndOf(q[i]) # -1
      BY <1>1, ItemFields
    <2> QED BY <1>3, <2>1 DEF Stream
  <1> QED BY <1>2, <1>3 DEF Stream

\* zgethdr leaves an honest stream.
LEMMA StreamHdrRead ==
  ASSUME NEW q \in Seq(Item), NEW e \in BOOLEAN, NEW r \in ZGetHdr(q, e),
         NEW lo, NEW f, NEW p, Stream(q, lo, f, p)
  PROVE  Stream(r.rest, lo, f, p)
  <1>1. CASE q = <<>>
    BY <1>1, GetHdrOutcome
  <1>2. CASE q # <<>>
    <2>1. 1 \in 1..Len(q)
      BY <1>2, TailItems
    <2>2. r.rest = Tail(q) \/ r.rest = Damage(q, 1)
      BY <1>2, GetHdrOutcome
    <2>3. Stream(Tail(q), lo, f, p)
      BY <1>2, StreamTail
    <2>4. Stream(Damage(q, 1), lo, f, p)
      BY <2>1, StreamDamage
    <2> QED BY <2>2, <2>3, <2>4
  <1> QED BY <1>1, <1>2

\* zrdata leaves an honest stream.
LEMMA StreamDataRead ==
  ASSUME NEW q \in Seq(Item), NEW e \in BOOLEAN, NEW r \in ZRData(q, e),
         NEW lo, NEW f, NEW p, Stream(q, lo, f, p)
  PROVE  Stream(r.rest, lo, f, p)
  <1>1. CASE q = <<>>
    BY <1>1, RDataOutcome
  <1>2. CASE q # <<>>
    <2>1. Tail(q) \in Seq(Item) /\ Stream(Tail(q), lo, f, p)
      BY <1>2, TailItems, StreamTail
    <2>2. Tail(q) # <<>> => Stream(Tail(Tail(q)), lo, f, p)
      BY <2>1, StreamTail
    <2>3. r.rest = Tail(q) \/ (Tail(q) # <<>> /\ r.rest = Tail(Tail(q)))
      BY <1>2, RDataOutcome
    <2> QED BY <2>1, <2>2, <2>3
  <1> QED BY <1>1, <1>2

\* What is gone from the line stays gone when an item is taken off or damaged.
LEMMA GoneTail ==
  ASSUME NEW q \in Seq(Item), q # <<>>, NEW g, Gone(q, g)
  PROVE  Gone(Tail(q), g)
  <1>1. ASSUME NEW j \in 1..Len(Tail(q)) PROVE j + 1 \in 1..Len(q) /\ Tail(q)[j] = q[j + 1]
    BY TailItems
  <1> QED BY <1>1 DEF Gone

LEMMA GoneDamage ==
  ASSUME NEW q \in Seq(Item), NEW i \in 1..Len(q), NEW g, Gone(q, g)
  PROVE  Gone(Damage(q, i), g)
  <1>1. ASSUME NEW j \in 1..Len(Damage(q, i)), Carries(Damage(q, i)[j])
        PROVE  j \in 1..Len(q) /\ Damage(q, i)[j] = q[j]
    BY <1>1, DamageItems, JunkIsQuiet
  <1> QED BY <1>1 DEF Gone

\* zgethdr and zrdata take nothing back.
LEMMA GoneHdrRead ==
  ASSUME NEW q \in Seq(Item), NEW e \in BOOLEAN, NEW r \in ZGetHdr(q, e), NEW g, Gone(q, g)
  PROVE  Gone(r.rest, g)
  <1>1. CASE q = <<>>
    BY <1>1, GetHdrOutcome
  <1>2. CASE q # <<>>
    <2>1. 1 \in 1..Len(q)
      BY <1>2, TailItems
    <2>2. r.rest = Tail(q) \/ r.rest = Damage(q, 1)
      BY <1>2, GetHdrOutcome
    <2>3. Gone(Tail(q), g) /\ Gone(Damage(q, 1), g)
      BY <1>2, <2>1, GoneTail, GoneDamage
    <2> QED BY <2>2, <2>3
  <1> QED BY <1>1, <1>2

LEMMA GoneDataRead ==
  ASSUME NEW q \in Seq(Item), NEW e \in BOOLEAN, NEW r \in ZRData(q, e), NEW g, Gone(q, g)
  PROVE  Gone(r.rest, g)
  <1>1. CASE q = <<>>
    BY <1>1, RDataOutcome
  <1>2. CASE q # <<>>
    <2>1. Tail(q) \in Seq(Item) /\ Gone(Tail(q), g)
      BY <1>2, TailItems, GoneTail
    <2>2. Tail(q) # <<>> => Gone(Tail(Tail(q)), g)
      BY <2>1, GoneTail
    <2>3. r.rest = Tail(q) \/ (Tail(q) # <<>> /\ r.rest = Tail(Tail(q)))
      BY <1>2, RDataOutcome
    <2> QED BY <2>1, <2>2, <2>3
  <1> QED BY <1>1, <1>2

\* Adding items of another file.
LEMMA GoneAppend ==
  ASSUME NEW q \in Seq(Item), NEW a \in Item, NEW g, Gone(q, g), Carries(a) => a.f # g
  PROVE  Gone(Append(q, a), g)
  <1>1. ASSUME NEW i \in 1..Len(Append(q, a))
        PROVE  (i \in 1..Len(q) /\ Append(q, a)[i] = q[i]) \/ Append(q, a)[i] = a
    BY AppendProperties, EmptyItems
  <1> QED BY <1>1 DEF Gone

-----------------------------------------------------------------------------
(* The inductive invariant of the receiver *)

\* The invariant holds when lrz starts.
LEMMA IInvInit == OpenInit => IInv
  <1> SUFFICES ASSUME OpenInit PROVE StreamInv /\ FileInv /\ RequestInv
    BY TypeInit DEF IInv
  <1>1. StreamInv
    BY DEF OpenInit, LrzInit, StreamInv, Stream, InTryz
  <1>2. FileInv
    BY BatchAssumption DEF OpenInit, LrzInit, FileInv, Files, InRzfile
  <1>3. RequestInv
    BY DEF OpenInit, LrzInit, RequestInv, Gone
  <1> QED BY <1>1, <1>2, <1>3

\* wcreceive's fubar ends the session from any place.
LEMMA IInvFubar ==
  ASSUME IInv, Fubar \/ (FubarUnclosed /\ path \in Files), rpc # "exit", UNCHANGED <<fname, txv>>
  PROVE  StreamInv' /\ FileInv'
  <1>a. UNCHANGED <<openv, fname, txf, txpos, anker>> /\ rpc' = "exit"
    BY DEF Fubar, FubarUnclosed, txv
  <1>1. StreamInv'
    BY <1>a DEF IInv, StreamInv, Receiving, InTryz, InRzfile
  <1>2. ASSUME NEW g \in Files
        PROVE  rstat'[g] \in {rstat[g], "removed"} /\ rstat'[g] # "open"
    <2>1. rstat[g] = "open" => g = path /\ g = fname
      BY DEF IInv, FileInv
    <2>2. \/ \A h \in Files : rstat'[h] = IF h = path THEN "removed" ELSE rstat[h]
          \/ UNCHANGED rstat /\ FoutIsStale
      <3>1. rstat \in [Files -> RStats] /\ 0 \notin Files
        BY DEF IInv, LrzTypeOK, Files
      <3>2. Removed \/ (path = 0 /\ UNCHANGED rstat) \/ (UNCHANGED rstat /\ FoutIsStale)
        BY DEF Fubar, FubarUnclosed
      <3> QED BY <3>1, <3>2 DEF Removed
    <2> QED BY <2>1, <2>2 DEF FoutIsStale
  <1>3. FileInv'
    BY <1>a, <1>2 DEF IInv, FileInv, Settled, InRzfile
  <1> QED BY <1>1, <1>3

\* Steps of tryz and ackbibi that leave the files alone.
LEMMA IInvQuiet ==
  ASSUME IInv, UNCHANGED <<filev, fname, txv>>,
         rpc \in InTryz \cup {"bibi", "bibiWait"},
         rpc' \in InTryz \cup {"bibi", "bibiWait", "exit", "ymodem"},
         rpc' \in InTryz => rpc \in InTryz /\ Stream(s2r', fname, txf, txpos)
  PROVE  StreamInv' /\ FileInv'
  <1> USE DEF filev, txv, InTryz, InRzfile
  <1>1. StreamInv'
    BY DEF IInv, StreamInv, Receiving
  <1>2. FileInv'
    BY DEF IInv, FileInv, Settled
  <1> QED BY <1>1, <1>2

\* tryz keeps the invariant: a ZFILE moves the receiver to a file at or after its own.
LEMMA IInvTryz ==
  ASSUME IInv, UNCHANGED txv,
         TryzOffer \/ TryzGiveUp \/ TryzHdr \/ TryzFile \/ TryzSinit \/ TryzCommand
  PROVE  StreamInv' /\ FileInv'
  <1> USE DEF InTryz, Goto
  <1>a. LrzTypeOK /\ StreamInv /\ FileInv
    BY DEF IInv
  <1>b. rpc \in InTryz /\ rpc # "exit"
    BY DEF TryzOffer, TryzGiveUp, TryzHdr, TryzFile, TryzSinit, TryzCommand
  <1>c. Stream(s2r, fname, txf, txpos)
    BY <1>a, <1>b DEF StreamInv, Receiving
  <1>d. s2r \in Seq(Item) /\ closed \in BOOLEAN
    BY <1>a DEF LrzTypeOK
  <1>1. CASE TryzOffer
    BY <1>1, <1>b, <1>c, IInvQuiet DEF TryzOffer
  <1>2. CASE TryzGiveUp
    BY <1>2, <1>b, <1>c, IInvQuiet, IInvFubar DEF TryzGiveUp
  <1>3. CASE TryzHdr
    <2>1. PICK r \in ZGetHdr(s2r, closed) : TryzHdr!2!(r)
      BY <1>3 DEF TryzHdr
    <2>2. Stream(s2r', fname, txf, txpos)
      BY <1>c, <1>d, <2>1, StreamHdrRead
    <2>3. UNCHANGED fname
      BY <1>3 DEF TryzHdr
    <2>4. CASE r.c \in {"ZRINIT", "ZCAN"}
      BY <1>b, <2>1, <2>3, <2>4, IInvFubar
    <2>5. CASE r.c \notin {"ZRINIT", "ZCAN"}
      <3>1. UNCHANGED filev /\ rpc' \in InTryz \cup {"bibi"}
        BY <1>3, <2>1, <2>5 DEF TryzHdr
      <3> QED BY <1>b, <2>2, <2>3, <3>1, IInvQuiet
    <2> QED BY <2>4, <2>5
  <1>4. CASE TryzFile
    <2>1. PICK r \in ZRData(s2r, closed) : TryzFile!2!(r)
      BY <1>4 DEF TryzFile
    <2>2. CASE r.c = "ZCRCW"
      <3>1. s2r # <<>> /\ r.rest = Tail(s2r) /\ s2r[1].k = "sub"
        BY <1>d, <2>2, RDataOutcome
      <3>2. Head(s2r) = s2r[1] /\ Carries(s2r[1])
        BY <1>d, <3>1, TailItems DEF Carries
      <3>3. /\ Stream(s2r', fname', txf, txpos)
            /\ 1 <= fname' /\ fname <= fname' /\ fname' <= txf
        <4>1. fname' = s2r[1].f /\ s2r' = Tail(s2r)
          BY <2>1, <2>2, <3>1, <3>2
        <4>2. fname \in Nat /\ txf \in Files
          BY <1>a DEF LrzTypeOK
        <4> QED BY <1>c, <1>d, <3>1, <3>2, <4>1, <4>2, StreamRaise
      <3>4. UNCHANGED <<filev, txv>> /\ rpc' = "procheader"
        BY <1>4, <2>1, <2>2 DEF TryzFile
      <3>5. StreamInv'
        BY <1>a, <3>3, <3>4 DEF StreamInv, txv
      <3>6. path \in 0..NFiles /\ fname \in 0..NFiles /\ txf \in Files /\ fname' \in Int
        <4>1. s2r[1].f \in 0..NFiles
          BY <1>d, <3>1, TailItems, ItemFields
        <4> QED BY <1>a, <2>1, <2>2, <3>2, <4>1 DEF LrzTypeOK
      <3>7. path <= fname' /\ fname' \in Files
        BY <1>a, <3>3, <3>6, BatchAssumption DEF FileInv, Files
      <3>8. FileInv'
        BY <1>a, <1>b, <3>3, <3>4, <3>7 DEF FileInv, filev, txv, Settled, InRzfile
      <3> QED BY <3>5, <3>8
    <2>3. CASE r.c # "ZCRCW"
      <3>1. UNCHANGED <<fname, filev>> /\ rpc' \in InTryz
        BY <1>4, <2>1, <2>3 DEF TryzFile
      <3>2. Stream(s2r', fname, txf, txpos)
        BY <1>c, <1>d, <2>1, StreamDataRead
      <3> QED BY <1>b, <3>1, <3>2, IInvQuiet
    <2> QED BY <2>2, <2>3
  <1>5. CASE TryzSinit
    <2>1. PICK r \in ZRData(s2r, closed) : TryzSinit!2!(r)
      BY <1>5 DEF TryzSinit
    <2>2. Stream(s2r', fname, txf, txpos)
      BY <1>c, <1>d, <2>1, StreamDataRead
    <2>3. UNCHANGED <<fname, filev>> /\ rpc' \in InTryz
      BY <1>5, <2>1 DEF TryzSinit
    <2> QED BY <1>b, <2>2, <2>3, IInvQuiet
  <1>6. CASE TryzCommand
    <2>1. PICK r \in ZRData(s2r, closed) : TryzCommand!2!(r)
      BY <1>6 DEF TryzCommand
    <2>2. Stream(s2r', fname, txf, txpos)
      BY <1>c, <1>d, <2>1, StreamDataRead
    <2>3. UNCHANGED <<fname, filev>> /\ rpc' \in InTryz \cup {"exit"}
      BY <1>6, <2>1 DEF TryzCommand
    <2> QED BY <1>b, <2>2, <2>3, IInvQuiet
  <1> QED BY <1>1, <1>2, <1>3, <1>4, <1>5, <1>6

\* In rzfile the file being written is the one the sender is at.
LEMMA IInvCurrent ==
  ASSUME IInv, rpc \in InRzfile
  PROVE  /\ path \in Files /\ fname = path /\ txf = path /\ rstat[path] = "open"
         /\ start[path] + Len(disk[path]) = bytes_received /\ bytes_received \in Nat
         /\ s2r \in Seq(Item) /\ closed \in BOOLEAN /\ Stream(s2r, path, path, txpos)
  <1>1. /\ path \in Files /\ path = fname /\ rstat[path] = "open"
        /\ start[path] + Len(disk[path]) = bytes_received
    BY DEF IInv, FileInv
  <1>2. ~(path < txf)
    BY <1>1 DEF IInv, FileInv, Settled
  <1>3. txf = path
    BY <1>1, <1>2, BatchAssumption DEF IInv, FileInv, LrzTypeOK, Files
  <1>4. Stream(s2r, fname, txf, txpos)
    BY DEF IInv, StreamInv, Receiving
  <1> QED BY <1>1, <1>3, <1>4 DEF IInv, LrzTypeOK

\* What one putsec does to the files.
LEMMA WriteAt ==
  ASSUME LrzTypeOK, path \in Files, NEW f \in 0..NFiles, NEW o \in Nat, NEW n \in Nat,
         Putsec(f, o, n)
  PROVE  /\ Len(disk[path]) \in Nat /\ Len(disk'[path]) = Len(disk[path]) + n
         /\ \A h \in Files : h # path => disk'[h] = disk[h]
         /\ \A i \in 1..Len(disk[path]) : disk'[path][i] = disk[path][i]
         /\ \A i \in 1..Len(disk'[path]) : i > Len(disk[path]) => disk'[path][i] = <<f, o + (i - Len(disk[path])) - 1>>
  <1> DEFINE s == Slice(f, o, n)
  <1>1. disk[path] \in Seq(Bytes) /\ disk'[path] = disk[path] \o s
    BY DEF LrzTypeOK, Bytes, Putsec
  <1>2. s \in Seq(Bytes) /\ Len(s) = n /\ \A i \in 1..n : s[i] = <<f, o + i - 1>>
    <2>1. s \in Seq(Bytes)
      BY SliceIsBytes
    <2>2. s = [i \in 1..n |-> <<f, o + i - 1>>]
      BY DEF Slice
    <2>3. Len(s) = n
      BY <2>2
    <2> QED BY <2>1, <2>2, <2>3
  <1>3. Len(disk[path]) \in Nat
    BY <1>1, LenProperties
  <1> HIDE DEF s
  <1>4. /\ Len(disk'[path]) = Len(disk[path]) + Len(s)
        /\ \A i \in 1..(Len(disk[path]) + Len(s)) :
             disk'[path][i] = IF i <= Len(disk[path]) THEN disk[path][i] ELSE s[i - Len(disk[path])]
    <2> DEFINE w == disk[path]
    <2>1. w \in Seq(Bytes) /\ s \in Seq(Bytes)
      BY <1>1, <1>2
    <2> HIDE DEF w
    <2>2. /\ Len(w \o s) = Len(w) + Len(s)
          /\ \A i \in 1..(Len(w) + Len(s)) :
               (w \o s)[i] = IF i <= Len(w) THEN w[i] ELSE s[i - Len(w)]
      BY <2>1, ConcatProperties
    <2> QED BY <1>1, <2>2 DEF w
  <1>5. \A h \in Files : h # path => disk'[h] = disk[h]
    BY DEF LrzTypeOK, Putsec
  <1>6. ASSUME NEW i \in 1..Len(disk[path]) PROVE disk'[path][i] = disk[path][i]
    <2>1. i <= Len(disk[path]) /\ i \in 1..(Len(disk[path]) + Len(s))
      BY <1>2, <1>3
    <2> QED BY <1>4, <2>1
  <1>7. ASSUME NEW i \in 1..Len(disk'[path]), i > Len(disk[path])
        PROVE  disk'[path][i] = <<f, o + (i - Len(disk[path])) - 1>>
    <2>1. i - Len(disk[path]) \in 1..n
      BY <1>2, <1>3, <1>4, <1>7
    <2>2. disk'[path][i] = s[i - Len(disk[path])]
      BY <1>2, <1>3, <1>4, <1>7
    <2> QED BY <1>2, <2>1, <2>2
  <1> QED BY <1>2, <1>3, <1>4, <1>5, <1>6, <1>7

\* A step inside rzfile that may lengthen the file under way.
LEMMA IInvStay ==
  ASSUME IInv, UNCHANGED <<openv, rstat, fname, txv>>,
         rpc \in InRzfile, rpc' \in InRzfile \cup {"asleep"},
         start[path] + Len(disk'[path]) = bytes_received',
         \A b \in anker' : b.f \in Files /\ b.from = b.pos /\ b.pos + b.n <= Size[b.f],
         Stream(s2r', path, path, txpos),
         rpc' = "moredata" => AtFrame(path, bytes_received)',
         rpc' = "oosbData" => AtFrame(path, rxpos)'
  PROVE  StreamInv' /\ FileInv'
  <1>a. /\ path \in Files /\ fname = path /\ txf = path /\ rstat[path] = "open"
    BY IInvCurrent
  <1>1. StreamInv'
    BY <1>a DEF IInv, StreamInv, txv
  <1>2. FileInv'
    BY <1>a DEF IInv, FileInv, Settled, txv, InRzfile
  <1> QED BY <1>1, <1>2

\* procheader opens only a file that is not settled yet.
LEMMA IInvProcHeader ==
  ASSUME IInv, UNCHANGED txv, ProcHeader
  PROVE  StreamInv' /\ FileInv'
  <1> USE DEF InTryz, InRzfile, Goto, Protected
  <1>a. /\ rpc = "procheader" /\ fname \in Files /\ fname \in Int /\ rstat \in [Files -> RStats]
        /\ disk \in [Files -> Seq((0..NFiles) \X Nat)]
        /\ UNCHANGED <<s2r, fname, txf, txpos>>
    BY DEF IInv, FileInv, LrzTypeOK, ProcHeader, line, txv
  <1>b. Stream(s2r, fname, txf, txpos)
    BY <1>a DEF IInv, StreamInv, Receiving
  <1>1. StreamInv'
    <2>1. rpc' \in {"tryz", "rpos"}
      BY DEF ProcHeader, NextTryz
    <2> QED BY <1>a, <1>b, <2>1 DEF IInv, StreamInv
  <1>c. \A g \in Files : rstat[g] # "open"
    BY <1>a DEF IInv, FileInv
  <1>d. zmanag = Asks /\ (Asks # ZCRESUM => bytes_skipped = 0)
    BY <1>a DEF IInv, RequestInv
  <1>2. CASE ProcHeader!2!1
    <2>1. UNCHANGED filev /\ rpc' = "tryz"
      BY <1>2 DEF NextTryz
    <2> QED BY <1>1, <1>a, <1>c, <2>1 DEF IInv, FileInv, filev, Settled
  <1>3. CASE ProcHeader!2!2
    <2>1. UNCHANGED <<anker, start>> /\ rpc' = "tryz" /\ path' = fname /\ fname \in Unwritable
      BY <1>3 DEF NextTryz
    <2>2. \A g \in Files : rstat'[g] = IF g = fname THEN "refused" ELSE rstat[g]
      BY <1>3, <1>a
    <2> QED BY <1>1, <1>a, <1>c, <2>1, <2>2 DEF IInv, FileInv, Settled
  <1>4. CASE ProcHeader!2!3
    <2>1. /\ UNCHANGED anker /\ rpc' = "rpos" /\ path' = fname /\ fname \notin Unwritable
          /\ ~Protected(fname)
      BY <1>4
    <2>2. \A g \in Files : rstat'[g] = IF g = fname THEN "open" ELSE rstat[g]
      BY <1>4, <1>a
    <2>3. Len(disk'[fname]) = 0
      BY <1>4, <1>a
    <2>4. ~(fname < txf)
      <3>1. SUFFICES ASSUME fname < txf PROVE FALSE
        OBVIOUS
      <3>2. Settled(fname) /\ Final(fname)
        BY <1>a, <3>1 DEF IInv, FileInv, RequestInv
      <3>3. rstat[fname] # "refused"
        BY <1>a, <2>1 DEF IInv, FileInv
      <3>4. Asks = NoRequest /\ There(fname)
        BY <3>2, <3>3 DEF Settled, Final, There
      <3> QED BY <1>d, <2>1, <3>4
    <2>5. Kept(fname) \in Nat /\ Kept(fname) <= Size[fname]
      BY <1>a, KeptIsBounded DEF IInv
    <2>6. /\ bytes_received' \in Nat /\ start'[fname] = bytes_received' /\ start'[fname] <= Size[fname]
          /\ \A g \in Files : g # fname => start'[g] = start[g]
      <3>1. start \in [Files -> Nat] /\ Size[fname] \in Nat
        BY <1>a, BatchAssumption DEF IInv, LrzTypeOK, Files
      <3> QED BY <1>4, <1>a, <1>d, <2>5, <3>1
    <2>7. start'[fname] + Len(disk'[fname]) = bytes_received'
      <3>1. \A x \in Nat : x + 0 = x
        OBVIOUS
      <3> QED BY <2>3, <2>6, <3>1
    <2>8. \A g \in Files : start'[g] <= Size[g]
      BY <2>6 DEF IInv, FileInv
    <2> QED BY <1>1, <1>a, <1>c, <2>1, <2>2, <2>4, <2>7, <2>8 DEF IInv, FileInv, Settled
  <1> QED BY <1>2, <1>3, <1>4 DEF ProcHeader

\* A saved block is written where it belongs.
LEMMA IInvNextHeader ==
  ASSUME IInv, UNCHANGED txv, NextHeader
  PROVE  StreamInv' /\ FileInv'
  <1>a. rpc \in InRzfile /\ UNCHANGED <<s2r, openv, rstat, fname, txv>>
    BY DEF NextHeader, InRzfile, line
  <1>b. /\ path \in Files /\ start[path] + Len(disk[path]) = bytes_received /\ LrzTypeOK
        /\ Stream(s2r, path, path, txpos)
        /\ \A b \in anker : b.f \in Files /\ b.from = b.pos /\ b.pos + b.n <= Size[b.f]
    BY <1>a, IInvCurrent DEF IInv, FileInv
  <1>1. CASE \E b \in anker : NextHeader!2!1!(b)
    <2>1. PICK b \in anker : NextHeader!2!1!(b)
      BY <1>1
    <2>2. b.f \in 0..NFiles /\ b.from \in Nat /\ b.n \in Nat
      BY <1>b DEF LrzTypeOK
    <2>3. start[path] + Len(disk'[path]) = bytes_received'
      <3>1. Putsec(b.f, b.from, b.n)
        BY <2>1
      <3>2. /\ Len(disk'[path]) = Len(disk[path]) + b.n
            /\ Len(disk[path]) \in Nat /\ start[path] \in Nat
        BY <1>b, <2>2, <3>1, WriteAt DEF LrzTypeOK
      <3> QED BY <1>b, <2>2, <3>1, <3>2 DEF Putsec
    <2>4. rpc' = "nxthdr" /\ anker' = anker
      BY <2>1 DEF NextHeader
    <2> QED BY <1>a, <1>b, <2>3, <2>4, IInvStay DEF InRzfile
  <1>2. CASE NextHeader!2!2
    <2>1. rpc' = "hdr" /\ anker' \subseteq anker /\ UNCHANGED <<disk, bytes_received>>
      BY <1>2 DEF Goto
    <2> QED BY <1>a, <1>b, <2>1, IInvStay DEF InRzfile
  <1> QED BY <1>1, <1>2 DEF NextHeader

\* The header switch of rzfile: a ZDATA header sends the receiver to a block of the
\* file under way at the position the header gave.
LEMMA IInvRzHdr ==
  ASSUME IInv, UNCHANGED txv, RzHdr
  PROVE  StreamInv' /\ FileInv'
  <1> USE DEF Goto, InRzfile, Retry, DataHere
  <1>a. /\ rpc = "hdr" /\ rpc \in InRzfile /\ UNCHANGED fname
    BY DEF RzHdr
  <1>b. /\ path \in Files /\ fname = path /\ txf = path /\ rstat[path] = "open"
        /\ start[path] + Len(disk[path]) = bytes_received
        /\ s2r \in Seq(Item) /\ closed \in BOOLEAN /\ Stream(s2r, path, path, txpos)
        /\ \A b \in anker : b.f \in Files /\ b.from = b.pos /\ b.pos + b.n <= Size[b.f]
    BY <1>a, IInvCurrent DEF IInv, FileInv
  <1>1. PICK r \in ZGetHdr(s2r, closed) : RzHdr!2!(r)
    BY DEF RzHdr
  <1>2. Stream(s2r', path, path, txpos)
    BY <1>b, <1>1, StreamHdrRead
  <1>3. CASE Fubar \/ FubarUnclosed
    BY <1>a, <1>b, <1>3, IInvFubar
  <1>4. CASE NextTryz(hdrtype)
    <2>1. /\ UNCHANGED <<openv, bytes_received, anker>> /\ rpc' = "tryz"
          /\ \/ rstat' = [rstat EXCEPT ![path] = "closed"]
             \/ rstat' = [rstat EXCEPT ![path] = "skipped"]
             \/ rstat' = [rstat EXCEPT ![path] = "removed"]
      BY <1>a, <1>1, <1>4 DEF NextTryz, Fubar, FubarUnclosed, Removed
    <2>2. \A g \in Files : IF g = path THEN rstat'[g] \in {"closed", "skipped", "removed"}
                                       ELSE rstat'[g] = rstat[g]
      BY <1>b, <2>1 DEF IInv, LrzTypeOK
    <2>3. StreamInv'
      BY <1>a, <1>b, <1>2, <2>1 DEF IInv, StreamInv, txv
    <2>4. FileInv'
      BY <1>a, <1>b, <2>1, <2>2 DEF IInv, FileInv, Settled, txv
    <2> QED BY <2>3, <2>4
  <1>5. CASE ~(Fubar \/ FubarUnclosed) /\ ~NextTryz(hdrtype)
    <2>1. /\ UNCHANGED <<openv, rstat, disk, bytes_received, anker>>
          /\ rpc' \in {"junkData", "nxthdr", "zmputs", "oosbData", "moredata", "hdr"}
      BY <1>a, <1>1, <1>5 DEF filev
    <2>2. rpc' \in {"moredata", "oosbData"} =>
            /\ r.c = "ZDATA"
            /\ rpc' = "moredata" => r.pos = bytes_received
            /\ rpc' = "oosbData" => r.pos = rxpos'
      BY <1>a, <1>1, <1>5
    <2>3. ASSUME rpc' \in {"moredata", "oosbData"} PROVE AtFrame(path, r.pos)'
      <3>1. r.c = "ZDATA"
        BY <2>2, <2>3
      <3>2. s2r # <<>> /\ r.rest = Tail(s2r) /\ s2r[1].k = "hdr" /\ s2r[1].t = "ZDATA"
            /\ s2r[1].pos = r.pos
        BY <1>b, <3>1, GetHdrOutcome
      <3>3. Continues(s2r[1]) /\ Carries(s2r[1])
        BY <3>2 DEF Continues, Carries
      <3>4. s2r[1].f = path /\ EndOf(s2r[1]) = r.pos
        <4>1. 1 \in 1..Len(s2r) /\ s2r[1] \in Item
          BY <1>b, <3>2, TailItems
        <4>2. path <= s2r[1].f /\ s2r[1].f <= path /\ s2r[1].n = 0
          BY <1>b, <3>2, <3>3, <4>1 DEF Stream, ItemOK
        <4>3. s2r[1].f \in Int /\ path \in Int /\ s2r[1].pos \in Nat
          BY <1>b, <4>1, ItemFields, BatchAssumption DEF Files
        <4>4. s2r[1].f = path
          BY <4>2, <4>3
        <4>5. s2r[1].pos + s2r[1].n = s2r[1].pos
          BY <4>2, <4>3
        <4> QED BY <3>2, <4>4, <4>5 DEF EndOf
      <3>5. IF Tail(s2r) = <<>> THEN path = path /\ txpos = r.pos
                                ELSE Fits(Tail(s2r)[1], path, r.pos)
        BY <1>b, <3>2, <3>3, <3>4, StreamTail
      <3>6. s2r' = Tail(s2r) /\ txf' = path /\ txpos' = txpos /\ path' = path
        BY <1>b, <1>1, <2>1, <3>2 DEF txv
      <3>7. IF s2r' = <<>> THEN txf' = path' /\ txpos' = r.pos ELSE Fits(s2r'[1], path', r.pos)
        BY <3>5, <3>6
      <3> QED BY <3>6, <3>7 DEF AtFrame, Fits
    <2>4. rpc' = "moredata" => AtFrame(path, bytes_received)'
      BY <2>1, <2>2, <2>3 DEF AtFrame
    <2>5. rpc' = "oosbData" => AtFrame(path, rxpos)'
      BY <2>1, <2>2, <2>3 DEF AtFrame
    <2> QED BY <1>a, <1>b, <1>2, <2>1, <2>4, <2>5, IInvStay
  <1> QED BY <1>3, <1>4, <1>5

\* ZRPOS, zmputs and the block that is thrown away.
LEMMA IInvSkipData ==
  ASSUME IInv, UNCHANGED txv, SendRpos \/ RzJunkData \/ Zmputs
  PROVE  StreamInv' /\ FileInv'
  <1>a. /\ rpc \in InRzfile /\ UNCHANGED <<filev, fname>>
        /\ rpc' \in {"hdr", "junkData", "rpos", "asleep"}
    BY DEF SendRpos, RzJunkData, Zmputs, InRzfile, Goto
  <1>b. /\ start[path] + Len(disk[path]) = bytes_received
        /\ s2r \in Seq(Item) /\ closed \in BOOLEAN /\ Stream(s2r, path, path, txpos)
        /\ \A b \in anker : b.f \in Files /\ b.from = b.pos /\ b.pos + b.n <= Size[b.f]
    BY <1>a, IInvCurrent DEF IInv, FileInv
  <1>1. Stream(s2r', path, path, txpos)
    <2>1. CASE SendRpos \/ Zmputs
      BY <1>b, <2>1 DEF SendRpos, Zmputs
    <2>2. CASE RzJunkData
      <3>1. PICK r \in ZRData(s2r, closed) : s2r' = r.rest
        BY <2>2 DEF RzJunkData
      <3> QED BY <1>b, <3>1, StreamDataRead
    <2> QED BY <2>1, <2>2
  <1> QED BY <1>a, <1>b, <1>1, IInvStay DEF filev, InRzfile

\* An out-of-sync block is saved with the position its ZDATA header gave.
LEMMA IInvOosbData ==
  ASSUME IInv, UNCHANGED txv, RzOosbData
  PROVE  StreamInv' /\ FileInv'
  <1> USE DEF Goto, InRzfile, Retry, DataHere
  <1>a. /\ rpc = "oosbData" /\ rpc \in InRzfile
        /\ UNCHANGED <<openv, bytes_received, disk, rstat, fname, rxpos>>
    BY DEF RzOosbData
  <1>b. /\ path \in Files /\ start[path] + Len(disk[path]) = bytes_received
        /\ s2r \in Seq(Item) /\ closed \in BOOLEAN /\ Stream(s2r, path, path, txpos)
        /\ \A b \in anker : b.f \in Files /\ b.from = b.pos /\ b.pos + b.n <= Size[b.f]
    BY <1>a, IInvCurrent DEF IInv, FileInv
  <1>c. AtFrame(path, rxpos)
    BY <1>a DEF IInv, StreamInv
  <1>1. PICK r \in ZRData(s2r, closed) : RzOosbData!2!(r)
    BY DEF RzOosbData
  <1>2. Stream(s2r', path, path, txpos)
    BY <1>b, <1>1, StreamDataRead
  <1>3. rpc' = "zmputs"
    <2>1. r.c # "scan"
      <3>1. s2r # <<>> => s2r[1].k \in {"junk", "can", "sub"}
        BY <1>c DEF AtFrame, Fits
      <3>2. s2r # <<>> => s2r[1].t # "scan"
        BY <1>b, TailItems DEF Item, FrameTypes, FrameEnds
      <3> QED BY <1>b, <3>1, <3>2, RDataOutcome
    <2> QED BY <1>1, <2>1
  <1>4. \A b \in anker' : b.f \in Files /\ b.from = b.pos /\ b.pos + b.n <= Size[b.f]
    <2>1. CASE r.c \in FrameEnds /\ rxpos > bytes_received
      <3>1. s2r # <<>> /\ s2r[1].k = "sub" /\ r.pos = s2r[1].n /\ Head(s2r) = s2r[1]
        BY <1>b, <2>1, RDataOutcome, TailItems DEF FrameEnds
      <3>2. s2r[1].f = path /\ s2r[1].pos = rxpos /\ s2r[1].pos + s2r[1].n <= Size[path]
        BY <1>c, <3>1 DEF AtFrame, Fits, EndOf
      <3>3. anker' = {b \in anker : b.pos # rxpos} \cup
                     {[pos |-> rxpos, f |-> path, from |-> rxpos, n |-> r.pos]}
        BY <1>1, <2>1, <3>1, <3>2
      <3> QED BY <1>b, <3>1, <3>2, <3>3
    <2>2. CASE ~(r.c \in FrameEnds /\ rxpos > bytes_received)
      BY <1>b, <1>1, <2>2
    <2> QED BY <2>1, <2>2
  <1> QED BY <1>a, <1>b, <1>2, <1>3, <1>4, IInvStay

\* moredata writes the block that belongs at bytes_received.
LEMMA IInvMoreData ==
  ASSUME IInv, UNCHANGED txv, RzMoreData
  PROVE  StreamInv' /\ FileInv'
  <1> USE DEF Goto, InRzfile, Retry, DataHere
  <1>a. rpc = "moredata" /\ rpc \in InRzfile /\ UNCHANGED fname
    BY DEF RzMoreData
  <1>b. /\ path \in Files /\ txf = path /\ start[path] + Len(disk[path]) = bytes_received /\ LrzTypeOK
        /\ s2r \in Seq(Item) /\ closed \in BOOLEAN /\ Stream(s2r, path, path, txpos)
        /\ \A b \in anker : b.f \in Files /\ b.from = b.pos /\ b.pos + b.n <= Size[b.f]
    BY <1>a, IInvCurrent DEF IInv, FileInv
  <1>c. AtFrame(path, bytes_received)
    BY <1>a DEF IInv, StreamInv
  <1>1. PICK r \in ZRData(s2r, closed) : RzMoreData!2!(r)
    BY DEF RzMoreData
  <1>2. Stream(s2r', path, path, txpos)
    BY <1>b, <1>1, StreamDataRead
  <1>3. CASE Fubar
    BY <1>a, <1>3, IInvFubar
  <1>4. CASE r.c \in FrameEnds
    <2>1. /\ s2r # <<>> /\ s2r[1].k = "sub" /\ r.pos = s2r[1].n /\ r.c = s2r[1].t
          /\ r.rest = Tail(s2r) /\ r.pos \in Nat
      BY <1>b, <1>4, RDataOutcome DEF FrameEnds
    <2>2. /\ s2r[1].f = path /\ s2r[1].pos = bytes_received /\ Head(s2r) = s2r[1]
          /\ s2r[1].f \in 0..NFiles /\ s2r[1].pos \in Nat
      BY <1>b, <1>c, <2>1, TailItems, ItemFields DEF AtFrame, Fits
    <2>3. /\ Putsec(s2r[1].f, s2r[1].pos, r.pos) /\ s2r' = Tail(s2r)
          /\ rpc' = IF r.c \in {"ZCRCG", "ZCRCQ"} THEN "moredata" ELSE "nxthdr"
          /\ UNCHANGED <<openv, rstat, anker>>
      BY <1>1, <1>4, <2>1, <2>2 DEF FrameEnds
    <2>4. start[path] + Len(disk'[path]) = bytes_received'
      <3>1. /\ Len(disk'[path]) = Len(disk[path]) + r.pos
            /\ Len(disk[path]) \in Nat /\ start[path] \in Nat
        BY <1>b, <2>1, <2>2, <2>3, WriteAt DEF LrzTypeOK
      <3> QED BY <1>b, <2>1, <2>3, <3>1 DEF Putsec
    <2>5. ASSUME rpc' = "moredata" PROVE AtFrame(path, bytes_received)'
      <3>1. Continues(s2r[1])
        BY <2>1, <2>3, <2>5 DEF Continues
      <3>2. EndOf(s2r[1]) = bytes_received'
        BY <2>1, <2>2, <2>3 DEF EndOf, Putsec
      <3>3. IF Tail(s2r) = <<>> THEN path = path /\ txpos = bytes_received'
                                ELSE Fits(Tail(s2r)[1], path, bytes_received')
        BY <1>b, <2>1, <2>2, <3>1, <3>2, StreamTail
      <3>4. txf' = path /\ txpos' = txpos /\ path' = path
        BY <1>b, <2>3 DEF txv
      <3> QED BY <2>3, <3>3, <3>4 DEF AtFrame, Fits
    <2> QED BY <1>a, <1>b, <1>2, <2>3, <2>4, <2>5, IInvStay
  <1>5. CASE ~Fubar /\ r.c \notin FrameEnds
    <2>1. r.c # "scan"
      <3>1. s2r # <<>> => s2r[1].k \in {"junk", "can", "sub"}
        BY <1>c DEF AtFrame, Fits
      <3>2. s2r # <<>> => s2r[1].t # "scan"
        BY <1>b, TailItems DEF Item, FrameTypes, FrameEnds
      <3> QED BY <1>b, <3>1, <3>2, RDataOutcome
    <2>2. UNCHANGED filev /\ rpc' \in {"zmputs", "rpos"}
      BY <1>1, <1>5, <2>1
    <2> QED BY <1>a, <1>b, <1>2, <2>2, IInvStay DEF filev
  <1> QED BY <1>3, <1>4, <1>5

\* ackbibi leaves the files alone.
LEMMA IInvBibi ==
  ASSUME IInv, UNCHANGED txv, AckBibi \/ BibiWait
  PROVE  StreamInv' /\ FileInv'
  <1>1. /\ UNCHANGED <<filev, fname>> /\ rpc \in {"bibi", "bibiWait"}
        /\ rpc' \in {"bibi", "bibiWait", "exit"}
    BY DEF AckBibi, BibiWait, Goto
  <1> QED BY <1>1, IInvQuiet DEF InTryz

-----------------------------------------------------------------------------
(* The sender and the line *)

\* A sender step or a fault that leaves the receiver's state alone.
LEMMA IInvOutside ==
  ASSUME IInv, UNCHANGED lrzv, UNCHANGED txf, txpos' # -1 => txpos' <= Size[txf],
         Stream(s2r, fname, txf, txpos) => Stream(s2r', fname, txf, txpos'),
         \A g \in Files, o \in Nat : AtFrame(g, o) => AtFrame(g, o)'
  PROVE  StreamInv' /\ FileInv'
  <1> USE DEF lrzv, tryzv, filev
  <1>1. FileInv'
    BY DEF IInv, FileInv, Settled
  <1>2. rpc' \in Receiving => Stream(s2r, fname, txf, txpos)'
    BY DEF IInv, StreamInv
  <1>3. ASSUME NEW o \in Nat, path \in Files, AtFrame(path, o) PROVE AtFrame(path, o)'
    BY <1>3 DEF AtFrame
  <1>4. rpc \in {"moredata", "oosbData"} => path \in Files /\ rxpos \in Nat /\ bytes_received \in Nat
    BY DEF IInv, FileInv, InRzfile, LrzTypeOK
  <1>5. rpc' = "moredata" => AtFrame(path, bytes_received)'
    BY <1>3, <1>4 DEF IInv, StreamInv, AtFrame
  <1>6. rpc' = "oosbData" => AtFrame(path, rxpos)'
    BY <1>3, <1>4 DEF IInv, StreamInv, AtFrame
  <1> QED BY <1>1, <1>2, <1>5, <1>6 DEF StreamInv

\* The sender adds one item.
LEMMA IInvSendOne ==
  ASSUME IInv, UNCHANGED txf, NEW a \in Item, NEW p \in Nat \cup {-1}, Transmit(<<a>>, p),
         ItemOK(a, fname, txf), Carries(a) => a.f = txf,
         txpos # -1 => Fits(a, txf, txpos), Continues(a) => p = EndOf(a),
         p # -1 => p <= Size[txf]
  PROVE  StreamInv' /\ FileInv'
  <1>a. s2r \in Seq(Item) /\ txf \in Files /\ txpos \in Nat \cup {-1}
    BY DEF IInv, LrzTypeOK
  <1>1. s2r' = Append(s2r, a) /\ txpos' = p /\ UNCHANGED lrzv
    BY <1>a, ConcatIsAppend DEF Transmit
  <1>2. Stream(s2r, fname, txf, txpos) => Stream(s2r', fname, txf, txpos')
    BY <1>a, <1>1, StreamAppend
  <1>3. s2r' # <<>> /\ s2r'[1] = IF s2r = <<>> THEN a ELSE s2r[1]
    BY <1>a, <1>1
  <1>4. ASSUME NEW g \in Files, NEW o \in Nat, AtFrame(g, o) PROVE AtFrame(g, o)'
    BY <1>3, <1>4 DEF AtFrame, Fits
  <1> QED BY <1>1, <1>2, <1>4, IInvOutside

\* The sender adds two items, the second one without a continuation.
LEMMA IInvSendTwo ==
  ASSUME IInv, UNCHANGED txf, NEW a \in Item, NEW b \in Item, Transmit(<<a, b>>, -1),
         ItemOK(a, fname, txf), Carries(a) => a.f = txf, ~Continues(a),
         ItemOK(b, fname, txf), Carries(b) => b.f = txf, ~Continues(b),
         txpos # -1 => Fits(a, txf, txpos)
  PROVE  StreamInv' /\ FileInv'
  <1>a. s2r \in Seq(Item) /\ txf \in Files /\ txpos \in Nat \cup {-1}
    BY DEF IInv, LrzTypeOK
  <1>1. s2r' = Append(Append(s2r, a), b) /\ txpos' = -1 /\ UNCHANGED lrzv
    BY <1>a, ConcatIsAppend DEF Transmit
  <1>2. ASSUME Stream(s2r, fname, txf, txpos) PROVE Stream(s2r', fname, txf, txpos')
    <2>1. Append(s2r, a) \in Seq(Item)
      BY <1>a
    <2>2. Stream(Append(s2r, a), fname, txf, -1)
      BY <1>a, <1>2, StreamAppend
    <2> QED BY <1>a, <1>1, <2>1, <2>2, StreamAppend
  <1>3. s2r' # <<>> /\ s2r'[1] = IF s2r = <<>> THEN a ELSE s2r[1]
    BY <1>a, <1>1
  <1>4. ASSUME NEW g \in Files, NEW o \in Nat, AtFrame(g, o) PROVE AtFrame(g, o)'
    BY <1>3, <1>4 DEF AtFrame, Fits
  <1> QED BY <1>1, <1>2, <1>4, IInvOutside

\* Every step of an honest sender keeps the invariant.
LEMMA IInvSender ==
  ASSUME IInv, SenderStep
  PROVE  StreamInv' /\ FileInv'
  <1>a. /\ LrzTypeOK /\ fname <= txf /\ 1 <= txf /\ txf \in Files /\ txf \in 0..NFiles
        /\ txf <= txf /\ Size[txf] \in Nat /\ txpos \in Nat \cup {-1}
        /\ BlockLens \subseteq Nat /\ AttnLens \subseteq Nat
    <2>1. LrzTypeOK /\ fname <= txf
      BY DEF IInv, FileInv
    <2>2. txf \in Files /\ txpos \in Nat \cup {-1}
      BY <2>1 DEF LrzTypeOK
    <2>3. 1 <= txf /\ txf \in 0..NFiles /\ txf <= txf /\ Size[txf] \in Nat
      BY <2>2, BatchAssumption DEF Files
    <2> QED BY <2>1, <2>2, <2>3, OpenAssumption
  <1>h. ASSUME NEW t \in FrameTypes, NEW p \in Nat, t = "ZFILE" => p = Asks,
               t = "ZDATA" => p <= Size[txf], t = "ZEOF" => p = Size[txf]
        PROVE  LET a == Hdr(t, txf, p) IN
               /\ a \in Item /\ ItemOK(a, fname, txf) /\ a.f = txf
               /\ Continues(a) <=> t = "ZDATA"
               /\ EndOf(a) = p
    BY <1>a, <1>h, HdrIsItem DEF Hdr, ItemOK, Continues, EndOf
  <1>s. ASSUME NEW e \in FrameEnds, NEW p \in Nat, NEW n \in Nat
        PROVE  LET a == Sub(e, txf, p, n) IN
               /\ a \in Item /\ ItemOK(a, fname, txf) /\ a.f = txf
               /\ Continues(a) <=> e \in {"ZCRCG", "ZCRCQ"}
               /\ EndOf(a) = p + n
               /\ p + n <= Size[txf] => Fits(a, txf, p)
    BY <1>a, SubIsItem DEF Sub, ItemOK, Continues, EndOf, Fits
  <1>t. {"ZFILE", "ZDATA", "ZEOF", "ZSINIT", "ZCOMMAND"} \subseteq FrameTypes /\ "ZCRCW" \in FrameEnds
    BY DEF FrameTypes, FrameEnds
  <1>n. ASSUME txpos = -1, UNCHANGED txf, NEW t \in {"ZFILE", "ZSINIT", "ZCOMMAND"},
               NEW o \in Nat, t = "ZFILE" => o = Asks, NEW n \in Nat,
               Transmit(<<Hdr(t, txf, o), Sub("ZCRCW", txf, 0, n)>>, -1)
        PROVE  StreamInv' /\ FileInv'
    <2> DEFINE a == Hdr(t, txf, o)
    <2> DEFINE b == Sub("ZCRCW", txf, 0, n)
    <2>1. a \in Item /\ ItemOK(a, fname, txf) /\ a.f = txf /\ ~Continues(a)
      BY <1>h, <1>n, <1>t
    <2>2. b \in Item /\ ItemOK(b, fname, txf) /\ b.f = txf /\ ~Continues(b)
      BY <1>s, <1>t
    <2>3. Transmit(<<a, b>>, -1)
      BY <1>n
    <2> HIDE DEF a, b
    <2> QED BY <1>n, <2>1, <2>2, <2>3, IInvSendTwo
  <1>1. CASE OfferFile
    BY <1>1, <1>n, AsksIsNat DEF OfferFile
  <1>2. CASE NextFile
    <2>1. /\ txpos = -1 /\ txpos' = -1 /\ txf' = txf + 1 /\ Settled(txf) /\ UNCHANGED <<line, lrzv>>
      BY <1>2 DEF NextFile
    <2>2. StreamInv'
      <3>1. rpc \in Receiving => Stream(s2r, fname, txf + 1, -1)
        BY <1>a, <2>1, StreamNext DEF IInv, StreamInv, LrzTypeOK
      <3>2. ASSUME NEW o \in Nat, AtFrame(path, o) PROVE AtFrame(path, o)'
        BY <2>1, <3>2 DEF AtFrame, line, lrzv, filev, Fits
      <3>3. rxpos \in Nat /\ bytes_received \in Nat
        BY <1>a DEF LrzTypeOK
      <3>4. rpc = "moredata" => AtFrame(path, bytes_received)'
        BY <2>1, <3>2, <3>3 DEF IInv, StreamInv, AtFrame, lrzv, filev
      <3>5. rpc = "oosbData" => AtFrame(path, rxpos)'
        BY <2>1, <3>2, <3>3 DEF IInv, StreamInv, AtFrame, lrzv, filev
      <3> QED BY <2>1, <3>1, <3>4, <3>5 DEF StreamInv, line, lrzv, filev
    <2>3. FileInv'
      <3>1. fname \in Int /\ txf \in Int
        BY <1>a DEF LrzTypeOK
      <3>2. \A g \in Files : g < txf + 1 => g < txf \/ g = txf
        BY <3>1 DEF Files
      <3>3. fname <= txf + 1
        BY <1>a, <3>1
      <3> QED BY <2>1, <3>2, <3>3 DEF IInv, FileInv, Settled, lrzv, filev
    <2> QED BY <2>2, <2>3
  <1>3. CASE OpenFrame
    <2>1. PICK p \in 0..Size[txf] : Transmit(<<Hdr("ZDATA", txf, p)>>, p)
      BY <1>3 DEF OpenFrame
    <2>2. p \in Nat /\ p <= Size[txf] /\ txpos = -1 /\ UNCHANGED txf
      BY <1>3, <1>a DEF OpenFrame
    <2> DEFINE a == Hdr("ZDATA", txf, p)
    <2>3. a \in Item /\ ItemOK(a, fname, txf) /\ a.f = txf /\ EndOf(a) = p /\ Transmit(<<a>>, p)
      BY <1>h, <1>t, <2>1, <2>2
    <2> HIDE DEF a
    <2> QED BY <2>2, <2>3, IInvSendOne
  <1>4. CASE SendBlock
    <2>1. PICK n \in BlockLens, e \in FrameEnds :
            /\ txpos + n <= Size[txf]
            /\ Transmit(<<Sub(e, txf, txpos, n)>>, IF e \in {"ZCRCG", "ZCRCQ"} THEN txpos + n ELSE -1)
      BY <1>4 DEF SendBlock
    <2>2. txpos \in Nat /\ n \in Nat /\ UNCHANGED txf
      BY <1>4, <1>a DEF SendBlock
    <2> DEFINE a == Sub(e, txf, txpos, n)
    <2> DEFINE p == IF e \in {"ZCRCG", "ZCRCQ"} THEN txpos + n ELSE -1
    <2>3. /\ a \in Item /\ ItemOK(a, fname, txf) /\ a.f = txf /\ Fits(a, txf, txpos)
          /\ Continues(a) => p = EndOf(a)
          /\ p \in Nat \cup {-1} /\ (p # -1 => p <= Size[txf])
          /\ Transmit(<<a>>, p)
      <3>1. /\ a \in Item /\ ItemOK(a, fname, txf) /\ a.f = txf /\ Fits(a, txf, txpos)
            /\ (Continues(a) <=> e \in {"ZCRCG", "ZCRCQ"}) /\ EndOf(a) = txpos + n
        BY <1>s, <2>1, <2>2
      <3>2. txpos + n \in Nat
        BY <2>2
      <3>3. Transmit(<<a>>, p)
        BY <2>1
      <3> QED BY <2>1, <3>1, <3>2, <3>3
    <2> HIDE DEF a, p
    <2> QED BY <2>2, <2>3, IInvSendOne
  <1>5. CASE SendEof
    <2> DEFINE a == Hdr("ZEOF", txf, Size[txf])
    <2>1. a \in Item /\ ItemOK(a, fname, txf) /\ a.f = txf /\ ~Continues(a)
      BY <1>a, <1>h, <1>t
    <2>2. Transmit(<<a>>, -1) /\ txpos = -1 /\ UNCHANGED txf
      BY <1>5 DEF SendEof
    <2> HIDE DEF a
    <2> QED BY <2>1, <2>2, IInvSendOne
  <1>6. CASE SendOther
    <2>1. txpos = -1 /\ UNCHANGED txf
      BY <1>6 DEF SendOther
    <2>2. ASSUME NEW t \in Others, Transmit(<<Hdr(t, txf, 0)>>, -1) PROVE StreamInv' /\ FileInv'
      <3> DEFINE a == Hdr(t, txf, 0)
      <3>1. t \in FrameTypes /\ t # "ZDATA" /\ t # "ZEOF" /\ t # "ZFILE"
        BY OpenAssumption
      <3>2. a \in Item /\ ItemOK(a, fname, txf) /\ a.f = txf /\ ~Continues(a)
        BY <1>h, <3>1
      <3>3. Transmit(<<a>>, -1)
        BY <2>2
      <3> HIDE DEF a
      <3> QED BY <2>1, <3>2, <3>3, IInvSendOne
    <2>3. ASSUME Transmit(<<OO>>, -1) PROVE StreamInv' /\ FileInv'
      <3>1. OO \in Item /\ ~Carries(OO) /\ ~Continues(OO)
        BY CanitIsItems DEF OO, Carries, Continues
      <3>2. ItemOK(OO, fname, txf)
        BY <3>1 DEF ItemOK
      <3> QED BY <2>1, <2>3, <3>1, <3>2, IInvSendOne
    <2> QED BY <1>6, <1>a, <1>n, <2>1, <2>2, <2>3 DEF SendOther
  <1>7. CASE Cancel
    <2>1. Can \in Item /\ ~Carries(Can) /\ ~Continues(Can) /\ Fits(Can, txf, txpos)
      BY BatchAssumption DEF Can, Item, Carries, Continues, Fits
    <2>2. ItemOK(Can, fname, txf)
      BY <2>1 DEF ItemOK
    <2>3. Transmit(<<Can, Can>>, -1) /\ UNCHANGED txf
      BY <1>7 DEF Cancel, Canit
    <2> QED BY <2>1, <2>2, <2>3, IInvSendTwo
  <1>8. CASE TakeReply
    <2>1. UNCHANGED <<s2r, lrzv, txf, txpos>>
      BY <1>8 DEF TakeReply, txv
    <2>2. txpos' # -1 => txpos' <= Size[txf]
      BY <2>1 DEF IInv, StreamInv
    <2>3. \A g \in Files, o \in Nat : AtFrame(g, o) => AtFrame(g, o)'
      BY <2>1 DEF AtFrame, Fits
    <2> QED BY <2>1, <2>2, <2>3, IInvOutside
  <1> QED BY <1>1, <1>2, <1>3, <1>4, <1>5, <1>6, <1>7, <1>8 DEF SenderStep

\* Damage and hangup keep the invariant.
LEMMA IInvLine ==
  ASSUME IInv, LineStep
  PROVE  StreamInv' /\ FileInv'
  <1>a. s2r \in Seq(Item) /\ UNCHANGED <<lrzv, txf, txpos>> /\ (txpos # -1 => txpos <= Size[txf])
    BY DEF LineStep, IInv, LrzTypeOK, StreamInv, txv
  <1>1. CASE DamageToReceiver
    <2>1. PICK i \in DOMAIN s2r : s2r' = Damage(s2r, i)
      BY <1>1 DEF DamageToReceiver
    <2>2. i \in 1..Len(s2r)
      BY <1>a, LenProperties
    <2>3. Stream(s2r, fname, txf, txpos) => Stream(s2r', fname, txf, txpos')
      BY <1>a, <2>1, <2>2, StreamDamage
    <2>4. s2r # <<>> /\ s2r' # <<>> /\ (s2r'[1] = s2r[1] \/ s2r'[1] = Junk(s2r[1].f))
      <3>1. Len(s2r) # 0 /\ Len(s2r') # 0 /\ s2r' \in Seq(Item) /\ 1 \in 1..Len(s2r)
        BY <1>a, <2>1, <2>2, DamageItems
      <3>2. s2r # <<>> /\ s2r' # <<>>
        BY <1>a, <3>1, EmptyItems
      <3> QED BY <1>a, <2>1, <2>2, <3>1, <3>2, DamageItems
    <2>5. ASSUME NEW g \in Files, NEW o \in Nat, AtFrame(g, o) PROVE AtFrame(g, o)'
      BY <2>4, <2>5, JunkIsQuiet DEF AtFrame, Fits
    <2> QED BY <1>a, <2>3, <2>5, IInvOutside
  <1>2. CASE Swallow
    <2> DEFINE d == Damage(s2r, 2)
    <2>1. 2 \in 1..Len(s2r) /\ s2r' = Tail(d)
      BY <1>2, <1>a, EmptyItems DEF Swallow
    <2>2. d \in Seq(Item) /\ Len(d) = Len(s2r) /\ d[2] = Junk(s2r[2].f)
      BY <1>a, <2>1, DamageItems
    <2>3. d # <<>>
      <3>1. Len(d) # 0
        BY <2>1, <2>2
      <3> QED BY <2>2, <3>1, EmptyItems
    <2>4. Stream(s2r, fname, txf, txpos) => Stream(s2r', fname, txf, txpos')
      <3>1. Stream(s2r, fname, txf, txpos) => Stream(d, fname, txf, txpos)
        BY <1>a, <2>1, StreamDamage
      <3> HIDE DEF d
      <3>2. Stream(d, fname, txf, txpos) => Stream(Tail(d), fname, txf, txpos)
        BY <2>2, <2>3, StreamTail
      <3> QED BY <1>a, <2>1, <3>1, <3>2
    <2>5. s2r' # <<>> /\ s2r'[1] = Junk(s2r[2].f)
      <3> HIDE DEF d
      <3>1. /\ Tail(d) \in Seq(Item) /\ Len(Tail(d)) = Len(d) - 1
            /\ \A j \in 1..Len(Tail(d)) : Tail(d)[j] = d[j + 1]
        BY <2>2, <2>3, TailItems
      <3>2. Len(Tail(d)) # 0 /\ 1 \in 1..Len(Tail(d)) /\ Tail(d)[1] = d[2]
        BY <2>1, <2>2, <3>1
      <3> QED BY <2>1, <2>2, <3>1, <3>2, EmptyItems
    <2> HIDE DEF d
    <2>6. ASSUME NEW g \in Files, NEW o \in Nat, AtFrame(g, o) PROVE AtFrame(g, o)'
      <3>1. Fits(s2r'[1], g, o)
        BY <2>5, JunkIsQuiet
      <3> QED BY <2>5, <3>1 DEF AtFrame, Fits
    <2> QED BY <1>a, <2>4, <2>6, IInvOutside
  <1>3. CASE Hangup
    <2>1. UNCHANGED s2r
      BY <1>3 DEF Hangup
    <2>2. \A g \in Files, o \in Nat : AtFrame(g, o) => AtFrame(g, o)'
      BY <1>a, <2>1 DEF AtFrame, Fits
    <2> QED BY <1>a, <2>1, <2>2, IInvOutside
  <1> QED BY <1>1, <1>2, <1>3 DEF LineStep

-----------------------------------------------------------------------------
(* Files the sender has left stay closed *)

\* A step that brings nothing back and leaves the files before the sender's alone.
LEMMA RequestKept ==
  ASSUME IInv, UNCHANGED txf,
         \A g \in Files : g < txf => rstat'[g] = rstat[g],
         \A g \in Files : g < txf /\ Gone(s2r, g) => Gone(s2r', g),
         rpc' \in Receiving => rpc \in Receiving,
         rpc' \in {"tryzFile", "procheader"} => zmanag' = Asks,
         Asks # ZCRESUM => bytes_skipped' = bytes_skipped,
         rpc' = "procheader" /\ fname' < txf => fname' \in Files /\ ~Gone(s2r, fname')
  PROVE  RequestInv'
  <1>1. \A g \in Files : g < txf /\ Final(g) => Final(g)'
    BY DEF Final
  <1>2. rpc' \in Receiving => \A g \in Files : g < txf => Final(g)' \/ Gone(s2r', g)
    BY <1>1 DEF IInv, RequestInv
  <1>3. rpc' = "procheader" /\ fname' < txf => Final(fname)'
    <2>1. rpc' = "procheader" => rpc \in Receiving
      BY DEF Receiving
    <2>2. ASSUME NEW g \in Files, g < txf, rpc \in Receiving, ~Gone(s2r, g) PROVE Final(g)'
      BY <1>1, <2>2 DEF IInv, RequestInv
    <2> QED BY <2>1, <2>2 DEF Final
  <1>4. Asks # ZCRESUM => bytes_skipped' = 0
    BY DEF IInv, RequestInv
  <1> QED BY <1>2, <1>3, <1>4 DEF RequestInv, Final, Gone, Carries

\* tryz takes from a ZFILE header what this sender asks for, and from its name
\* block a file that is still on the line.
LEMMA RequestTryz ==
  ASSUME IInv, UNCHANGED txv,
         TryzOffer \/ TryzGiveUp \/ TryzHdr \/ TryzFile \/ TryzSinit \/ TryzCommand
  PROVE  RequestInv'
  <1> USE DEF InTryz, Goto
  <1>a. /\ rpc \in Receiving /\ s2r \in Seq(Item) /\ closed \in BOOLEAN /\ UNCHANGED txf
        /\ Stream(s2r, fname, txf, txpos) /\ (rpc = "tryzFile" => zmanag = Asks)
    BY DEF TryzOffer, TryzGiveUp, TryzHdr, TryzFile, TryzSinit, TryzCommand, Receiving,
           IInv, LrzTypeOK, StreamInv, RequestInv, txv
  <1>1. CASE rpc' \notin Receiving
    BY <1>1, <1>a DEF Receiving, RequestInv, TryzOffer, TryzGiveUp, TryzHdr, TryzFile, TryzSinit,
       TryzCommand, filev, Fubar, IInv
  <1>2. CASE rpc' \in Receiving
    <2>a. UNCHANGED filev
      BY <1>2 DEF Receiving, InRzfile, TryzOffer, TryzGiveUp, TryzHdr, TryzFile, TryzSinit,
         TryzCommand, Fubar
    <2>1. \A g : Gone(s2r, g) => Gone(s2r', g)
      <3>1. \/ UNCHANGED s2r \/ \E r \in ZGetHdr(s2r, closed) : s2r' = r.rest
            \/ \E r \in ZRData(s2r, closed) : s2r' = r.rest
        BY DEF TryzOffer, TryzGiveUp, TryzHdr, TryzFile, TryzSinit, TryzCommand
      <3> QED BY <1>a, <3>1, GoneHdrRead, GoneDataRead
    <2>2. rpc' = "tryzFile" => zmanag' = Asks
      <3>1. CASE TryzHdr
        <4>1. PICK r \in ZGetHdr(s2r, closed) : TryzHdr!2!(r)
          BY <3>1 DEF TryzHdr
        <4>2. ASSUME r.c = "ZFILE" PROVE r.pos = Asks
          <5>1. s2r # <<>> /\ s2r[1].k = "hdr" /\ s2r[1].t = "ZFILE" /\ s2r[1].pos = r.pos
            BY <1>a, <4>2, GetHdrOutcome
          <5>2. 1 \in 1..Len(s2r)
            BY <1>a, <5>1, TailItems
          <5> QED BY <1>a, <5>1, <5>2 DEF Stream, ItemOK, Carries
        <4>3. rpc' = "tryzFile" => r.c = "ZFILE" /\ zmanag' = r.pos
          BY <3>1, <4>1 DEF TryzHdr, Fubar
        <4> QED BY <4>2, <4>3
      <3>2. CASE ~TryzHdr
        BY <1>a, <3>2 DEF TryzOffer, TryzGiveUp, TryzFile, TryzSinit, TryzCommand, Fubar
      <3> QED BY <3>1, <3>2
    <2>3. rpc' = "procheader" =>
            zmanag' = Asks /\ (fname' < txf => fname' \in Files /\ ~Gone(s2r, fname'))
      <3>1. SUFFICES ASSUME rpc' = "procheader"
                     PROVE  zmanag' = Asks /\ fname' \in Files /\ ~Gone(s2r, fname')
        OBVIOUS
      <3>2. TryzFile
        BY <3>1 DEF TryzOffer, TryzGiveUp, TryzHdr, TryzSinit, TryzCommand, Fubar
      <3>3. PICK r \in ZRData(s2r, closed) : TryzFile!2!(r)
        BY <3>2 DEF TryzFile
      <3>4. r.c = "ZCRCW" /\ fname' = Head(s2r).f /\ zmanag' = Asks
        BY <1>a, <3>1, <3>2, <3>3 DEF TryzFile
      <3>5. s2r # <<>> /\ s2r[1].k = "sub" /\ Carries(s2r[1])
        BY <1>a, <3>4, RDataOutcome DEF Carries
      <3>6. 1 \in 1..Len(s2r) /\ Head(s2r) = s2r[1] /\ s2r[1] \in Item
        BY <1>a, <3>5, TailItems
      <3>7. s2r[1].f \in Files
        <4>1. 1 <= s2r[1].f /\ s2r[1].f \in 0..NFiles
          BY <1>a, <3>5, <3>6, ItemFields DEF Stream, ItemOK
        <4> QED BY <4>1, BatchAssumption DEF Files
      <3> QED BY <3>4, <3>5, <3>6, <3>7 DEF Gone
    <2> QED BY <1>a, <2>a, <2>1, <2>2, <2>3, RequestKept DEF filev
  <1> QED BY <1>1, <1>2

\* procheader opens or refuses no file before the sender's.
LEMMA RequestProcHeader ==
  ASSUME IInv, UNCHANGED txv, ProcHeader, FileInv'
  PROVE  RequestInv'
  <1>a. /\ rpc = "procheader" /\ fname \in Files /\ rstat \in [Files -> RStats]
        /\ UNCHANGED <<s2r, fname, txf>> /\ zmanag = Asks
    BY DEF IInv, FileInv, LrzTypeOK, ProcHeader, line, txv, RequestInv
  <1>b. Asks # ZCRESUM => bytes_skipped' = bytes_skipped
    BY <1>a DEF ProcHeader, filev
  <1>c. rpc' \in {"tryz", "rpos"}
    BY DEF ProcHeader, NextTryz, Goto
  <1>1. ASSUME NEW g \in Files, g < txf, Final(g) PROVE Final(g)'
    <2>1. CASE rstat'[g] = rstat[g]
      BY <1>1, <2>1 DEF Final
    <2>2. CASE rstat'[g] # rstat[g]
      <3>1. rstat'[g] \in {"refused", "open"}
        BY <1>a, <2>2 DEF ProcHeader, filev
      <3>2. Settled(g)'
        BY <1>1, <1>a DEF FileInv
      <3> QED BY <3>1, <3>2 DEF Settled, Final
    <2> QED BY <2>1, <2>2
  <1>2. \A g \in Files : g < txf => Final(g)' \/ Gone(s2r', g)
    BY <1>1, <1>a DEF IInv, RequestInv, Receiving
  <1>3. Asks # ZCRESUM => bytes_skipped' = 0
    BY <1>b DEF IInv, RequestInv
  <1> QED BY <1>2, <1>3, <1>a, <1>c DEF RequestInv, Final, Gone, Carries

\* In rzfile only the sender's own file changes.
LEMMA RequestRzfile ==
  ASSUME IInv, UNCHANGED txv,
         SendRpos \/ NextHeader \/ RzHdr \/ RzJunkData \/ RzOosbData \/ Zmputs \/ RzMoreData
  PROVE  RequestInv'
  <1> USE DEF InTryz, InRzfile, Goto, filev
  <1>a. rpc \in InRzfile
    BY DEF SendRpos, NextHeader, RzHdr, RzJunkData, RzOosbData, Zmputs, RzMoreData
  <1>b. /\ path \in Files /\ txf = path /\ s2r \in Seq(Item) /\ closed \in BOOLEAN
        /\ rstat \in [Files -> RStats] /\ UNCHANGED txf /\ txf \in Int
    BY <1>a, IInvCurrent DEF IInv, LrzTypeOK, txv, Files
  <1>1. \A g : Gone(s2r, g) => Gone(s2r', g)
    <2>1. \/ UNCHANGED s2r \/ \E r \in ZGetHdr(s2r, closed) : s2r' = r.rest
          \/ \E r \in ZRData(s2r, closed) : s2r' = r.rest
      BY DEF SendRpos, NextHeader, RzHdr, RzJunkData, RzOosbData, Zmputs, RzMoreData, line
    <2> QED BY <1>b, <2>1, GoneHdrRead, GoneDataRead
  <1>2. /\ UNCHANGED bytes_skipped /\ rpc' \notin {"tryzFile", "procheader"}
        /\ UNCHANGED rstat \/ \E x : rstat' = [rstat EXCEPT ![path] = x]
    <2>1. CASE RzHdr
      <3>1. PICK r \in ZGetHdr(s2r, closed) : RzHdr!2!(r)
        BY <2>1 DEF RzHdr
      <3>2. CASE Fubar \/ FubarUnclosed
        BY <3>2 DEF Fubar, FubarUnclosed, Removed
      <3>3. CASE ~(Fubar \/ FubarUnclosed)
        BY <2>1, <3>1, <3>3 DEF RzHdr, NextTryz, Removed
      <3> QED BY <3>2, <3>3
    <2>2. CASE RzMoreData
      BY <2>2 DEF RzMoreData, Fubar, Removed
    <2>3. CASE ~RzHdr /\ ~RzMoreData
      BY <2>3 DEF SendRpos, NextHeader, RzJunkData, RzOosbData, Zmputs
    <2> QED BY <2>1, <2>2, <2>3
  <1>3. \A g \in Files : g < txf => rstat'[g] = rstat[g]
    <2>1. \A g \in Files : g < txf => g # path
      BY <1>b DEF Files
    <2> QED BY <1>b, <1>2, <2>1
  <1> QED BY <1>a, <1>b, <1>1, <1>2, <1>3, RequestKept DEF Receiving

\* The sender adds items of its own file only, and before it leaves a file that
\* lrz would open again it waits until nothing of it is on the line.
LEMMA RequestSender ==
  ASSUME IInv, SenderStep
  PROVE  RequestInv'
  <1>a. /\ LrzTypeOK /\ s2r \in Seq(Item) /\ txf \in Files /\ txf \in 0..NFiles /\ txf \in Int
        /\ BlockLens \subseteq Nat /\ AttnLens \subseteq Nat /\ Size[txf] \in Nat
    <2>1. LrzTypeOK /\ s2r \in Seq(Item) /\ txf \in Files
      BY DEF IInv, LrzTypeOK
    <2>2. txf \in 0..NFiles /\ txf \in Int /\ Size[txf] \in Nat
      BY <2>1, BatchAssumption DEF Files
    <2> QED BY <2>1, <2>2, OpenAssumption
  <1>b. ASSUME UNCHANGED <<lrzv, txf>>,
               \A g \in Files : g < txf /\ Gone(s2r, g) => Gone(s2r', g)
        PROVE  RequestInv'
    BY <1>b DEF IInv, RequestInv, Final, Gone, Carries, lrzv, filev
  <1>c. ASSUME UNCHANGED txf, NEW a \in Item, Carries(a) => a.f = txf, NEW p, Transmit(<<a>>, p)
        PROVE  RequestInv'
    <2>1. s2r' = Append(s2r, a) /\ UNCHANGED lrzv
      BY <1>a, <1>c, ConcatIsAppend DEF Transmit
    <2>2. ASSUME NEW g \in Files, g < txf, Gone(s2r, g) PROVE Gone(s2r', g)
      <3>1. Carries(a) => a.f # g
        BY <1>a, <1>c, <2>2 DEF Files
      <3> QED BY <1>a, <2>1, <2>2, <3>1, GoneAppend
    <2> QED BY <1>b, <1>c, <2>1, <2>2
  <1>d. ASSUME UNCHANGED txf, NEW a \in Item, Carries(a) => a.f = txf,
               NEW b \in Item, Carries(b) => b.f = txf, NEW p, Transmit(<<a, b>>, p)
        PROVE  RequestInv'
    <2>1. s2r' = Append(Append(s2r, a), b) /\ UNCHANGED lrzv /\ Append(s2r, a) \in Seq(Item)
      BY <1>a, <1>d, ConcatIsAppend DEF Transmit
    <2>2. ASSUME NEW g \in Files, g < txf, Gone(s2r, g) PROVE Gone(s2r', g)
      <3>1. (Carries(a) => a.f # g) /\ (Carries(b) => b.f # g)
        BY <1>a, <1>d, <2>2 DEF Files
      <3>2. Gone(Append(s2r, a), g)
        BY <1>a, <2>2, <3>1, GoneAppend
      <3> QED BY <2>1, <3>1, <3>2, GoneAppend
    <2> QED BY <1>b, <1>d, <2>1, <2>2
  <1>h. ASSUME NEW t \in FrameTypes, NEW o \in Nat
        PROVE  Hdr(t, txf, o) \in Item /\ Hdr(t, txf, o).f = txf
    BY <1>a, HdrIsItem DEF Hdr
  <1>s. ASSUME NEW e \in FrameEnds, NEW o \in Nat, NEW n \in Nat
        PROVE  Sub(e, txf, o, n) \in Item /\ Sub(e, txf, o, n).f = txf
    BY <1>a, SubIsItem DEF Sub
  <1>t. {"ZFILE", "ZDATA", "ZEOF", "ZSINIT", "ZCOMMAND"} \subseteq FrameTypes /\ "ZCRCW" \in FrameEnds
    BY DEF FrameTypes, FrameEnds
  <1>1. CASE OfferFile
    BY <1>1, <1>d, <1>h, <1>s, <1>t, AsksIsNat DEF OfferFile
  <1>2. CASE NextFile
    <2>1. /\ UNCHANGED <<line, lrzv>> /\ txf' = txf + 1
          /\ Final(txf) \/ (s2r = <<>> /\ rpc # "procheader")
      BY <1>2 DEF NextFile
    <2>2. UNCHANGED <<s2r, rpc, zmanag, bytes_skipped, fname, rstat>>
      BY <2>1 DEF line, lrzv, filev
    <2>3. s2r = <<>> => \A g \in Files : Gone(s2r, g)
      BY DEF Gone
    <2>4. \A g \in Files : g < txf' => g < txf \/ g = txf
      BY <1>a, <2>1 DEF Files
    <2>5. rpc \in Receiving => \A g \in Files : g < txf' => Final(g) \/ Gone(s2r, g)
      BY <2>1, <2>3, <2>4 DEF IInv, RequestInv
    <2>6. rpc = "procheader" /\ fname < txf' => Final(fname)
      BY <2>1, <2>4 DEF IInv, RequestInv, FileInv
    <2> QED BY <2>2, <2>5, <2>6 DEF IInv, RequestInv, Final, Gone, Carries
  <1>3. CASE OpenFrame
    <2>1. PICK p \in 0..Size[txf] : Transmit(<<Hdr("ZDATA", txf, p)>>, p) /\ UNCHANGED txf
      BY <1>3 DEF OpenFrame
    <2>2. p \in Nat
      BY <1>a
    <2> QED BY <1>c, <1>h, <1>t, <2>1, <2>2
  <1>4. CASE SendBlock
    <2>1. PICK n \in BlockLens, e \in FrameEnds : \E p : Transmit(<<Sub(e, txf, txpos, n)>>, p)
      BY <1>4 DEF SendBlock
    <2>2. txpos \in Nat /\ n \in Nat /\ UNCHANGED txf
      BY <1>4, <1>a DEF SendBlock, LrzTypeOK
    <2> QED BY <1>c, <1>s, <2>1, <2>2
  <1>5. CASE SendEof
    BY <1>5, <1>a, <1>c, <1>h, <1>t DEF SendEof
  <1>6. CASE SendOther
    <2>1. UNCHANGED txf
      BY <1>6 DEF SendOther
    <2>2. CASE \E t \in Others : Transmit(<<Hdr(t, txf, 0)>>, -1)
      <3>1. Others \subseteq FrameTypes
        BY OpenAssumption
      <3> QED BY <1>c, <1>h, <2>1, <2>2, <3>1
    <2>3. CASE \E n \in AttnLens : Transmit(<<Hdr("ZSINIT", txf, 0), Sub("ZCRCW", txf, 0, n)>>, -1)
      BY <1>a, <1>d, <1>h, <1>s, <1>t, <2>1, <2>3
    <2>4. CASE Transmit(<<Hdr("ZCOMMAND", txf, 0), Sub("ZCRCW", txf, 0, 1)>>, -1)
      BY <1>d, <1>h, <1>s, <1>t, <2>1, <2>4
    <2>5. CASE Transmit(<<OO>>, -1)
      <3>1. OO \in Item /\ ~Carries(OO)
        BY CanitIsItems DEF OO, Carries
      <3> QED BY <1>c, <2>1, <2>5, <3>1
    <2> QED BY <1>6, <2>2, <2>3, <2>4, <2>5 DEF SendOther
  <1>7. CASE Cancel
    <2>1. Can \in Item /\ ~Carries(Can)
      BY BatchAssumption DEF Can, Item, Carries
    <2> QED BY <1>7, <1>d, <2>1 DEF Cancel, Canit
  <1>8. CASE TakeReply
    BY <1>8, <1>b DEF TakeReply, txv
  <1> QED BY <1>1, <1>2, <1>3, <1>4, <1>5, <1>6, <1>7, <1>8 DEF SenderStep

\* Damage brings nothing back.
LEMMA RequestLine ==
  ASSUME IInv, LineStep
  PROVE  RequestInv'
  <1>a. s2r \in Seq(Item) /\ UNCHANGED <<lrzv, txf>>
    BY DEF LineStep, IInv, LrzTypeOK, txv
  <1>1. ASSUME NEW g \in Files, Gone(s2r, g) PROVE Gone(s2r', g)
    <2>1. CASE DamageToReceiver
      <3>1. PICK i \in DOMAIN s2r : s2r' = Damage(s2r, i)
        BY <2>1 DEF DamageToReceiver
      <3>2. i \in 1..Len(s2r)
        BY <1>a, LenProperties
      <3> QED BY <1>a, <1>1, <3>1, <3>2, GoneDamage
    <2>2. CASE Swallow
      <3>1. 2 \in 1..Len(s2r) /\ s2r' = Tail(Damage(s2r, 2))
        BY <1>a, <2>2, EmptyItems DEF Swallow
      <3>2. /\ Damage(s2r, 2) \in Seq(Item) /\ Len(Damage(s2r, 2)) # 0
            /\ Gone(Damage(s2r, 2), g)
        BY <1>a, <1>1, <3>1, DamageItems, GoneDamage
      <3> QED BY <3>1, <3>2, EmptyItems, GoneTail
    <2>3. CASE Hangup
      BY <1>1, <2>3 DEF Hangup
    <2> QED BY <2>1, <2>2, <2>3 DEF LineStep
  <1> QED BY <1>a, <1>1 DEF IInv, RequestInv, Final, Gone, Carries, lrzv, filev

\* ackbibi leads to no file.
LEMMA RequestBibi ==
  ASSUME IInv, AckBibi \/ BibiWait
  PROVE  RequestInv'
  BY DEF AckBibi, BibiWait, Goto, filev, IInv, RequestInv, Receiving, InTryz, InRzfile

\* The invariant is inductive.
LEMMA IInvNext == IInv /\ [OpenNext]_openVars => IInv'
  <1> SUFFICES ASSUME IInv, [OpenNext]_openVars PROVE IInv'
    OBVIOUS
  <1>1. LrzTypeOK'
    BY TypeNext DEF IInv, FileInv
  <1>2. StreamInv' /\ FileInv'
    <2>1. CASE LrzStep
      BY <2>1, IInvTryz, IInvProcHeader, IInvNextHeader, IInvRzHdr, IInvSkipData,
         IInvOosbData, IInvMoreData, IInvBibi DEF LrzStep, LrzNext
    <2>2. CASE SenderStep
      BY <2>2, IInvSender
    <2>3. CASE LineStep
      BY <2>3, IInvLine
    <2>4. CASE UNCHANGED openVars
      BY <2>4 DEF openVars, line, lrzv, tryzv, filev, txv, IInv, StreamInv, FileInv, AtFrame,
                  Fits, Stream, Settled
    <2> QED BY <2>1, <2>2, <2>3, <2>4 DEF OpenNext
  <1>3. RequestInv'
    <2>1. CASE LrzStep
      BY <1>2, <2>1, RequestTryz, RequestProcHeader, RequestRzfile, RequestBibi DEF LrzStep, LrzNext
    <2>2. CASE SenderStep
      BY <2>2, RequestSender
    <2>3. CASE LineStep
      BY <2>3, RequestLine
    <2>4. CASE UNCHANGED openVars
      BY <2>4 DEF openVars, line, lrzv, filev, txv, IInv, RequestInv, Final, Gone, Carries
    <2> QED BY <2>1, <2>2, <2>3, <2>4 DEF OpenNext
  <1> QED BY <1>1, <1>2, <1>3 DEF IInv

-----------------------------------------------------------------------------
(* What a step does to the files *)

\* The block putsec writes in this step belongs at bytes_received, in the file
\* under way or in the file of a saved block.
Writes(f, n) ==
  /\ path \in Files /\ f \in Files /\ n \in Nat
  /\ Putsec(f, bytes_received, n) /\ bytes_received + n <= Size[f]
  /\ f = path \/ (rpc \in InRzfile /\ \E b \in anker : b.f = f)

\* A step closes only the file under way, and only when all of it is there.
ClosesInFull ==
  \A f \in Files : rstat'[f] = "closed" => rstat[f] = "closed" \/ start[f] + Len(disk[f]) = Size[f]

Leaves == UNCHANGED <<disk, start>> /\ ClosesInFull

Empties(g) ==
  /\ disk' = [disk EXCEPT ![g] = <<>>] /\ rstat'[g] # "closed"
  /\ \A f \in Files : f # g => rstat'[f] = rstat[f] /\ start'[f] = start[f]

\* The clean-up of a failed session empties the file Pathname names.
LEMMA FubarEmpties ==
  ASSUME IInv, Fubar \/ (FubarUnclosed /\ path \in Files)
  PROVE  Leaves \/ \E g \in Files : Empties(g)
  <1>a. UNCHANGED start /\ rstat \in [Files -> RStats]
    BY DEF Fubar, FubarUnclosed, IInv, LrzTypeOK
  <1>1. CASE UNCHANGED <<rstat, disk>>
    BY <1>1, <1>a DEF Leaves, ClosesInFull
  <1>2. CASE ~UNCHANGED <<rstat, disk>>
    <2>1. path \in Files /\ Removed
      BY <1>2, BatchAssumption DEF Fubar, FubarUnclosed, IInv, LrzTypeOK, Files
    <2>2. Empties(path)
      BY <1>a, <2>1 DEF Removed, Empties
    <2> QED BY <2>1, <2>2
  <1> QED BY <1>1, <1>2

\* Every step leaves the files alone, empties one that is not closed, or writes
\* one block where it belongs.
LEMMA DiskStep ==
  ASSUME IInv, [OpenNext]_openVars
  PROVE  \/ Leaves
         \/ \E g \in Files : Empties(g)
         \/ /\ UNCHANGED <<rstat, start>> /\ rstat[path] = "open"
            /\ \E f \in Files, n \in Nat : Writes(f, n)
  <1> USE DEF filev, EofHere
  <1>a. (UNCHANGED <<disk, rstat, start>>) => Leaves
    BY DEF Leaves, ClosesInFull
  <1>1. CASE TryzOffer \/ TryzFile \/ TryzSinit \/ TryzCommand \/ AckBibi \/ BibiWait
             \/ SendRpos \/ RzJunkData \/ Zmputs \/ RzOosbData
    BY <1>1, <1>a DEF TryzOffer, TryzFile, TryzSinit, TryzCommand, AckBibi, BibiWait,
                      SendRpos, RzJunkData, Zmputs, RzOosbData
  <1>2. CASE TryzGiveUp \/ TryzHdr
    BY <1>2, <1>a, FubarEmpties DEF TryzGiveUp, TryzHdr
  <1>3. CASE ProcHeader
    <2>1. fname \in Files /\ rstat \in [Files -> RStats] /\ start \in [Files -> Nat]
      BY <1>3 DEF IInv, FileInv, ProcHeader, LrzTypeOK
    <2>2. CASE ProcHeader!2!1
      BY <1>a, <2>2
    <2>3. CASE ProcHeader!2!2
      BY <2>1, <2>3 DEF Leaves, ClosesInFull
    <2>4. CASE ProcHeader!2!3
      BY <2>1, <2>4 DEF Empties
    <2> QED BY <1>3, <2>2, <2>3, <2>4 DEF ProcHeader
  <1>4. CASE NextHeader
    <2>a. rpc \in InRzfile /\ UNCHANGED <<rstat, start>>
      BY <1>4 DEF NextHeader, InRzfile
    <2>b. path \in Files /\ rstat[path] = "open" /\ LrzTypeOK
      BY <2>a, IInvCurrent DEF IInv
    <2>1. CASE \E b \in anker : NextHeader!2!1!(b)
      <3>1. PICK b \in anker : b.pos = bytes_received /\ Putsec(b.f, b.from, b.n)
        BY <2>1
      <3>2. b.f \in Files /\ b.from = b.pos /\ b.pos + b.n <= Size[b.f] /\ b.n \in Nat
        BY <2>b DEF IInv, FileInv, LrzTypeOK
      <3>3. Writes(b.f, b.n)
        BY <2>a, <2>b, <3>1, <3>2 DEF Writes
      <3> QED BY <2>a, <2>b, <3>2, <3>3
    <2>2. CASE NextHeader!2!2
      BY <1>a, <2>2, <2>a
    <2> QED BY <1>4, <2>1, <2>2 DEF NextHeader
  <1>5. CASE RzHdr
    <2>a. rpc \in InRzfile
      BY <1>5 DEF RzHdr, InRzfile
    <2>b. /\ path \in Files /\ start[path] + Len(disk[path]) = bytes_received
          /\ s2r \in Seq(Item) /\ closed \in BOOLEAN /\ Stream(s2r, path, path, txpos)
      BY <2>a, IInvCurrent
    <2>1. PICK r \in ZGetHdr(s2r, closed) : RzHdr!2!(r)
      BY <1>5 DEF RzHdr
    <2>2. CASE Fubar \/ FubarUnclosed
      BY <2>2, <2>b, FubarEmpties
    <2>3. CASE ~(Fubar \/ FubarUnclosed) /\ UNCHANGED <<rstat, disk>>
      BY <1>a, <2>1, <2>3
    <2>4. CASE ~(Fubar \/ FubarUnclosed) /\ ~UNCHANGED <<rstat, disk>>
      <3>1. /\ UNCHANGED start
            /\ \/ UNCHANGED disk /\ rstat' = [rstat EXCEPT ![path] = "skipped"]
               \/ Removed
               \/ /\ UNCHANGED disk /\ rstat' = [rstat EXCEPT ![path] = "closed"]
                  /\ r.c = "ZEOF" /\ r.pos = bytes_received
        BY <2>1, <2>4
      <3>2. r.c = "ZEOF" => r.pos = Size[path]
        <4>1. SUFFICES ASSUME r.c = "ZEOF" PROVE r.pos = Size[path]
          OBVIOUS
        <4>2. s2r # <<>> /\ s2r[1].k = "hdr" /\ s2r[1].t = "ZEOF" /\ s2r[1].pos = r.pos
          BY <2>b, <4>1, GetHdrOutcome
        <4>3. 1 \in 1..Len(s2r) /\ s2r[1] \in Item
          BY <2>b, <4>2, TailItems
        <4>4. path <= s2r[1].f /\ s2r[1].f <= path /\ s2r[1].pos = Size[s2r[1].f]
          BY <2>b, <4>2, <4>3 DEF Stream, ItemOK, Carries
        <4>5. s2r[1].f \in Int /\ path \in Int
          BY <2>b, <4>3, ItemFields, BatchAssumption DEF Files
        <4>6. s2r[1].f = path
          BY <4>4, <4>5
        <4> QED BY <4>2, <4>4, <4>6
      <3>3. rstat \in [Files -> RStats]
        BY DEF IInv, LrzTypeOK
      <3>4. CASE Removed
        BY <2>b, <3>1, <3>3, <3>4 DEF Removed, Empties
      <3>5. CASE ~Removed
        BY <2>b, <3>1, <3>2, <3>3, <3>5 DEF Leaves, ClosesInFull
      <3> QED BY <3>4, <3>5
    <2> QED BY <2>2, <2>3, <2>4
  <1>6. CASE RzMoreData
    <2>a. rpc \in InRzfile /\ rpc = "moredata"
      BY <1>6 DEF RzMoreData, InRzfile
    <2>b. /\ path \in Files /\ rstat[path] = "open"
          /\ s2r \in Seq(Item) /\ closed \in BOOLEAN /\ AtFrame(path, bytes_received)
      BY <2>a, IInvCurrent DEF IInv, StreamInv
    <2>1. PICK r \in ZRData(s2r, closed) : RzMoreData!2!(r)
      BY <1>6 DEF RzMoreData
    <2>2. CASE r.c \in FrameEnds
      <3>1. s2r # <<>> /\ s2r[1].k = "sub" /\ r.pos = s2r[1].n /\ Head(s2r) = s2r[1] /\ r.pos \in Nat
        BY <2>b, <2>2, RDataOutcome, TailItems DEF FrameEnds
      <3>2. s2r[1].f = path /\ s2r[1].pos = bytes_received /\ s2r[1].pos + s2r[1].n <= Size[path]
        BY <2>b, <3>1 DEF AtFrame, Fits, EndOf
      <3>3. Putsec(path, bytes_received, r.pos) /\ UNCHANGED <<rstat, start>>
        BY <2>1, <2>2, <3>1, <3>2 DEF FrameEnds
      <3>4. Writes(path, r.pos)
        BY <2>b, <3>1, <3>2, <3>3 DEF Writes
      <3> QED BY <2>b, <3>1, <3>3, <3>4
    <2>3. CASE r.c \notin FrameEnds
      BY <1>a, <2>1, <2>3, FubarEmpties
    <2> QED BY <2>2, <2>3
  <1>7. CASE SenderStep \/ LineStep \/ UNCHANGED openVars
    BY <1>7, <1>a DEF SenderStep, LineStep, openVars, lrzv, OfferFile, NextFile, OpenFrame, SendBlock,
                      SendEof, SendOther, Cancel, TakeReply, Transmit
  <1> QED BY <1>1, <1>2, <1>3, <1>4, <1>5, <1>6, <1>7 DEF OpenNext, LrzStep, LrzNext

-----------------------------------------------------------------------------
(* The theorems *)

\* Stream and FileInv hold in every state: what is in flight, what the sender
\* is at and what the receiver believes agree.
THEOREM ReceiverInvariant == OpenSpec => []IInv
  BY IInvInit, IInvNext, PTL DEF OpenSpec

\* lrz, against any sender, keeps every variable within its range: no position
\* goes below zero, no record of a file outside the batch is made.
THEOREM TypeCorrect == OpenSpec => []LrzTypeOK
  <1>1. IInv => LrzTypeOK
    BY DEF IInv
  <1> QED BY <1>1, ReceiverInvariant, PTL

\* An offset in the file and a place in what was written since it was opened.
LEMMA Shifted ==
  ASSUME NEW a \in Nat, NEW b \in Nat
  PROVE  /\ \A i \in Int : (a + b) + (i - b) - 1 = a + i - 1
         /\ \A n \in Nat : a + (b + n) = (a + b) + n
  OBVIOUS

\* Every byte lrz writes is at its own offset, and a file it closes has its full
\* length: for any number of files of any size, any block lengths, any number of
\* damaged items, whatever an honest sender does.
THEOREM WritesInPlace == OpenSpec => [](WrittenInPlace /\ ClosedInFull)
  <1>1. OpenInit => WrittenInPlace /\ ClosedInFull
    BY DEF OpenInit, LrzInit, WrittenInPlace, ClosedInFull
  <1>2. IInv /\ WrittenInPlace /\ ClosedInFull /\ [OpenNext]_openVars
          => WrittenInPlace' /\ ClosedInFull'
    <2> SUFFICES ASSUME IInv, WrittenInPlace, ClosedInFull, [OpenNext]_openVars
                 PROVE  WrittenInPlace' /\ ClosedInFull'
      OBVIOUS
    <2>a. LrzTypeOK
      BY DEF IInv
    <2>1. CASE Leaves
      BY <2>1 DEF WrittenInPlace, ClosedInFull, Leaves, ClosesInFull
    <2>2. ASSUME NEW g \in Files, Empties(g) PROVE WrittenInPlace' /\ ClosedInFull'
      <3>1. \A f \in Files : disk'[f] = IF f = g THEN <<>> ELSE disk[f]
        BY <2>a, <2>2 DEF Empties, LrzTypeOK
      <3>2. WrittenInPlace'
        BY <2>2, <3>1 DEF WrittenInPlace, Empties
      <3>3. ClosedInFull'
        BY <2>2, <3>1 DEF ClosedInFull, Empties
      <3> QED BY <3>2, <3>3
    <2>3. ASSUME UNCHANGED <<rstat, start>>, rstat[path] = "open", NEW f \in Files, NEW n \in Nat, Writes(f, n)
          PROVE  WrittenInPlace' /\ ClosedInFull'
      <3>1. /\ path \in Files /\ f \in 0..NFiles /\ bytes_received \in Nat /\ Putsec(f, bytes_received, n)
            /\ start[path] \in Nat
        BY <2>a, <2>3, BatchAssumption DEF Writes, LrzTypeOK, Files
      <3>2. /\ Len(disk[path]) \in Nat /\ Len(disk'[path]) = Len(disk[path]) + n
            /\ \A h \in Files : h # path => disk'[h] = disk[h]
            /\ \A i \in 1..Len(disk[path]) : disk'[path][i] = disk[path][i]
            /\ \A i \in 1..Len(disk'[path]) : i > Len(disk[path]) =>
                 disk'[path][i] = <<f, bytes_received + (i - Len(disk[path])) - 1>>
        BY <2>a, <3>1, WriteAt
      <3>3. start[path] + Len(disk[path]) = bytes_received
        BY <2>3, <3>1 DEF IInv, FileInv
      <3>4. ASSUME NEW i \in 1..Len(disk'[path]) PROVE disk'[path][i][2] = start[path] + i - 1
        <4>a. i \in 1..Len(disk[path]) \/ i > Len(disk[path])
          BY <3>2
        <4>1. CASE i \in 1..Len(disk[path])
          BY <3>1, <3>2, <4>1 DEF WrittenInPlace
        <4>2. CASE i > Len(disk[path])
          <5>1. Len(disk[path]) \in Nat /\ i \in Int
            BY <3>2
          <5>2. bytes_received + (i - Len(disk[path])) - 1 = start[path] + i - 1
            BY <3>1, <3>3, <5>1, Shifted
          <5> QED BY <3>2, <4>2, <5>2
        <4> QED BY <4>a, <4>1, <4>2
      <3>5. WrittenInPlace'
        <4>1. ASSUME NEW h \in Files, NEW i \in 1..Len(disk'[h]) PROVE disk'[h][i][2] = start'[h] + i - 1
          <5>1. CASE h = path
            BY <2>3, <3>4, <5>1
          <5>2. CASE h # path
            BY <2>3, <3>2, <5>2 DEF WrittenInPlace
          <5> QED BY <5>1, <5>2
        <4> QED BY <4>1 DEF WrittenInPlace
      <3>6. ClosedInFull'
        BY <2>3, <3>2 DEF ClosedInFull
      <3> QED BY <3>5, <3>6
    <2> QED BY <2>1, <2>2, <2>3, DiskStep
  <1> QED BY <1>1, <1>2, ReceiverInvariant, PTL DEF OpenSpec

\* ReceivedIsPrefix byte by byte, which is what a write extends.
Own == \A f \in Files : /\ start[f] + Len(disk[f]) <= Size[f]
                        /\ \A i \in 1..Len(disk[f]) : disk[f][i] = <<f, start[f] + i - 1>>

\* Byte by byte right is right as a whole.
LEMMA OwnIsPrefix ==
  ASSUME LrzTypeOK, Own PROVE ReceivedIsPrefix
  <1> SUFFICES ASSUME NEW f \in Files
               PROVE  /\ disk[f] = Slice(f, start[f], Len(disk[f]))
                      /\ start[f] + Len(disk[f]) <= Size[f]
    BY DEF ReceivedIsPrefix
  <1> DEFINE n == Len(disk[f])
  <1> DEFINE o == start[f]
  <1>1. disk[f] \in Seq(Bytes) /\ f \in 0..NFiles /\ o \in Nat
    BY BatchAssumption DEF LrzTypeOK, Bytes, Files
  <1>2. n \in Nat
    BY <1>1, LenProperties
  <1>3. Slice(f, o, n) = [i \in 1..n |-> <<f, o + i - 1>>] /\ Slice(f, o, n) \in Seq(Bytes)
    BY <1>1, <1>2, SliceIsBytes DEF Slice
  <1>4. Len(Slice(f, o, n)) = n
    BY <1>2, <1>3
  <1>5. \A i \in 1..n : Slice(f, o, n)[i] = <<f, o + i - 1>>
    BY <1>2, <1>3
  <1>6. \A i \in 1..n : disk[f][i] = Slice(f, o, n)[i]
    BY <1>5 DEF Own
  <1>7. disk[f] = Slice(f, o, n)
    BY <1>1, <1>3, <1>4, <1>6, SeqEqual
  <1> QED BY <1>7 DEF Own

\* A step keeps what is written right, when the saved blocks are this file's.
LEMMA OwnNext ==
  ASSUME IInv, Own, SavedBlocksAreOfThisFile, [OpenNext]_openVars
  PROVE  Own'
  <1>a. LrzTypeOK
    BY DEF IInv
  <1>1. CASE Leaves
    BY <1>1 DEF Own, Leaves
  <1>2. ASSUME NEW g \in Files, Empties(g) PROVE Own'
    <2>1. \A f \in Files : disk'[f] = IF f = g THEN <<>> ELSE disk[f]
      BY <1>a, <1>2 DEF Empties, LrzTypeOK
    <2>2. start'[g] \in Nat /\ start'[g] <= Size[g]
      BY IInvNext DEF IInv, FileInv, LrzTypeOK
    <2>3. start'[g] + Len(disk'[g]) <= Size[g]
      <3>1. Len(disk'[g]) = 0
        BY <2>1
      <3>2. \A x \in Nat : x + 0 = x
        OBVIOUS
      <3> QED BY <2>2, <3>1, <3>2
    <2>4. ASSUME NEW f \in Files, f # g PROVE disk'[f] = disk[f] /\ start'[f] = start[f]
      BY <1>2, <2>1, <2>4 DEF Empties
    <2> QED BY <2>1, <2>3, <2>4 DEF Own
  <1>3. ASSUME UNCHANGED <<rstat, start>>, rstat[path] = "open", NEW f \in Files, NEW n \in Nat, Writes(f, n)
        PROVE  Own'
    <2>1. /\ path \in Files /\ f \in 0..NFiles /\ bytes_received \in Nat /\ Putsec(f, bytes_received, n)
          /\ start[path] \in Nat /\ Size[path] \in Nat
      BY <1>a, <1>3, BatchAssumption DEF Writes, LrzTypeOK, Files
    <2>2. f = path /\ bytes_received + n <= Size[path]
      BY <1>3 DEF Writes, SavedBlocksAreOfThisFile
    <2>3. /\ Len(disk[path]) \in Nat /\ Len(disk'[path]) = Len(disk[path]) + n
          /\ \A h \in Files : h # path => disk'[h] = disk[h]
          /\ \A i \in 1..Len(disk[path]) : disk'[path][i] = disk[path][i]
          /\ \A i \in 1..Len(disk'[path]) : i > Len(disk[path]) =>
               disk'[path][i] = <<f, bytes_received + (i - Len(disk[path])) - 1>>
      BY <1>a, <2>1, WriteAt
    <2>4. start[path] + Len(disk[path]) = bytes_received
      BY <1>3, <2>1 DEF IInv, FileInv
    <2>5. ASSUME NEW i \in 1..Len(disk'[path]) PROVE disk'[path][i] = <<path, start[path] + i - 1>>
      <3>1. CASE i <= Len(disk[path])
        <4>1. i \in 1..Len(disk[path])
          BY <2>3, <3>1
        <4> QED BY <2>1, <2>3, <4>1 DEF Own
      <3>2. CASE i > Len(disk[path])
        <4>1. Len(disk[path]) \in Nat /\ i \in Int
          BY <2>3
        <4>2. bytes_received + (i - Len(disk[path])) - 1 = start[path] + i - 1
          BY <2>1, <2>4, <4>1, Shifted
        <4> QED BY <2>2, <2>3, <3>2, <4>2
      <3> QED BY <2>3, <3>1, <3>2
    <2>6. start[path] + Len(disk'[path]) <= Size[path]
      <3>1. start[path] + Len(disk'[path]) = bytes_received + n
        <4>1. Len(disk[path]) \in Nat /\ Len(disk'[path]) = Len(disk[path]) + n
          BY <2>3
        <4>2. start[path] + (Len(disk[path]) + n) = (start[path] + Len(disk[path])) + n
          BY <2>1, <4>1, Shifted
        <4> QED BY <2>4, <4>1, <4>2
      <3> QED BY <2>2, <3>1
    <2> QED BY <1>3, <2>1, <2>3, <2>5, <2>6 DEF Own
  <1> QED BY <1>1, <1>2, <1>3, DiskStep

\* Nothing is written when lrz starts.
LEMMA OwnInit == OpenInit => Own
  BY BatchAssumption DEF OpenInit, LrzInit, Own, Files

\* A piece that reaches the end of the file is all there is after its start.
LEMMA WholeWhenClosed == LrzTypeOK /\ ReceivedIsPrefix /\ ClosedInFull => ClosedIsComplete
  <1> SUFFICES ASSUME LrzTypeOK, ReceivedIsPrefix, ClosedInFull, NEW f \in Files, rstat[f] = "closed"
               PROVE  disk[f] = Slice(f, start[f], Size[f] - start[f])
    BY DEF ClosedIsComplete
  <1>1. start[f] \in Nat /\ Len(disk[f]) \in Nat /\ start[f] + Len(disk[f]) = Size[f]
    BY LenProperties DEF LrzTypeOK, ClosedInFull
  <1>2. Len(disk[f]) = Size[f] - start[f]
    BY <1>1
  <1> QED BY <1>2 DEF ReceivedIsPrefix

\* As long as no saved block of an earlier file is around (which the code does
\* not ensure, see SavedBlocksAreOfThisFile), what lrz has written for a file is
\* an initial piece of that file, and a closed file is the whole file.
THEOREM ReceivesTheFile ==
  OpenSpec /\ []SavedBlocksAreOfThisFile => [](ReceivedIsPrefix /\ ClosedIsComplete)
  <1>1. IInv /\ Own /\ SavedBlocksAreOfThisFile /\ [OpenNext]_openVars => Own'
    BY OwnNext
  <1>2. IInv /\ Own => ReceivedIsPrefix
    BY OwnIsPrefix DEF IInv
  <1> QED BY <1>1, <1>2, OwnInit, ReceiverInvariant, TypeCorrect, WritesInPlace, WholeWhenClosed, PTL DEF OpenSpec

\* In a session of one file the saved blocks are that file's: lrz receives it
\* intact, with no further condition.
THEOREM ReceivesOneFile ==
  ASSUME NFiles = 1 PROVE OpenSpec => [](ReceivedIsPrefix /\ ClosedIsComplete)
  <1>1. IInv => SavedBlocksAreOfThisFile
    <2>1. Files = {1}
      BY DEF Files
    <2> QED BY <2>1 DEF IInv, FileInv, SavedBlocksAreOfThisFile
  <1> QED BY <1>1, ReceiverInvariant, ReceivesTheFile, PTL

\* A file lrz closed on ZEOF has its full length.
THEOREM ClosesAtFullLength == OpenSpec => []ClosedInFull
  BY WritesInPlace, PTL

\* As long as the sender asks for nothing else, procheader's protection holds
\* whatever it offers and however the session ends: path, which fubar unlinks,
\* never names a file that was there.
THEOREM KeepsExisting == OpenSpec => ExistingIsKept
  <1> DEFINE Safe == Asks = NoRequest => path \notin Exists /\ \A f \in Exists : rstat[f] = "exists"
  <1> DEFINE Keeps == Asks = NoRequest => \A f \in Exists : rstat'[f] = "exists" /\ disk'[f] = disk[f]
  <1>a. Exists \subseteq Files /\ 0 \notin Exists
    BY ReceiverAssumption DEF Files
  <1>1. OpenInit => Safe
    BY <1>a DEF OpenInit, LrzInit
  <1>2. ASSUME IInv, Safe, [OpenNext]_openVars, Asks = NoRequest
        PROVE  /\ path' \notin Exists
               /\ \A f \in Exists : rstat'[f] = "exists" /\ disk'[f] = disk[f]
    <2> USE DEF filev
    <2>a. rstat \in [Files -> RStats] /\ disk \in [Files -> Seq((0..NFiles) \X Nat)]
      BY <1>2 DEF IInv, LrzTypeOK
    <2>b. path \notin Exists /\ \A f \in Exists : rstat[f] = "exists"
      BY <1>2
    <2>1. CASE UNCHANGED <<path, rstat, disk>>
      BY <2>b, <2>1
    <2>2. CASE UNCHANGED path /\ Removed
      BY <1>a, <2>a, <2>b, <2>2 DEF Removed
    <2>3. CASE Fubar \/ FubarUnclosed
      BY <2>1, <2>2, <2>3 DEF Fubar, FubarUnclosed
    <2>4. CASE ProcHeader
      <3>1. zmanag = NoRequest
        BY <1>2, <2>4 DEF ProcHeader, IInv, RequestInv
      <3>2. CASE fname \in Exists
        <4>1. Protected(fname)
          BY <2>b, <3>1, <3>2 DEF Protected, There
        <4> QED BY <2>1, <2>4, <4>1 DEF ProcHeader
      <3>3. CASE fname \notin Exists
        BY <1>a, <2>a, <2>b, <2>4, <3>3 DEF ProcHeader
      <3> QED BY <3>2, <3>3
    <2>5. CASE NextHeader \/ RzHdr \/ RzMoreData
      <3>1. \/ Fubar \/ FubarUnclosed \/ (UNCHANGED path /\ Removed)
            \/ /\ UNCHANGED path
               /\ UNCHANGED disk \/ \E f, o, n : Putsec(f, o, n)
               /\ UNCHANGED rstat \/ \E s : rstat' = [rstat EXCEPT ![path] = s]
        BY <2>5 DEF NextHeader, RzHdr, RzMoreData
      <3>2. (\E f, o, n : Putsec(f, o, n)) => \A g \in Exists : disk'[g] = disk[g]
        BY <1>a, <2>a, <2>b DEF Putsec
      <3>3. (\E s : rstat' = [rstat EXCEPT ![path] = s]) => \A g \in Exists : rstat'[g] = rstat[g]
        BY <1>a, <2>a, <2>b
      <3> QED BY <2>2, <2>3, <2>b, <3>1, <3>2, <3>3
    <2>6. CASE OpenNext /\ ~ProcHeader /\ ~NextHeader /\ ~RzHdr /\ ~RzMoreData
      <3>1. Fubar \/ UNCHANGED <<path, rstat, disk>>
        BY <2>6 DEF OpenNext, LrzStep, LrzNext, TryzOffer, TryzGiveUp, TryzHdr, TryzFile, TryzSinit,
             TryzCommand, SendRpos, RzJunkData, RzOosbData, Zmputs, AckBibi, BibiWait,
             SenderStep, LineStep, lrzv, OfferFile, NextFile, OpenFrame, SendBlock,
             SendEof, SendOther, Cancel, TakeReply, Transmit
      <3> QED BY <2>1, <2>3, <3>1
    <2>7. CASE UNCHANGED openVars
      BY <2>1, <2>7 DEF openVars, lrzv
    <2> QED BY <1>2, <2>4, <2>5, <2>6, <2>7
  <1>3. IInv /\ Safe /\ [OpenNext]_openVars => Safe'
    BY <1>2
  <1>4. IInv /\ Safe /\ [OpenNext]_openVars => [Keeps]_openVars
    BY <1>2
  <1> QED BY <1>1, <1>3, <1>4, ReceiverInvariant, PTL DEF OpenSpec, ExistingIsKept
=============================================================================
