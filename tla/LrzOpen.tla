------------------------------ MODULE LrzOpen ------------------------------
(***************************************************************************)
(* lrz against every honest sender.  The remote program (sz of any         *)
(* vendor, not under src/) may offer the files in order, start a data      *)
(* frame at any offset, cut it into blocks of any length with any frame    *)
(* end, repeat headers, interleave the headers tryz and rzfile know, and   *)
(* cancel; what it does not do is put bytes of one place of a file where   *)
(* another belongs, ask for one thing of one file and another of the next  *)
(* (sz's options hold for the batch), or go to the next file before this   *)
(* one is settled.                                                         *)
(***************************************************************************)
EXTENDS Lrz

CONSTANTS
  Asks,       \* what its ZFILE headers ask for
  BlockLens,  \* lengths of its data subpackets
  AttnLens,   \* lengths of the attention string its ZSINIT carries, the final
              \* NUL included; a longer one asks for a pause
  MaxSent,    \* bound: items the sender puts on the line
  Room,       \* bound: items a pipe holds before its writer blocks
  Others      \* the headers without data the sender may interleave

ASSUME OpenAssumption ==
  /\ Asks \in Requests
  /\ BlockLens \subseteq Nat /\ AttnLens \subseteq Nat /\ MaxSent \in Nat /\ Room \in Nat
  /\ Others \subseteq FrameTypes \ {"ZFILE", "ZDATA", "ZEOF", "ZSINIT", "ZCOMMAND"}

VARIABLES
  txf,      \* the file the sender is at
  txpos,    \* the offset its open data frame has reached, -1 when none is open
  sent      \* items sent so far

txv == <<txf, txpos, sent>>
openVars == <<line, lrzv, txv>>

\* lrz is done with f, as its answer told the sender ...
Settled(f) == \/ rstat[f] \in {"closed", "skipped", "refused", "removed"}
              \/ rstat[f] = "exists" /\ Asks = NoRequest
\* ... and will refuse it when it is offered again.
Final(f) == rstat[f] = "refused" \/ (Asks = NoRequest /\ rstat[f] # "removed")

Transmit(items, p) ==
  /\ sent < MaxSent /\ sent' = sent + 1
  /\ ~closed /\ Len(s2r) < Room /\ s2r' = s2r \o items /\ txpos' = p
  /\ UNCHANGED <<r2s, closed, faults, lrzv>>

OfferFile ==
  /\ txpos = -1
  /\ Transmit(<<Hdr("ZFILE", txf, Asks), Sub("ZCRCW", txf, 0, 1)>>, -1)
  /\ UNCHANGED txf

\* Where lrz would open the file again and take the next one for it, the sender
\* first waits for the answers to all it has sent.
NextFile ==
  /\ txpos = -1 /\ txf < NFiles /\ Settled(txf)
  /\ Final(txf) \/ (s2r = <<>> /\ rpc # "procheader")
  /\ txf' = txf + 1
  /\ UNCHANGED <<line, lrzv, txpos, sent>>

OpenFrame ==
  /\ txpos = -1
  /\ \E p \in 0..Size[txf] : Transmit(<<Hdr("ZDATA", txf, p)>>, p)
  /\ UNCHANGED txf

SendBlock ==
  /\ txpos # -1
  /\ \E n \in BlockLens, e \in FrameEnds :
       /\ txpos + n <= Size[txf]
       /\ Transmit(<<Sub(e, txf, txpos, n)>>,
                   IF e \in {"ZCRCG", "ZCRCQ"} THEN txpos + n ELSE -1)
  /\ UNCHANGED txf

SendEof ==
  /\ txpos = -1 /\ Transmit(<<Hdr("ZEOF", txf, Size[txf])>>, -1)
  /\ UNCHANGED txf

\* The headers of negotiation and of error recovery, and cancelling.
SendOther ==
  /\ txpos = -1
  /\ \/ \E t \in Others : Transmit(<<Hdr(t, txf, 0)>>, -1)
     \/ \E n \in AttnLens : Transmit(<<Hdr("ZSINIT", txf, 0), Sub("ZCRCW", txf, 0, n)>>, -1)
     \/ Transmit(<<Hdr("ZCOMMAND", txf, 0), Sub("ZCRCW", txf, 0, 1)>>, -1)
     \/ Transmit(<<OO>>, -1)
  /\ UNCHANGED txf

Cancel == Transmit(Canit, -1) /\ UNCHANGED txf

\* The sender reads the answers in its own time.
TakeReply ==
  /\ r2s # <<>> /\ r2s' = Tail(r2s)
  /\ UNCHANGED <<s2r, closed, faults, lrzv, txv>>

LineStep == (DamageToReceiver \/ Swallow \/ Hangup) /\ UNCHANGED <<lrzv, txv>>
SenderStep == \/ OfferFile \/ NextFile \/ OpenFrame \/ SendBlock \/ SendEof
              \/ SendOther \/ Cancel \/ TakeReply

OpenInit ==
  /\ s2r = <<>> /\ r2s = <<>> /\ closed = FALSE /\ faults = 0
  /\ txf = 1 /\ txpos = -1 /\ sent = 0
  /\ LrzInit

LrzStep == LrzNext /\ (Len(r2s) < Room \/ closed) /\ UNCHANGED txv
OpenNext == LrzStep \/ SenderStep \/ LineStep
OpenSpec == OpenInit /\ [][OpenNext]_openVars
\* lrz runs whenever it is not blocked on the line; nothing is assumed of the
\* sender or of the line.
FairOpen == OpenSpec /\ WF_openVars(LrzStep)

-----------------------------------------------------------------------------
(***************************************************************************)
(* The invariant that makes rzfile's integrity inductive.  Stream says     *)
(* what may be in flight from a sender at file f, with its open frame at   *)
(* p, to a receiver whose last ZFILE named lo: the files come in order,    *)
(* and what follows a ZDATA header or an unfinished block is the block     *)
(* that belongs there, or unreadable, or a cancel.                         *)
(***************************************************************************)
Carries(a) == a.k \in {"hdr", "sub"}
Fits(a, f, p) == \/ a.k \in {"junk", "can"}
                 \/ a.k = "sub" /\ a.f = f /\ a.pos = p /\ EndOf(a) <= Size[f]
ItemOK(a, lo, f) ==
  Carries(a) => /\ 1 <= a.f /\ lo <= a.f /\ a.f <= f
                /\ (a.k = "hdr" => a.n = 0)
                /\ (a.k = "hdr" /\ a.t = "ZFILE") => a.pos = Asks
                /\ (a.k = "hdr" /\ a.t = "ZDATA") => a.pos <= Size[a.f]
                /\ (a.k = "hdr" /\ a.t = "ZEOF") => a.pos = Size[a.f]

Stream(q, lo, f, p) ==
  /\ \A i \in 1..Len(q) : ItemOK(q[i], lo, f)
  /\ \A i, j \in 1..Len(q) : (i < j /\ Carries(q[i]) /\ Carries(q[j])) => q[i].f <= q[j].f
  /\ \A i \in 1..Len(q) : Continues(q[i]) =>
       IF i = Len(q) THEN f = q[i].f /\ p = EndOf(q[i])
                     ELSE Fits(q[i + 1], q[i].f, EndOf(q[i]))

\* The receiver expects the bytes of file g from offset o next.
AtFrame(g, o) == IF s2r = <<>> THEN txf = g /\ txpos = o ELSE Fits(s2r[1], g, o)

\* The places from which rzfile can still be reached.
Receiving == InTryz \cup InRzfile \cup {"procheader", "asleep"}

StreamInv ==
  /\ txpos # -1 => txpos <= Size[txf]
  /\ rpc \in Receiving => Stream(s2r, fname, txf, txpos)
  /\ rpc = "moredata" => AtFrame(path, bytes_received)
  /\ rpc = "oosbData" => AtFrame(path, rxpos)

FileInv ==
  /\ path <= fname /\ fname <= txf
  /\ \A g \in Files : g < txf => Settled(g)
  /\ \A g \in Files : rstat[g] = "open" => g = path /\ rpc \in InRzfile \cup {"asleep"}
  /\ \A g \in Files : rstat[g] = "refused" => g \in Unwritable
  /\ rpc = "procheader" => fname \in Files
  /\ rpc \in InRzfile \cup {"asleep"} =>
       /\ path \in Files /\ path = fname /\ rstat[path] = "open"
       /\ start[path] + Len(disk[path]) = bytes_received
  /\ \A g \in Files : start[g] <= Size[g]
  /\ \A b \in anker : b.f \in Files /\ b.from = b.pos /\ b.pos + b.n <= Size[b.f]

\* No item of file g is in q.
Gone(q, g) == \A i \in 1..Len(q) : Carries(q[i]) => q[i].f # g

\* procheader acts on what this sender asks for, and a file the sender has left
\* is not opened again.
RequestInv ==
  /\ rpc \in {"tryzFile", "procheader"} => zmanag = Asks
  /\ Asks # ZCRESUM => bytes_skipped = 0
  /\ rpc \in Receiving => \A g \in Files : g < txf => Final(g) \/ Gone(s2r, g)
  /\ rpc = "procheader" /\ fname < txf => Final(fname)

-----------------------------------------------------------------------------
(* Properties *)

\* The values the receiver's variables and the line may take.
LrzTypeOK ==
  /\ s2r \in Seq(Item) /\ r2s \in Seq(Item) /\ closed \in BOOLEAN /\ faults \in 0..MaxFaults
  /\ rpc \in InTryz \cup InRzfile \cup
             {"procheader", "bibi", "bibiWait", "exit", "ymodem", "asleep"}
  /\ tryleft \in Nat /\ rqs \in Nat /\ nleft \in Nat /\ hdrtype \in {"ZRINIT", "ZSKIP"}
  /\ fname \in 0..NFiles /\ path \in 0..NFiles /\ rxpos \in Nat /\ bytes_received \in Nat
  /\ zmanag \in Nat /\ bytes_skipped \in Nat /\ start \in [Files -> Nat]
  /\ disk \in [Files -> Seq((0..NFiles) \X Nat)] /\ rstat \in [Files -> RStats]
  /\ anker \subseteq [pos : Nat, f : 0..NFiles, from : Nat, n : Nat]
  /\ attn \in {"none", "text", "pause"} /\ rexit \in {"no", "ok", "error"}
  /\ txf \in Files /\ txpos \in Nat \cup {-1} /\ sent \in 0..MaxSent

\* The inductive invariant: what is in flight, where the sender is, where tryz and
\* rzfile believe the stream to be, the open file, the disk and the saved blocks
\* agree in every state, whatever was lost or damaged on the way.
IInv == LrzTypeOK /\ StreamInv /\ FileInv /\ RequestInv

\* procheader's protection: as long as the sender's ZFILE headers do not ask for
\* it, a file the receiver already has is not overwritten, appended to or
\* unlinked, also not by the clean-up of a failed session, which unlinks whatever
\* file Pathname names.  (A sender that does ask gets it: lrz obeys ZMCLOB, ZMAPND
\* and ZCRESUM whoever sends them, and then unlinks the file if the session fails.)
ExistingIsKept ==
  [][Asks = NoRequest => \A f \in Exists : rstat'[f] = "exists" /\ disk'[f] = disk[f]]_openVars

\* When the line is gone lrz ends: each of tryz, rzfile and ackbibi counts the
\* reads that fail and gives up.  (Once zmputs has begun a pause it does not, since
\* it never leaves the pause; nor with an empty block in the list of saved ones,
\* see NextHeader.)
StopsAfterHangup == closed ~> (rpc \in {"exit", "ymodem", "asleep"})

\* rzfile saves the blocks "c and d" of the file in which "b fails"; they are
\* used for that file.  The condition of ReceivesTheFile: with several files it
\* can fail, since anker is not emptied when a file is closed.
SavedBlocksAreOfThisFile ==
  rpc \in InRzfile => \A b \in anker : b.f = path
=============================================================================
