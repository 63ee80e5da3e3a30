-------------------------------- MODULE Lrz --------------------------------
(***************************************************************************)
(* The ZMODEM receiver lrz (src/lszrz/lrz.c): tryz negotiates, procheader  *)
(* opens the file, rzfile collects its data and answers with ZRPOS/ZACK,   *)
(* ackbibi ends the session.  rpc is the place in the code where the       *)
(* receiver next reads the line or is about to answer; every action runs   *)
(* from one such place to the next.                                        *)
(***************************************************************************)
EXTENDS ZLine

CONSTANTS
  MaxTry,      \* n of tryz (5: nothing in lrz.c sets zmodem_requested)
  MaxRqinit,   \* zrqinits_received < 10
  MaxErrors,   \* n of rzfile (20)
  Exists,      \* files the receiver already has
  OldLen,      \* their lengths
  WholeBlock,  \* a resumed file keeps a whole number of these (1024 bytes)
  Unwritable,  \* files fopen(name, "wb") fails for
  CloseFails   \* files whose fclose fails; a full disk shows only there, as
               \* rzfile ignores what putsec returns

ASSUME ReceiverAssumption ==
  /\ {MaxTry, MaxRqinit, MaxErrors} \subseteq Nat
  /\ OldLen \in [Files -> Nat] /\ WholeBlock \in Nat \ {0}
  /\ Exists \subseteq Files /\ Unwritable \subseteq Files /\ CloseFails \subseteq Files

VARIABLES
  rpc,             \* where lrz is
  tryleft, rqs,    \* tryz: n + zrqinits_received, and zrqinits_received
  hdrtype,         \* tryzhdrtype
  zmanag,          \* zconv and zmanag: what the last ZFILE header asked for
  nleft,           \* n of rzfile and of ackbibi
  fname,           \* zi->fname: the file the last good ZFILE named, 0 before the first
  path,            \* the file Pathname names, 0 before the first
  rxpos,           \* position of the ZDATA header last read
  bytes_received,  \* zi->bytes_received
  bytes_skipped,   \* zi->bytes_skipped
  start,           \* start[f]: the offset in f from which it was last opened
  disk,            \* disk[f]: the bytes written since, at that offset or, appending,
                   \* at the end of what was there
  rstat,           \* rstat[f]: what became of file f
  anker,           \* the saved out-of-sync blocks; a new one hides an older one
                   \* at its position, as the list is searched newest first
  attn,            \* the attention string: "none", "text", or "pause" when a \336
                   \* or \335 is in it
  rexit            \* "no", "ok" or "error"

tryzv == <<tryleft, rqs, hdrtype>>
openv == <<path, bytes_skipped, start>>
filev == <<openv, bytes_received, disk, rstat, anker>>
lrzv == <<rpc, tryzv, zmanag, nleft, fname, rxpos, filev, attn, rexit>>

InTryz == {"tryz", "tryzHdr", "tryzFile", "tryzSinit", "tryzCmd"}
InRzfile == {"rpos", "nxthdr", "hdr", "junkData", "oosbData", "moredata", "zmputs"}
RStats == {"absent", "exists", "open", "closed", "skipped", "refused", "removed"}

\* What the flags ZF0 and ZF1 of a ZFILE header, its pos here, may ask for: nothing,
\* which protects a file that is there; to overwrite it; to append to it; to
\* resume it.  The sender's options decide, woterm passes lrz none of its own.
NoRequest == 0
ZMCLOB == 1
ZMAPND == 2
ZCRESUM == 3
Requests == NoRequest..ZCRESUM

LrzInit ==
  /\ rpc = "tryz" /\ tryleft = MaxTry /\ rqs = 0 /\ hdrtype = "ZRINIT" /\ zmanag = NoRequest
  /\ nleft = 0 /\ fname = 0 /\ path = 0 /\ rxpos = 0 /\ bytes_received = 0 /\ bytes_skipped = 0
  /\ start = [f \in Files |-> 0]
  /\ disk = [f \in Files |-> <<>>]
  /\ rstat = [f \in Files |-> IF f \in Exists THEN "exists" ELSE "absent"]
  /\ anker = {} /\ attn = "none" /\ rexit = "no"

Reply(t, p) == r2s' = Put(r2s, <<Hdr(t, fname, p)>>)
Goto(l) == rpc' = l

\* closeit's unlink, and wcreceive's
Removed == /\ rstat' = [rstat EXCEPT ![path] = "removed"]
           /\ disk' = [disk EXCEPT ![path] = <<>>]

\* fout was closed before: by closeit, or by procheader for a protected file.
FoutIsStale == fname # 0 /\ rstat[fname] \notin {"open", "refused"}

\* wcreceive's fubar: cancel, and (Restricted is 1) unlink whatever Pathname
\* names; main cancels twice more, as zmodem_requested is FALSE.  fubar also
\* closes fout: a second fclose may be the end of the program.
Fubar ==
  /\ rpc' = "exit" /\ rexit' = "error"
  /\ \/ /\ r2s' = Put(r2s, Canit \o Canit \o Canit)
        /\ IF path = 0 THEN UNCHANGED <<rstat, disk>> ELSE Removed
     \/ FoutIsStale /\ r2s' = Put(r2s, Canit) /\ UNCHANGED <<rstat, disk>>
  /\ UNCHANGED <<openv, bytes_received, anker>>

\* closeit fails on ZEOF: it unlinks the file, fubar closes fout once more.
FubarUnclosed ==
  /\ rpc' = "exit" /\ rexit' = "error" /\ Removed
  /\ r2s' \in {Put(r2s, Canit \o Canit \o Canit), Put(r2s, Canit)}
  /\ UNCHANGED <<openv, bytes_received, anker>>

\* rzfiles calls tryz again once a file is done
NextTryz(t) == /\ rpc' = "tryz" /\ tryleft' = MaxTry /\ rqs' = 0 /\ hdrtype' = t

-----------------------------------------------------------------------------
(* tryz *)

\* The loop head: offer ZRINIT (or the pending ZSKIP), or give up.
TryzOffer ==
  /\ rpc = "tryz" /\ tryleft > 0 /\ rqs < MaxRqinit
  /\ tryleft' = tryleft - 1 /\ hdrtype' = "ZRINIT"
  /\ Reply(hdrtype, 0) /\ Goto("tryzHdr")
  /\ UNCHANGED <<s2r, closed, faults, rqs, nleft, fname, zmanag, rxpos, filev, attn, rexit>>

\* tryz returns 0: the first call falls back to YMODEM, a later one is an error.
TryzGiveUp ==
  /\ rpc = "tryz" /\ (tryleft = 0 \/ rqs >= MaxRqinit)
  /\ IF fname = 0
     THEN Goto("ymodem") /\ UNCHANGED <<r2s, filev, rexit>>
     ELSE Fubar
  /\ UNCHANGED <<s2r, closed, faults, tryzv, nleft, fname, zmanag, rxpos, attn>>

TryzHdr ==
  /\ rpc = "tryzHdr"
  /\ \E r \in ZGetHdr(s2r, closed) :
       /\ s2r' = r.rest
       /\ \/ /\ r.c = "ZRQINIT"
             /\ tryleft' = tryleft + 1 /\ rqs' = rqs + 1 /\ Goto("tryz")
             /\ UNCHANGED <<r2s, hdrtype, nleft, filev, rexit>>
          \/ /\ r.c = "ZFILE" /\ hdrtype' = "ZRINIT" /\ Goto("tryzFile")
             /\ UNCHANGED <<r2s, tryleft, rqs, nleft, filev, rexit>>
          \/ /\ r.c = "ZSINIT" /\ Goto("tryzSinit")
             /\ UNCHANGED <<r2s, tryzv, nleft, filev, rexit>>
          \/ /\ r.c = "ZCOMMAND" /\ Goto("tryzCmd")
             /\ UNCHANGED <<r2s, tryzv, nleft, filev, rexit>>
          \/ /\ r.c = "ZFREECNT" /\ Reply("ZACK", 0)
             /\ UNCHANGED <<rpc, tryzv, nleft, filev, rexit>>
          \/ /\ r.c \in {"ZCOMPL", "scan"}
             /\ UNCHANGED <<r2s, rpc, tryzv, nleft, filev, rexit>>
          \/ /\ r.c = "ZFIN" /\ nleft' = 3 /\ Goto("bibi")
             /\ UNCHANGED <<r2s, tryzv, filev, rexit>>
          \/ /\ r.c \in {"ZRINIT", "ZCAN"} /\ Fubar
             /\ UNCHANGED <<tryzv, nleft>>
          \/ /\ r.c \in {"ZEOF", "TIMEOUT", "MYERROR", "ZACK", "ZSKIP", "ZNAK", "ZABORT",
                         "ZRPOS", "ZDATA", "ZFERR", "ZCRC", "ZCHALLENGE", "ZSTDERR"}
             /\ Goto("tryz")
             /\ UNCHANGED <<r2s, tryzv, nleft, filev, rexit>>
       /\ zmanag' = IF r.c = "ZFILE" THEN r.pos ELSE zmanag
  /\ UNCHANGED <<closed, faults, fname, rxpos, attn>>

\* zrdata after a ZFILE header: only an intact name block counts
TryzFile ==
  /\ rpc = "tryzFile"
  /\ \E r \in ZRData(s2r, closed) :
       /\ s2r' = r.rest
       /\ \/ /\ r.c = "ZCRCW" /\ fname' = Head(s2r).f /\ Goto("procheader")
             /\ UNCHANGED r2s
          \/ r.c = "scan" /\ UNCHANGED <<r2s, rpc, fname>>
          \/ /\ r.c \notin {"ZCRCW", "scan"} /\ Reply("ZNAK", 0) /\ Goto("tryzHdr")
             /\ UNCHANGED fname
  /\ UNCHANGED <<closed, faults, tryzv, nleft, zmanag, rxpos, filev, attn, rexit>>

\* zrdata stores into Attn even when the block turns out to be damaged.
TryzSinit ==
  /\ rpc = "tryzSinit"
  /\ \E r \in ZRData(s2r, closed) :
       /\ s2r' = r.rest
       /\ \/ /\ r.c = "ZCRCW" /\ Reply("ZACK", 1) /\ Goto("tryzHdr")
             /\ attn' \in IF r.pos > 1 THEN {"text", "pause"} ELSE {"none"}
          \/ r.c = "scan" /\ UNCHANGED <<r2s, rpc, attn>>
          \/ /\ r.c \notin {"ZCRCW", "scan"} /\ Reply("ZNAK", 0) /\ Goto("tryzHdr")
             /\ attn' \in {"none", "text", "pause"}
  /\ UNCHANGED <<closed, faults, tryzv, nleft, fname, zmanag, rxpos, filev, rexit>>

\* Remote commands are off: answer ZCOMPL and end the session.
TryzCommand ==
  /\ rpc = "tryzCmd"
  /\ \E r \in ZRData(s2r, closed) :
       /\ s2r' = r.rest
       /\ \/ /\ r.c = "ZCRCW" /\ Reply("ZCOMPL", 0)
             /\ rpc' = "exit" /\ rexit' = "ok"
          \/ r.c = "scan" /\ UNCHANGED <<r2s, rpc, rexit>>
          \/ /\ r.c \notin {"ZCRCW", "scan"} /\ Reply("ZNAK", 0) /\ Goto("tryzHdr")
             /\ UNCHANGED rexit
  /\ UNCHANGED <<closed, faults, tryzv, nleft, fname, zmanag, rxpos, filev, attn>>

-----------------------------------------------------------------------------
(* procheader and rzfile *)

\* The file is there: sent before, or before the session.
There(f) == rstat[f] \in {"exists", "closed", "skipped"}
ProtectedOnlyIfSent(f) == zmanag = NoRequest /\ rstat[f] \in {"closed", "skipped"}
Protected(f) == zmanag = NoRequest /\ There(f)

\* What resuming keeps of a file that is there: whole blocks, and nothing of one
\* longer than the file sent.
LengthOf(f) == IF rstat[f] = "exists" THEN OldLen[f] ELSE start[f] + Len(disk[f])
Kept(f) == IF There(f) /\ LengthOf(f) <= Size[f]
           THEN LengthOf(f) - (LengthOf(f) % WholeBlock) ELSE 0

\* if (--n < 0): one more failure is forgiven
RetryForever == nleft > 0 /\ nleft' = nleft
Retry == nleft > 0 /\ nleft' = nleft - 1

\* rclhdr(Rxhdr) against bytes_received, for ZEOF and for ZDATA
EofAnywhere(p) == TRUE
EofHere(p) == p = bytes_received
DataAhead(p) == p >= bytes_received
DataHere(p) == p = bytes_received

\* A protected file, or one that cannot be opened, is refused with ZSKIP; Pathname
\* is set between the two tests.  bytes_skipped is set for a resumed file only,
\* and is where every other file begins, too.
ProcHeader ==
  /\ rpc = "procheader"
  /\ \/ /\ Protected(fname)
        /\ NextTryz("ZSKIP")
        /\ UNCHANGED <<filev, nleft>>
     \/ /\ ~Protected(fname) /\ fname \in Unwritable
        /\ path' = fname /\ rstat' = [rstat EXCEPT ![fname] = "refused"]
        /\ bytes_skipped' = IF zmanag = ZCRESUM THEN 0 ELSE bytes_skipped
        /\ NextTryz("ZSKIP")
        /\ UNCHANGED <<start, bytes_received, disk, anker, nleft>>
     \/ /\ ~Protected(fname) /\ fname \notin Unwritable
        /\ path' = fname /\ rstat' = [rstat EXCEPT ![fname] = "open"]
        /\ bytes_skipped' = IF zmanag = ZCRESUM THEN Kept(fname) ELSE bytes_skipped
        /\ start' = [start EXCEPT ![fname] = IF zmanag = ZCRESUM THEN Kept(fname) ELSE 0]
        /\ disk' = [disk EXCEPT ![fname] = <<>>] /\ bytes_received' = bytes_skipped'
        /\ nleft' = MaxErrors /\ Goto("rpos")
        /\ UNCHANGED <<anker, tryzv>>
  /\ UNCHANGED <<line, fname, zmanag, rxpos, attn, rexit>>

\* Top of rzfile's loop: ask for the data from where we are.
SendRpos ==
  /\ rpc = "rpos" /\ Reply("ZRPOS", bytes_received) /\ Goto("hdr")
  /\ UNCHANGED <<s2r, closed, faults, tryzv, nleft, fname, zmanag, rxpos, filev, attn, rexit>>

\* putsec, and the count its callers keep
PutsecUncounted(f, from, n) ==
  /\ disk' = [disk EXCEPT ![path] = @ \o Slice(f, from, n)]
  /\ UNCHANGED bytes_received
Putsec(f, from, n) ==
  /\ disk' = [disk EXCEPT ![path] = @ \o Slice(f, from, n)]
  /\ bytes_received' = bytes_received + n

\* nxthdr: use a saved block that fits (it stays in the list), else drop the
\* blocks that lie behind us and read the next header.  A block of length 0
\* that fits is found again and again.
NextHeader ==
  /\ rpc = "nxthdr"
  /\ \/ \E b \in anker :
          /\ b.pos = bytes_received /\ Putsec(b.f, b.from, b.n)
          /\ UNCHANGED <<rpc, anker>>
     \/ /\ \A b \in anker : b.pos # bytes_received
        /\ anker' = {b \in anker : b.pos > bytes_received}
        /\ Goto("hdr")
        /\ UNCHANGED <<disk, bytes_received>>
  /\ UNCHANGED <<line, tryzv, nleft, fname, zmanag, rxpos, openv, rstat, attn, rexit>>

\* skip_oosb: read a header of the file's transfer.
RzHdr ==
  /\ rpc = "hdr"
  /\ \E r \in ZGetHdr(s2r, closed) :
       /\ s2r' = r.rest
       /\ \/ /\ r.c \in {"ZNAK", "TIMEOUT"}
             /\ Retry /\ Goto("junkData")
             /\ UNCHANGED <<r2s, tryzv, rxpos, filev, rexit>>
          \/ /\ r.c = "ZFILE" /\ Goto("junkData")
             /\ UNCHANGED <<r2s, tryzv, nleft, rxpos, filev, rexit>>
          \/ /\ r.c = "ZEOF" /\ ~EofHere(r.pos) /\ Goto("nxthdr")
             /\ UNCHANGED <<r2s, tryzv, nleft, rxpos, filev, rexit>>
          \/ /\ r.c = "ZEOF" /\ EofHere(r.pos) /\ path \notin CloseFails
             /\ rstat' = [rstat EXCEPT ![path] = "closed"] /\ NextTryz(hdrtype)
             /\ UNCHANGED <<r2s, nleft, rxpos, openv, bytes_received, disk, anker, rexit>>
          \/ /\ r.c = "ZEOF" /\ EofHere(r.pos) /\ path \in CloseFails
             /\ FubarUnclosed /\ UNCHANGED <<tryzv, nleft, rxpos>>
          \/ /\ r.c = "MYERROR"
             /\ Retry /\ Goto("zmputs")
             /\ UNCHANGED <<r2s, tryzv, rxpos, filev, rexit>>
          \/ /\ r.c = "ZSKIP" /\ NextTryz(hdrtype)
             /\ IF path \in CloseFails THEN Removed
                ELSE rstat' = [rstat EXCEPT ![path] = "skipped"] /\ UNCHANGED disk
             /\ UNCHANGED <<r2s, nleft, rxpos, openv, bytes_received, anker, rexit>>
          \/ /\ r.c = "ZDATA" /\ ~DataHere(r.pos)
             /\ Retry /\ rxpos' = r.pos /\ Goto("oosbData")
             /\ UNCHANGED <<r2s, tryzv, filev, rexit>>
          \/ /\ r.c = "ZDATA" /\ DataHere(r.pos) /\ Goto("moredata")
             /\ UNCHANGED <<r2s, tryzv, nleft, rxpos, filev, rexit>>
          \/ /\ r.c = "scan"
             /\ UNCHANGED <<r2s, rpc, tryzv, nleft, rxpos, filev, rexit>>
          \/ /\ \/ nleft = 0 /\ r.c \in {"ZNAK", "TIMEOUT", "MYERROR"}
                \/ nleft = 0 /\ r.c = "ZDATA" /\ ~DataHere(r.pos)
                \/ r.c \in {"ZRQINIT", "ZRINIT", "ZSINIT", "ZACK", "ZABORT", "ZFIN", "ZRPOS",
                            "ZFERR", "ZCRC", "ZCHALLENGE", "ZCOMPL", "ZFREECNT", "ZCOMMAND",
                            "ZSTDERR", "ZCAN"}
             /\ Fubar /\ UNCHANGED <<tryzv, nleft, rxpos>>
  /\ UNCHANGED <<closed, faults, fname, zmanag, attn>>

\* The block after a repeated ZFILE, and after ZNAK and TIMEOUT, which fall
\* through to the same zrdata; its result is not looked at.
RzJunkData ==
  /\ rpc = "junkData"
  /\ \E r \in ZRData(s2r, closed) :
       /\ s2r' = r.rest /\ Goto(IF r.c = "scan" THEN "junkData" ELSE "rpos")
  /\ UNCHANGED <<r2s, closed, faults, tryzv, nleft, fname, zmanag, rxpos, filev, attn, rexit>>

\* A ZDATA at the wrong place: keep its first block if it lies ahead.
RzOosbData ==
  /\ rpc = "oosbData"
  /\ \E r \in ZRData(s2r, closed) :
       /\ s2r' = r.rest /\ Goto(IF r.c = "scan" THEN "oosbData" ELSE "zmputs")
       /\ anker' = IF r.c \in FrameEnds /\ rxpos > bytes_received
                   THEN {b \in anker : b.pos # rxpos} \cup
                        {[pos |-> rxpos, f |-> Head(s2r).f, from |-> Head(s2r).pos, n |-> r.pos]}
                   ELSE anker
  /\ UNCHANGED <<r2s, closed, faults, tryzv, nleft, fname, zmanag, rxpos, openv, bytes_received,
                 disk, rstat, attn, rexit>>

\* zmputs(Attn): text is written out; after a pause character s is never
\* advanced past it, so the function sleeps for ever.
Zmputs ==
  /\ rpc = "zmputs"
  /\ IF attn = "none" THEN UNCHANGED r2s ELSE r2s' = Put(r2s, <<Junk(fname)>>)
  /\ Goto(IF attn = "pause" THEN "asleep" ELSE "rpos")
  /\ UNCHANGED <<s2r, closed, faults, tryzv, nleft, fname, zmanag, rxpos, filev, attn, rexit>>

\* moredata: the next subpacket of a frame that began where we are.
RzMoreData ==
  /\ rpc = "moredata"
  /\ \E r \in ZRData(s2r, closed) :
       /\ s2r' = r.rest
       /\ \/ /\ r.c \in FrameEnds
             /\ nleft' = MaxErrors /\ Putsec(Head(s2r).f, Head(s2r).pos, r.pos)
             /\ IF r.c \in {"ZCRCW", "ZCRCQ"} THEN Reply("ZACK", bytes_received')
                                              ELSE UNCHANGED r2s
             /\ Goto(IF r.c \in {"ZCRCG", "ZCRCQ"} THEN "moredata" ELSE "nxthdr")
             /\ UNCHANGED <<openv, rstat, anker, rexit>>
          \/ /\ r.c \in {"MYERROR", "TIMEOUT"}
             /\ Retry /\ Goto(IF r.c = "MYERROR" THEN "zmputs" ELSE "rpos")
             /\ UNCHANGED <<r2s, filev, rexit>>
          \/ r.c = "scan" /\ UNCHANGED <<r2s, rpc, nleft, filev, rexit>>
          \/ /\ \/ r.c = "ZCAN"
                \/ r.c \in {"MYERROR", "TIMEOUT"} /\ nleft = 0
             /\ Fubar /\ UNCHANGED nleft
  /\ UNCHANGED <<closed, faults, tryzv, fname, zmanag, rxpos, attn>>

-----------------------------------------------------------------------------
(* ackbibi *)

\* purgeline drops whatever part of the stream was already read ahead.
AckBibi ==
  /\ rpc = "bibi"
  /\ \/ /\ nleft > 0 /\ nleft' = nleft - 1
        /\ \E k \in 1..(Len(s2r) + 1) : s2r' = SubSeq(s2r, k, Len(s2r))
        /\ Reply("ZFIN", 0) /\ Goto("bibiWait")
        /\ UNCHANGED rexit
     \/ /\ nleft = 0 /\ rpc' = "exit" /\ rexit' = "ok"
        /\ UNCHANGED <<s2r, r2s, nleft>>
  /\ UNCHANGED <<closed, faults, tryzv, fname, zmanag, rxpos, filev, attn>>

\* One byte is read: the O of "OO" ends it, anything else asks again.
BibiWait ==
  /\ rpc = "bibiWait"
  /\ \/ /\ s2r # <<>> /\ Head(s2r).k \in {"oo", "junk"}
        /\ s2r' = Tail(s2r) /\ rpc' = "exit" /\ rexit' = "ok"
     \/ /\ s2r # <<>> /\ Head(s2r).k # "oo"
        /\ s2r' = Tail(s2r) /\ Goto("bibi") /\ UNCHANGED rexit
     \/ /\ s2r = <<>> /\ closed /\ Goto("bibi") /\ UNCHANGED <<s2r, rexit>>
  /\ UNCHANGED <<r2s, closed, faults, tryzv, nleft, fname, zmanag, rxpos, filev, attn>>

LrzNext ==
  \/ TryzOffer \/ TryzGiveUp \/ TryzHdr \/ TryzFile \/ TryzSinit \/ TryzCommand
  \/ ProcHeader \/ SendRpos \/ NextHeader \/ RzHdr \/ RzJunkData \/ RzOosbData
  \/ Zmputs \/ RzMoreData \/ AckBibi \/ BibiWait

-----------------------------------------------------------------------------
(* Properties *)

\* Whatever order, damage, repetition or repositioning the stream goes through,
\* and however rzfile is left and entered again, every byte putsec writes lands
\* at the offset it has in the file it comes from (rzfile's ZDATA position test,
\* the positions of the saved blocks), also in a file that was resumed.
WrittenInPlace ==
  \A f \in Files : \A i \in 1..Len(disk[f]) : disk[f][i][2] = start[f] + i - 1

\* A file rzfile closes on ZEOF has its full length: a ZEOF that overtakes lost
\* data (rclhdr(Rxhdr) # bytes_received) never closes it short.
ClosedInFull ==
  \A f \in Files : rstat[f] = "closed" => start[f] + Len(disk[f]) = Size[f]

\* What rzfile has written for a file is at every moment the piece of that very
\* file that begins where it was opened, at 0 or after what resuming kept: putsec
\* is only reached with the bytes that belong at bytes_received.
ReceivedIsPrefix ==
  \A f \in Files : /\ disk[f] = Slice(f, start[f], Len(disk[f]))
                   /\ start[f] + Len(disk[f]) <= Size[f]

\* A file rzfile has closed on ZEOF is complete: everything from where it was
\* opened has been written.
ClosedIsComplete ==
  \A f \in Files : rstat[f] = "closed" => disk[f] = Slice(f, start[f], Size[f] - start[f])

=============================================================================
