-------------------------------- MODULE Lsz --------------------------------
(***************************************************************************)
(* The ZMODEM sender lsz (src/lszrz/lsz.c): main and wcsend walk through   *)
(* the batch, getnak/getzrxinit/sendzsinit find the receiver, zsendfile    *)
(* offers a file, zsendfdata streams it, getinsync reads the receiver's    *)
(* complaints, saybibi ends the session.  spc is the place in the code.    *)
(* Txwindow is 0 and junkcount is never incremented in this build, so the  *)
(* window branches of zsendfdata are not there.                            *)
(***************************************************************************)
EXTENDS ZLine

CONSTANTS
  BlkLens,      \* block lengths calc_blklen may choose (32..8192)
  MaxRxTries,   \* n of getzrxinit (10)
  MaxZrqinit,   \* never more than 4 ZRQINIT
  MaxNakTries,  \* getnak gives up at the third TIMEOUT
  MaxSinit,     \* sendzsinit gives up after 19 wrong answers
  Unreadable,   \* files fopen(oname, "rb") fails for
  Directories   \* arguments that turn out to be directories

ASSUME SenderAssumption ==
  /\ BlkLens \subseteq Nat \ {0} /\ BlkLens # {}
  /\ {MaxRxTries, MaxNakTries, MaxSinit} \subseteq Nat /\ MaxZrqinit \in Nat \ {0}
  /\ Unreadable \subseteq Files /\ Directories \subseteq Files

VARIABLES
  spc,           \* where lsz is
  argn,          \* n of wcsend: the file at hand
  zmodem,        \* zmodem_requested
  zrqinits,      \* zrqinits_sent
  tries, tmo,    \* n of getzrxinit (or tries of getnak, up to one above the
                 \* limit it is compared with), and its timeouts
  quiet,         \* dont_send_zrqinit
  serr,          \* errors of sendzsinit
  eof_seen,      \* zi->eof_seen
  bytes_sent,    \* zi->bytes_sent, the position headers speak of
  inpos,         \* where input_f stands
  lastsync,      \* Lastsync (-1 stands for (size_t)-1)
  sstat,         \* sstat[f]: what lsz reports of file f
  sexit          \* "no", "ok" ("Transfer complete"), "incomplete"

initv == <<zmodem, zrqinits, tries, tmo, quiet, serr>>
datav == <<eof_seen, bytes_sent, inpos, lastsync>>
lszv == <<spc, argn, initv, datav, sstat, sexit>>

SStats == {"todo", "ok", "skipped", "unreadable", "directory"}
SPlaces == {"start", "wcs", "getnak", "rxinit", "rxinitHdr", "zsinit", "zsinitHdr", "zfile",
            "zfileHdr", "zfileDrain", "zdata", "block", "waitack", "eof", "eofHdr", "bibi",
            "bibiHdr", "exit", "ymodem"}

LszInit ==
  /\ spc = "start" /\ argn = 1 /\ zmodem = FALSE /\ zrqinits = 0
  /\ tries = 0 /\ tmo = 0 /\ quiet = TRUE /\ serr = 0
  /\ eof_seen = FALSE /\ bytes_sent = 0 /\ inpos = 0 /\ lastsync = -1
  /\ sstat = [f \in Files |-> "todo"] /\ sexit = "no"

Send(items) == s2r' = Put(s2r, items)
SGoto(l) == spc' = l
SHdr(t, p) == Hdr(t, argn, p)

\* wcsend returns MYERROR: main cancels and reports "Transfer incomplete"
Abort == /\ Send(Canit) /\ spc' = "exit" /\ sexit' = "incomplete"

\* main: exit status 1 when a file could not be opened
FinishUnlessSkipped ==
  /\ spc' = "exit"
  /\ sexit' = IF \E f \in Files : sstat[f] # "ok" THEN "incomplete" ELSE "ok"
Finish == /\ spc' = "exit"
          /\ sexit' = IF \E f \in Files : sstat[f] = "unreadable" THEN "incomplete" ELSE "ok"

\* wcs returns: on to the next file
Report(s) == /\ sstat' = [sstat EXCEPT ![argn] = s]
             /\ argn' = argn + 1 /\ SGoto("wcs")

-----------------------------------------------------------------------------
(* main, wcsend, wcs *)

\* "rz\r" for the remote shell, then the invitation
SayRz ==
  /\ spc = "start" /\ Send(<<Junk(1), SHdr("ZRQINIT", 0)>>) /\ zrqinits' = zrqinits + 1
  /\ SGoto("wcs")
  /\ UNCHANGED <<r2s, closed, faults, argn, zmodem, tries, tmo, quiet, serr, datav, sstat, sexit>>

OpenNextFile ==
  /\ spc = "wcs" /\ argn <= NFiles
  /\ \/ /\ argn \in Unreadable \cup Directories
        /\ Report(IF argn \in Unreadable THEN "unreadable" ELSE "directory")
        /\ UNCHANGED <<tries, datav>>
     \/ /\ argn \notin Unreadable \cup Directories
        /\ eof_seen' = FALSE /\ bytes_sent' = 0 /\ inpos' = 0
        /\ SGoto(IF zmodem THEN "zfile" ELSE "getnak") /\ tries' = 0
        /\ UNCHANGED <<argn, sstat, lastsync>>
  /\ UNCHANGED <<line, zmodem, zrqinits, tmo, quiet, serr, sexit>>

\* Filcnt == 0 when no file could be opened; wcsend cancels then, and main again
NoMoreFiles ==
  /\ spc = "wcs" /\ argn > NFiles
  /\ IF \A f \in Files : sstat[f] \in {"unreadable", "directory"}
     THEN Send(Canit \o Canit) /\ spc' = "exit" /\ sexit' = "incomplete"
     ELSE SGoto(IF zmodem THEN "bibi" ELSE "ymodem") /\ UNCHANGED <<s2r, sexit>>
  /\ UNCHANGED <<r2s, closed, faults, argn, initv, datav, sstat>>

-----------------------------------------------------------------------------
(* getnak, getzrxinit, sendzsinit *)

\* zrqinits_sent < 4
InviteAlways == TRUE
MayInvite == zrqinits < MaxZrqinit

\* getnak reads byte by byte and counts every byte as a try.  ZPAD starts
\* getzrxinit, which reads the header itself; other text, of any length, may
\* hold the C, G or NAK that asks for YMODEM.  It gives up only when the try
\* that ends at end of file is exactly the third.
Counted == IF tries > MaxNakTries THEN tries ELSE tries + 1
GetNak ==
  /\ spc = "getnak"
  /\ \/ /\ r2s # <<>> /\ Head(r2s).k = "hdr"
        /\ tries' = MaxRxTries /\ tmo' = 0 /\ SGoto("rxinit")
        /\ UNCHANGED <<s2r, r2s, zrqinits, sexit>>
     \/ /\ r2s # <<>> /\ Head(r2s).k = "can" /\ r2s' = Tail(r2s) /\ Abort
        /\ UNCHANGED <<tries, tmo, zrqinits>>
     \/ /\ r2s # <<>> /\ Head(r2s).k \notin {"hdr", "can"} /\ r2s' = Tail(r2s)
        /\ spc' \in {"getnak", "ymodem"} /\ tries' \in Counted..(MaxNakTries + 1)
        /\ UNCHANGED <<s2r, tmo, zrqinits, sexit>>
     \/ /\ r2s = <<>> /\ closed /\ UNCHANGED <<r2s, tmo>>
        /\ tries' = Counted
        /\ IF tries' = MaxNakTries THEN Abort /\ UNCHANGED zrqinits
           ELSE /\ UNCHANGED <<spc, sexit>>
                /\ IF (zrqinits > 1 \/ tries' > 1) /\ MayInvite
                   THEN Send(<<SHdr("ZRQINIT", 0)>>) /\ zrqinits' = zrqinits + 1
                   ELSE UNCHANGED <<s2r, zrqinits>>
  /\ UNCHANGED <<closed, faults, argn, zmodem, quiet, serr, datav, sstat>>

RxInitOffer ==
  /\ spc = "rxinit"
  /\ \/ /\ tries > 0 /\ tries' = tries - 1 /\ quiet' = FALSE /\ SGoto("rxinitHdr")
        /\ IF MayInvite /\ ~quiet
           THEN Send(<<SHdr("ZRQINIT", 0)>>) /\ zrqinits' = zrqinits + 1
           ELSE UNCHANGED <<s2r, zrqinits>>
        /\ UNCHANGED sexit
     \/ /\ tries = 0 /\ Abort /\ UNCHANGED <<tries, quiet, zrqinits>>
  /\ UNCHANGED <<r2s, closed, faults, argn, zmodem, tmo, serr, datav, sstat>>

\* A ZRQINIT whose ZF0 is ZCOMMAND, here one with a position, is not answered.
GetZrxinit ==
  /\ spc = "rxinitHdr"
  /\ \E r \in ZGetHdr(r2s, closed) :
       /\ r2s' = r.rest
       /\ \/ /\ r.c = "ZRINIT" /\ zmodem' = TRUE /\ serr' = 0 /\ SGoto("zsinit")
             /\ UNCHANGED <<s2r, tmo, sexit>>
          \/ /\ r.c \in {"ZCAN", "TIMEOUT"} /\ tmo = 0 /\ tmo' = 1 /\ SGoto("rxinit")
             /\ UNCHANGED <<s2r, zmodem, serr, sexit>>
          \/ /\ r.c \in {"ZCAN", "TIMEOUT"} /\ tmo > 0 /\ Abort
             /\ UNCHANGED <<zmodem, serr, tmo>>
          \/ /\ r.c = "scan" /\ UNCHANGED <<s2r, spc, zmodem, serr, tmo, sexit>>
          \/ /\ r.c \notin {"ZRINIT", "ZCAN", "TIMEOUT", "scan"} /\ SGoto("rxinit")
             /\ Send(CASE r.c = "ZRQINIT" /\ r.pos # 0 -> <<>>
                       [] r.c = "ZCHALLENGE"            -> <<SHdr("ZACK", r.pos)>>
                       [] OTHER                         -> <<SHdr("ZNAK", 0)>>)
             /\ zmodem' = (zmodem \/ r.c # "MYERROR")
             /\ UNCHANGED <<serr, tmo, sexit>>
  /\ UNCHANGED <<closed, faults, argn, zrqinits, tries, quiet, datav, sstat>>

\* Myattn is ^C and a pause: never empty, so ZSINIT is always sent.
SendZsinit ==
  /\ spc = "zsinit"
  /\ Send(<<SHdr("ZSINIT", 0), Sub("ZCRCW", argn, 0, 3)>>) /\ SGoto("zsinitHdr")
  /\ UNCHANGED <<r2s, closed, faults, argn, initv, datav, sstat, sexit>>

ZsinitAnswer ==
  /\ spc = "zsinitHdr"
  /\ \E r \in ZGetHdr(r2s, closed) :
       /\ r2s' = r.rest
       /\ \/ r.c = "ZACK" /\ SGoto("zfile") /\ UNCHANGED <<s2r, serr, sexit>>
          \/ r.c = "scan" /\ UNCHANGED <<s2r, spc, serr, sexit>>
          \/ /\ r.c \notin {"ZCAN", "ZACK", "scan"} /\ serr < MaxSinit
             /\ serr' = serr + 1 /\ SGoto("zsinit") /\ UNCHANGED <<s2r, sexit>>
          \/ /\ \/ r.c = "ZCAN"
                \/ r.c \notin {"ZCAN", "ZACK", "scan"} /\ serr >= MaxSinit
             /\ Abort /\ UNCHANGED serr
  /\ UNCHANGED <<closed, faults, argn, zmodem, zrqinits, tries, tmo, quiet, datav, sstat>>

-----------------------------------------------------------------------------
(* zsendfile *)

\* what wcs is told of a file the receiver skips
SkippedAsSent == "ok"
SkipStatus == "skipped"

\* ZRPOS: fseek, unless input_f is to be read from its start
NoSeek(p) == inpos
SeekTo(p) == IF p = 0 THEN inpos ELSE p

SendZfile ==
  /\ spc = "zfile"
  /\ Send(<<SHdr("ZFILE", 0), Sub("ZCRCW", argn, 0, 1)>>) /\ SGoto("zfileHdr")
  /\ UNCHANGED <<r2s, closed, faults, argn, initv, datav, sstat, sexit>>

ZfileAnswer ==
  /\ spc = "zfileHdr"
  /\ \E r \in ZGetHdr(r2s, closed) :
       /\ r2s' = r.rest
       /\ \/ /\ r.c = "ZRINIT" /\ SGoto("zfileDrain")
             /\ UNCHANGED <<s2r, argn, datav, sstat, sexit>>
          \/ /\ r.c \in {"ZRQINIT", "ZCAN", "TIMEOUT", "ZABORT", "ZFIN"} /\ Abort
             /\ UNCHANGED <<argn, datav, sstat>>
          \/ /\ r.c = "ZCRC" /\ Send(<<SHdr("ZCRC", 0)>>) /\ inpos' = 0
             /\ UNCHANGED <<spc, argn, eof_seen, bytes_sent, lastsync, sstat, sexit>>
          \/ r.c = "ZSKIP" /\ Report(SkipStatus) /\ UNCHANGED <<s2r, datav, sexit>>
          \/ /\ r.c = "ZRPOS" /\ SGoto("zdata")
             /\ bytes_sent' = r.pos /\ lastsync' = r.pos - 1
             /\ inpos' = SeekTo(r.pos)
             /\ UNCHANGED <<s2r, argn, eof_seen, sstat, sexit>>
          \/ r.c = "scan" /\ UNCHANGED <<s2r, spc, argn, datav, sstat, sexit>>
          \/ /\ r.c \in {"ZACK", "ZNAK", "ZSINIT", "ZFILE", "ZDATA", "ZEOF", "ZCHALLENGE",
                         "ZCOMPL", "ZFREECNT", "ZCOMMAND", "ZFERR", "ZSTDERR", "MYERROR"}
             /\ SGoto("zfile") /\ UNCHANGED <<s2r, argn, datav, sstat, sexit>>
  /\ UNCHANGED <<closed, faults, initv>>

\* After a ZRINIT: read on to the next ZPAD; a NUL or the end of file repeats ZFILE.
ZfileDrain ==
  /\ spc = "zfileDrain"
  /\ \/ /\ r2s # <<>> /\ Head(r2s).k = "hdr" /\ SGoto("zfileHdr") /\ UNCHANGED r2s
     \/ /\ r2s # <<>> /\ Head(r2s).k # "hdr" /\ r2s' = Tail(r2s)
        /\ spc' \in {"zfileDrain", "zfile"}
     \/ /\ r2s = <<>> /\ closed /\ SGoto("zfile") /\ UNCHANGED r2s
  /\ UNCHANGED <<s2r, closed, faults, argn, initv, datav, sstat, sexit>>

-----------------------------------------------------------------------------
(* zsendfdata, zfilbuf, getinsync *)

SendZdata ==
  /\ spc = "zdata" /\ Send(<<SHdr("ZDATA", bytes_sent)>>) /\ SGoto("block")
  /\ UNCHANGED <<r2s, closed, faults, argn, initv, datav, sstat, sexit>>

\* zfilbuf: how much fread finds, and whether that is the end of the file
Filled(b) == IF inpos >= Size[argn] THEN 0
             ELSE IF Size[argn] - inpos < b THEN Size[argn] - inpos ELSE b
AtEof(b) == inpos + Filled(b) >= Size[argn]

SendData ==
  /\ spc = "block"
  /\ \E b \in BlkLens :
       LET n == Filled(b)
           e == IF eof_seen \/ AtEof(b) THEN "ZCRCE"
                ELSE IF bytes_sent = lastsync THEN "ZCRCW" ELSE "ZCRCG"
       IN /\ eof_seen' = (eof_seen \/ AtEof(b))
          /\ Send(<<Sub(e, argn, inpos, n)>>)
          /\ bytes_sent' = bytes_sent + n /\ inpos' = inpos + n
          /\ SGoto(IF e = "ZCRCW" THEN "waitack" ELSE IF e = "ZCRCE" THEN "eof" ELSE "block")
  /\ UNCHANGED <<r2s, closed, faults, argn, initv, lastsync, sstat, sexit>>

SendZeof ==
  /\ spc = "eof" /\ Send(<<SHdr("ZEOF", bytes_sent)>>) /\ SGoto("eofHdr")
  /\ UNCHANGED <<r2s, closed, faults, argn, initv, datav, sstat, sexit>>

\* ZRPOS: seek, unless the end of the file has been seen
Reposition(p) ==
  IF eof_seen THEN UNCHANGED datav
  ELSE bytes_sent' = p /\ inpos' = p /\ lastsync' = p /\ UNCHANGED eof_seen

\* After ZEOF a ZSKIP returns zsendfdata's own c, which is static: 0 (OK), or what
\* ended the last wait for an acknowledgement, a ZSKIP when that skipped a file.
AfterEof == IF \E f \in Files : sstat[f] = "skipped" THEN {"ok", SkipStatus} ELSE {"ok"}

GetInsync ==
  /\ spc \in {"waitack", "eofHdr"}
  /\ \E r \in ZGetHdr(r2s, closed) :
       /\ r2s' = r.rest
       /\ \/ /\ r.c \in {"ZCAN", "ZABORT", "ZFIN", "TIMEOUT"} /\ Abort
             /\ UNCHANGED <<argn, datav, sstat>>
          \/ /\ r.c = "ZRPOS" /\ Reposition(r.pos) /\ SGoto("zdata")
             /\ UNCHANGED <<s2r, argn, sstat, sexit>>
          \/ /\ r.c = "ZACK"
             /\ SGoto(IF r.pos # bytes_sent THEN spc
                      ELSE IF spc = "waitack" THEN "zdata" ELSE "eof")
             /\ UNCHANGED <<s2r, argn, datav, sstat, sexit>>
          \/ r.c = "ZRINIT" /\ Report("ok") /\ UNCHANGED <<s2r, datav, sexit>>
          \/ /\ r.c = "ZSKIP"
             /\ \E s \in IF spc = "waitack" THEN {SkipStatus} ELSE AfterEof : Report(s)
             /\ UNCHANGED <<s2r, datav, sexit>>
          \/ r.c = "scan" /\ UNCHANGED <<s2r, spc, argn, datav, sstat, sexit>>
          \/ /\ r.c \in {"MYERROR", "ZRQINIT", "ZSINIT", "ZFILE", "ZNAK", "ZDATA", "ZEOF", "ZCRC",
                         "ZCHALLENGE", "ZCOMPL", "ZFREECNT", "ZCOMMAND", "ZFERR", "ZSTDERR"}
             /\ Send(<<SHdr("ZNAK", 0)>>) /\ UNCHANGED <<spc, argn, datav, sstat, sexit>>
  /\ UNCHANGED <<closed, faults, initv>>

-----------------------------------------------------------------------------
(* saybibi *)

\* the answers, besides ZFIN, that end it
CancelOnly == {"ZCAN"}
BibiEnds == {"ZCAN", "TIMEOUT"}

SendZfin ==
  /\ spc = "bibi" /\ Send(<<Hdr("ZFIN", NFiles, 0)>>) /\ SGoto("bibiHdr")
  /\ UNCHANGED <<r2s, closed, faults, argn, initv, datav, sstat, sexit>>

SayBibi ==
  /\ spc = "bibiHdr"
  /\ \E r \in ZGetHdr(r2s, closed) :
       /\ r2s' = r.rest
       /\ \/ r.c = "ZFIN" /\ Send(<<OO>>) /\ Finish
          \/ r.c \in BibiEnds /\ Finish /\ UNCHANGED s2r
          \/ r.c = "scan" /\ UNCHANGED <<s2r, spc, sexit>>
          \/ /\ r.c \notin BibiEnds \cup {"ZFIN", "scan"} /\ SGoto("bibi")
             /\ UNCHANGED <<s2r, sexit>>
  /\ UNCHANGED <<closed, faults, argn, initv, datav, sstat>>

LszNext ==
  \/ SayRz \/ OpenNextFile \/ NoMoreFiles \/ GetNak \/ RxInitOffer \/ GetZrxinit
  \/ SendZsinit \/ ZsinitAnswer \/ SendZfile \/ ZfileAnswer \/ ZfileDrain
  \/ SendZdata \/ SendData \/ SendZeof \/ GetInsync \/ SendZfin \/ SayBibi
=============================================================================
