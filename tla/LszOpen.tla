------------------------------ MODULE LszOpen ------------------------------
(***************************************************************************)
(* lsz against every receiver.  The remote program (rz of any vendor, not  *)
(* under src/) may send any of the headers Answers at any time, repeat     *)
(* them, ask for any position of the file, print text and cancel.  It      *)
(* takes what lsz sends item by item.                                      *)
(***************************************************************************)
EXTENDS Lsz

CONSTANTS
  Answers,      \* the headers the receiver may send
  MaxAnswers,   \* bound: how many
  ReadAhead     \* bound: answers waiting in the pipe

ASSUME AnswersAssumption ==
  Answers \subseteq FrameTypes /\ MaxAnswers \in Nat /\ ReadAhead \in Nat

VARIABLES
  answers,   \* answers sent so far
  last       \* the last item lsz put on the line

rxv == <<answers, last>>
lszOpenVars == <<line, lszv, rxv>>

Answer(item) ==
  /\ answers < MaxAnswers /\ answers' = answers + 1 /\ ~closed /\ Len(r2s) < ReadAhead
  /\ r2s' = Append(r2s, item)
  /\ UNCHANGED <<s2r, closed, faults, lszv, last>>

\* Positions are those of the file at hand, ZRQINIT says whether a command will
\* follow, other headers carry 0.
SendHeader ==
  /\ argn \in Files
  /\ \E t \in Answers : \E p \in CASE t \in {"ZRPOS", "ZACK"} -> 0..Size[argn]
                                    [] t = "ZRQINIT"            -> {0, 1}
                                    [] OTHER                    -> {0} :
       Answer(Hdr(t, argn, p))

SendText == Answer(Junk(1))
SendCancel == Answer(Can)

LszStep ==
  /\ s2r = <<>> /\ LszNext
  /\ last' = IF s2r' = <<>> THEN last ELSE s2r'[Len(s2r')]
  /\ UNCHANGED answers

Absorb ==
  /\ s2r # <<>> /\ s2r' = <<>>
  /\ UNCHANGED <<r2s, closed, faults, lszv, rxv>>

HangUp == Hangup /\ UNCHANGED <<lszv, rxv>>

LszOpenInit ==
  /\ s2r = <<>> /\ r2s = <<>> /\ closed = FALSE /\ faults = 0
  /\ answers = 0 /\ last = Junk(0)
  /\ LszInit

LszOpenNext == LszStep \/ SendHeader \/ SendText \/ SendCancel \/ Absorb \/ HangUp
LszOpenSpec == LszOpenInit /\ [][LszOpenNext]_lszOpenVars
\* lsz runs whenever it can, and what it wrote leaves the pipe.
FairLszOpen == LszOpenSpec /\ WF_lszOpenVars(LszStep) /\ WF_lszOpenVars(Absorb)

-----------------------------------------------------------------------------
(* Properties *)

\* The values the sender's variables may take.
LszTypeOK ==
  /\ s2r \in Seq(Item) /\ r2s \in Seq(Item) /\ closed \in BOOLEAN
  /\ spc \in SPlaces /\ argn \in 1..(NFiles + 1) /\ zmodem \in BOOLEAN /\ quiet \in BOOLEAN
  /\ zrqinits \in 0..MaxZrqinit /\ tries \in Nat /\ tmo \in 0..1 /\ serr \in 0..MaxSinit
  /\ eof_seen \in BOOLEAN /\ bytes_sent \in Nat /\ inpos \in Nat /\ lastsync \in Nat \cup {-1}
  /\ sstat \in [Files -> SStats] /\ sexit \in {"no", "ok", "incomplete"}
  /\ answers \in 0..MaxAnswers

\* The item a that a step puts on the empty line after the item last.
HonestStep ==
  (s2r = <<>> /\ s2r' # <<>>) =>
     LET a == s2r'[1] IN
     /\ Continues(last) => /\ a.k = "sub" /\ a.f = last.f
                           /\ a.pos = EndOf(last)
     /\ (a.k = "hdr" /\ a.t = "ZEOF") =>
          a.pos >= Size[a.f] /\ (last.k = "sub" => a.pos = EndOf(last))
     /\ a.k = "sub" => Continues(last)

\* Whatever the receiver answers, and however late, the stream lsz writes is the
\* one LrzOpen assumes of a sender: every block carries the bytes of the place
\* its ZDATA header and the blocks before it have announced (zsendfile's and
\* getinsync's seeks keep input_f and bytes_sent together), and ZEOF names the
\* place where the blocks ended, which is the end of the file (or beyond it,
\* when an answer meant for an earlier, longer file was taken for this one's).
StreamIsHonest == [][HonestStep]_lszOpenVars

\* When the line is gone every read ends with TIMEOUT, and lsz stops: each of
\* getzrxinit, sendzsinit, zsendfile, getinsync and saybibi gives up.  (getnak
\* does not when its third try was spent on a byte and not on a TIMEOUT.)
StopsAfterHangup == closed ~> (spc \in {"exit", "ymodem", "getnak"})
=============================================================================
