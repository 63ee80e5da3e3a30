----------------------------- MODULE ZTransfer -----------------------------
(***************************************************************************)
(* lsz and lrz at the two ends of one line, as when woterm's lsz talks to  *)
(* an rz built from the same sources: every interleaving of the two        *)
(* processes, with damage on the line and the line going away.             *)
(***************************************************************************)
EXTENDS Lsz, Lrz

CONSTANTS
  Pipe,      \* items a pipe holds before its writer blocks
  MayHangup  \* whether the line may go away

ASSUME TransferAssumption == Pipe \in Nat /\ MayHangup \in BOOLEAN

transferVars == <<line, lszv, lrzv>>

TransferInit ==
  /\ s2r = <<>> /\ r2s = <<>> /\ closed = FALSE /\ faults = 0
  /\ LszInit /\ LrzInit

\* A writer blocks while the pipe is full and its reader still there.
Ended(l) == l \in {"exit", "ymodem"}
Sender == LszNext /\ (Len(s2r) < Pipe \/ closed \/ Ended(rpc)) /\ UNCHANGED lrzv
Receiver == LrzNext /\ (Len(r2s) < Pipe \/ closed \/ Ended(spc)) /\ UNCHANGED lszv
Noise == (DamageToReceiver \/ DamageToSender \/ Swallow) /\ UNCHANGED <<lszv, lrzv>>
LineDown == MayHangup /\ Hangup /\ UNCHANGED <<lszv, lrzv>>
\* Both programs have ended.
Done == /\ Ended(spc) /\ Ended(rpc)
        /\ UNCHANGED transferVars

TransferNext == Sender \/ Receiver \/ Noise \/ LineDown \/ Done
TransferSpec == TransferInit /\ [][TransferNext]_transferVars
\* Each program runs whenever it is not blocked on the line; nothing is
\* assumed of the line.
FairTransfer == TransferSpec /\ WF_transferVars(Sender) /\ WF_transferVars(Receiver)

-----------------------------------------------------------------------------
(* Properties *)

Whole(f) == disk[f] = Slice(f, 0, Size[f])

\* What lsz counts as sent, lrz has closed with every byte of it: the ZRINIT
\* that answers ZEOF is never one left over from the negotiation or from an
\* earlier file.  (Once the line is gone, the clean-up in wcreceive may have
\* unlinked the file before lsz reads the answer.)
SentIsReceived ==
  [][\A f \in Files : (sstat[f] = "todo" /\ sstat'[f] = "ok") =>
       (rstat[f] = "closed" /\ Whole(f)) \/ (closed /\ rstat[f] = "removed")]_transferVars

\* The detailed programs implement the transfer a user expects.
Reported(s) == IF s = "ok" THEN "sent" ELSE IF s = "todo" THEN "todo" ELSE "declined"
Abstract == INSTANCE FileTransfer WITH
              store <- disk, report <- [f \in Files |-> Reported(sstat[f])]
ImplementsTransfer == Abstract!FTSpec

\* On a quiet line the session ends: both programs exit with success and every
\* file the receiver did not have is complete.
SessionCompletes ==
  <>(/\ sexit = "ok" /\ rexit = "ok"
     /\ \A f \in Files \ Exists : rstat[f] = "closed" /\ Whole(f))
=============================================================================
