---------------------------- MODULE ChannelProps ----------------------------
(***************************************************************************)
(* What the channels of a connection promise.                              *)
(***************************************************************************)
EXTENDS Channel

GenIds == UNION {DOMAIN p : p \in Plans}

\* Bytes of channel g in packets of these kinds on their way to e.
InFlight(e, g, ops) ==
    LET w == net[e]
        Sum[k \in 0 .. Len(w)] ==
            IF k = 0 THEN 0
            ELSE Sum[k - 1] + (IF w[k].g = g /\ w[k].op \in ops THEN w[k].n ELSE 0)
    IN  Sum[Len(w)]

Live(e) == {i \in Slots : ch[e][i] # Free}
Has(e, g) == \E i \in Live(e) : ch[e][i].g = g

\* Channel g was opened and neither end has it any more.
Over(g) ==
    /\ g <= opened
    /\ \A e \in Ends : ~Has(e, g) /\ \A k \in DOMAIN net[e] : net[e][k].g # g

ChannelTypeOK ==
    /\ plan \in Plans /\ opened \in 0 .. Len(plan) /\ disc \in BOOLEAN
    /\ \A e \in Ends : \A i \in Live(e) : LET c == ch[e][i] IN
         /\ c.type \in {"opening", "connecting", "larval", "open", "zombie"}
         /\ c.istate \in {"open", "drain", "closed"}
         /\ c.ostate \in {"open", "drain", "closed"}
         /\ c.rid \in Slots /\ c.detach \in {"none", "keep", "close"}
         /\ c.input \in Nat /\ c.output \in Nat /\ c.extended \in Nat
         /\ c.rwin \in 0 .. Window /\ c.lwin \in 0 .. Window /\ c.consumed \in 0 .. Window

(***************************************************************************)
(* A packet finds the channel it was sent for: a place of the array is     *)
(* used again only when nothing is under way for its last channel, and no  *)
(* end calls packet_disconnect over a late packet.                         *)
(***************************************************************************)
ReachesItsChannel ==
    /\ ~disc
    /\ \A e \in Ends : \A k \in DOMAIN net[e] : LET m == net[e][k] IN
         m.op # "OPEN" =>
            /\ ch[e][m.to].type \notin {"free", "zombie"}
            /\ ch[e][m.to].g = m.g

(***************************************************************************)
(* What a sender may still send, what is under way and what was granted is *)
(* never more than the receiver's window, so channel_input_data never      *)
(* finds "too much data"; it is exactly that window unless the receiver    *)
(* has lost its standard error.                                            *)
(***************************************************************************)
WindowsAgree ==
    \A e \in Ends : \A i \in Live(e), j \in Live(Peer(e)) :
       LET c == ch[e][i]
           p == ch[Peer(e)][j]
           promised == c.rwin + InFlight(Peer(e), c.g, {"DATA", "EXTENDED"})
                              + InFlight(e, c.g, {"ADJUST"})
       IN  c.g = p.g /\ c.type = "open" /\ p.type = "open" =>
              /\ promised <= p.lwin
              /\ (p.efd \/ Usage(p) # "write") => promised = p.lwin

(***************************************************************************)
(* When an end closes its output because the other end said so, its        *)
(* program has everything the other program wrote: all of it when that one *)
(* closed its output, what was written before the exit when the terminal   *)
(* was given up at the child's exit.                                       *)
(***************************************************************************)
CompleteAtEof ==
    \A g \in Gens : \A e \in Ends :
       LET r == io[g][e]
           w == io[g][Peer(e)]
       IN  r.saw = "eof" =>
              /\ \/ w.shut /\ r.got = w.made
                 \/ Kind(g) = "tty" /\ w.child = "reaped" /\ r.got >= w.last
              /\ r.egone \/ r.egot >= w.elast

(***************************************************************************)
(* A client that ends a session has the exit status of its program if and  *)
(* only if the program exited by itself: the server sends no CLOSE before  *)
(* the status, the client none of its own accord, and of a program that a  *)
(* signal killed no status is ever made up.                                *)
(***************************************************************************)
StatusBeforeClose ==
    \A g \in Gens :
       /\ Kind(g) # "tcp" /\ g <= opened /\ ~Has("client", g)
       /\ io[g]["client"].saw # "open"
       => /\ io[g]["server"].child = "reaped"
          /\ io[g]["client"].status <=> ~io[g]["server"].sig

(***************************************************************************)
(* The programs of a channel are done: both closed their output, or the    *)
(* child of a session exited and, without a terminal, its output is closed.*)
(***************************************************************************)
Done(g) ==
    /\ g \in Gens
    /\ IF Kind(g) = "tcp" THEN \A e \in Ends : io[g][e].shut
       ELSE /\ io[g]["server"].child \in {"exited", "reaped"}
            /\ Kind(g) = "exec" => io[g]["server"].shut

(***************************************************************************)
(* A channel whose programs are done goes away at both ends: no end waits  *)
(* for a window, an EOF or a CLOSE for ever.  Excepted is a client whose   *)
(* standard error was closed: what it cannot write there it neither counts *)
(* as consumed nor drops, and the server may wait for that window.         *)
(***************************************************************************)
EndsWhenDone ==
    \A g \in GenIds : Done(g) ~> (g \in Gens => Over(g) \/ io[g]["client"].egone)

=============================================================================
