------------------------------ MODULE Transport -------------------------------
(***************************************************************************)
(* The packet layer of a session and its change of keys: packet.c, kex.c,  *)
(* the curve25519 exchange and dispatch.c, from the moment both ends serve *)
(* the session on.  Each end is one thread that reads a packet and handles *)
(* it, or sends one; the connection keeps the order.  A packet is one      *)
(* cipher block long.  A key is named by the cookies of the two KEXINITs   *)
(* it was derived from.                                                    *)
(***************************************************************************)
EXTENDS Integers, Sequences

CONSTANTS
    MaxBlocks,      \* max_blocks_in, max_blocks_out: blocks under one key
    BlockSize,      \* bytes of a block
    MaxPackets,     \* MAX_PACKETS: packets under one key
    MaxData,        \* bound: packets of the session each end sends
    MaxLate         \* bound: times the rekey interval passes, manual rekeys

ASSUME TransportAssumption ==
    /\ MaxBlocks \in Nat \ {0} /\ BlockSize \in Nat \ {0}
    /\ MaxPackets \in Nat \ {0} /\ MaxData \in Nat /\ MaxLate \in Nat

Ends == {"client", "server"}
Peer(e) == IF e = "client" THEN "server" ELSE "client"

NoKey == <<-1, -1>>

VARIABLES
    st,         \* session_state and kex of each end
    wire,       \* packets each end has sent and the other has not read
    data,       \* number of session packets each end has sent
    got,        \* number of session packets each end has read
    lates       \* bound on Late and Manual

vars == <<st, wire, data, got, lates>>

\* The state of an end; out collects what it sends in a step.
New == [ rekeying |-> FALSE,            \* state->rekeying: own KEXINIT to own NEWKEYS
         done |-> TRUE,                 \* kex->done: FALSE until the other's NEWKEYS
         sent |-> FALSE,                \* KEX_INIT_SENT
         my |-> 0, peer |-> -1,         \* cookies in kex->my and kex->peer
         new |-> [in |-> NoKey, out |-> NoKey],     \* kex->newkeys
         key |-> [in |-> <<0, 0>>, out |-> <<0, 0>>],   \* state->newkeys
         blocks |-> [in |-> 1, out |-> 1],  \* p_read, p_send: packets and blocks
         late |-> FALSE,                \* the rekey interval has passed
         queue |-> <<>>,                \* state->outgoing
         handler |-> {"KEXINIT"},       \* kex messages that are dispatched
         err |-> "none", out |-> <<>> ]

\* A packet: its type, its number or cookie, and the exchange a REPLY signs.
Packet(type, n) == [type |-> type, n |-> n, of |-> NoKey]

----------------------------------------------------------------------------
(* packet.c: sending *)

ssh_packet_is_rekeying(s) == s.rekeying \/ ~s.done

\* ROUNDUP yields bytes, which are added to blocks.
ssh_packet_need_rekeying(s, len) ==
    /\ ~ssh_packet_is_rekeying(s)
    /\ s.blocks.out > 0 \/ s.blocks.in > 0
    /\ \/ s.late
       \/ s.blocks.out > MaxPackets \/ s.blocks.in > MaxPackets
       \/ s.blocks.out + len * BlockSize > MaxBlocks
       \/ s.blocks.in > MaxBlocks

ssh_set_newkeys(s, mode) ==
    [s EXCEPT !.key[mode] = s.new[mode], !.new[mode] = NoKey, !.blocks[mode] = 0]

\* Bug: the new keys are used for the NEWKEYS packet already.
SwitchBeforeSending(s, p) ==
    LET k == IF p.type = "NEWKEYS" THEN ssh_set_newkeys(s, "out") ELSE s
    IN  [k EXCEPT !.out = Append(@, [pkt |-> p, key |-> k.key.out]), !.blocks.out = @ + 1]

ssh_packet_send2_wrapped(s, p) ==
    LET t == [s EXCEPT !.out = Append(@, [pkt |-> p, key |-> s.key.out]),
                       !.blocks.out = @ + 1]
    IN  IF p.type = "NEWKEYS" THEN ssh_set_newkeys(t, "out") ELSE t

\* Bug: the flag that a KEXINIT was sent is not looked at.
SendAgain(s) ==
    [ssh_packet_send2_wrapped([s EXCEPT !.done = FALSE, !.my = @ + 1, !.rekeying = TRUE],
                              Packet("KEXINIT", s.my + 1))
       EXCEPT !.sent = TRUE]

\* A cookie is a number that was not used before.
kex_send_kexinit(s) ==
    IF s.sent THEN s
    ELSE [ssh_packet_send2_wrapped([s EXCEPT !.done = FALSE, !.my = @ + 1, !.rekeying = TRUE],
                                   Packet("KEXINIT", s.my + 1))
            EXCEPT !.sent = TRUE]

kex_start_rekex(s) ==
    IF s.done THEN kex_send_kexinit([s EXCEPT !.done = FALSE])
    ELSE [s EXCEPT !.err = "requested twice"]

\* The state after the first k packets of the queue were sent.
Dequeued(s, k) ==
    [s EXCEPT !.out = @ \o [i \in 1 .. k |-> [pkt |-> s.queue[i], key |-> s.key.out]],
              !.blocks.out = @ + k,
              !.queue = SubSeq(@, k + 1, Len(@))]

\* After NEWKEYS the queue is sent, up to a packet that asks for new keys.
SendQueue(s) ==
    LET asks == {k \in 0 .. Len(s.queue) - 1 : ssh_packet_need_rekeying(Dequeued(s, k), 1)}
    IN  IF asks = {} THEN Dequeued(s, Len(s.queue))
        ELSE kex_start_rekex(Dequeued(s, CHOOSE k \in asks : \A j \in asks : k <= j))

\* ssh_packet_send2 of NEWKEYS.
SendNewkeys(s) ==
    SendQueue([ssh_packet_send2_wrapped(s, Packet("NEWKEYS", 0))
                 EXCEPT !.rekeying = FALSE, !.late = FALSE])

\* ssh_packet_send2 of a packet that is not part of the key exchange.
ssh_packet_send2(s, p) ==
    LET need == ssh_packet_need_rekeying(s, 1)
        q == [s EXCEPT !.queue = Append(@, p)]
    IN  IF need THEN kex_start_rekex(q)
        ELSE IF s.rekeying THEN q
        ELSE ssh_packet_send2_wrapped(s, p)

----------------------------------------------------------------------------
(* kex.c and kexc25519?.c: the handlers.  sshpkt_send of a kex message is  *)
(* ssh_packet_send2_wrapped.                                               *)

\* kex_input_kexinit, kex_choose_conf, kexc25519_client, kexc25519_server.
kex_input_kexinit(s, e, p) ==
    LET t == kex_send_kexinit([s EXCEPT !.handler = @ \ {"KEXINIT"}, !.peer = p.n])
    IN  IF e = "client"
        THEN [ssh_packet_send2_wrapped(t, Packet("INIT", 0))
                EXCEPT !.handler = @ \cup {"REPLY"}]
        ELSE [t EXCEPT !.handler = @ \cup {"INIT"}]

\* What the exchange hash covers.
Secret(s, e) == IF e = "client" THEN <<s.my, s.peer>> ELSE <<s.peer, s.my>>

\* Bug: the packets queued meanwhile are left.
SendNewkeysOnly(s, e) ==
    [ssh_packet_send2_wrapped([s EXCEPT !.new = [in |-> Secret(s, e), out |-> Secret(s, e)]],
                              Packet("NEWKEYS", 0))
       EXCEPT !.rekeying = FALSE, !.late = FALSE, !.handler = {"NEWKEYS"}]

\* kex_derive_keys and kex_send_newkeys.
kex_send_newkeys(s, e) ==
    [SendNewkeys([s EXCEPT !.new = [in |-> Secret(s, e), out |-> Secret(s, e)]])
       EXCEPT !.handler = {"NEWKEYS"}]

input_kex_c25519_init(s, e) ==
    kex_send_newkeys(ssh_packet_send2_wrapped(s, [Packet("REPLY", 0) EXCEPT !.of = Secret(s, e)]), e)

input_kex_c25519_reply(s, e, p) ==
    IF p.of = Secret(s, e) THEN kex_send_newkeys(s, e) ELSE [s EXCEPT !.err = "signature"]

\* Bug: KEX_INIT_SENT stays set.
NewkeysKeepsFlag(s) ==
    [ssh_set_newkeys(s, "in") EXCEPT !.done = TRUE, !.peer = -1, !.handler = {"KEXINIT"}]

kex_input_newkeys(s) ==
    [ssh_set_newkeys(s, "in") EXCEPT !.done = TRUE, !.peer = -1, !.sent = FALSE,
                                     !.handler = {"KEXINIT"}]

\* ssh_dispatch_run.  A message of the exchange without its handler is for
\* kex_protocol_error, which answers UNIMPLEMENTED, or, its handler NULL, for
\* sshpkt_disconnect; either way the model stops, and ExchangesInStep says that
\* it never comes to this.
Dispatch(s, e, p) ==
    CASE p.type = "DATA" -> s
      [] p.type # "DATA" /\ p.type \notin s.handler -> [s EXCEPT !.err = "protocol error"]
      [] p.type = "KEXINIT" /\ p.type \in s.handler -> kex_input_kexinit(s, e, p)
      [] p.type = "INIT" /\ p.type \in s.handler -> input_kex_c25519_init(s, e)
      [] p.type = "REPLY" /\ p.type \in s.handler -> input_kex_c25519_reply(s, e, p)
      [] p.type = "NEWKEYS" /\ p.type \in s.handler -> kex_input_newkeys(s)

\* ssh_packet_read_poll2.
ssh_packet_read_poll2(s, m) ==
    LET t == [s EXCEPT !.blocks.in = @ + 1]
    IN  IF m.key # s.key.in THEN [s EXCEPT !.err = "corrupted MAC"]
        ELSE IF ssh_packet_need_rekeying(t, 0) THEN kex_start_rekex(t)
        ELSE t

----------------------------------------------------------------------------
Runs(e) == st[e].err = "none"

\* The end of a step: what was sent goes to the connection.
Commit(e, s) == st' = [st EXCEPT ![e] = [s EXCEPT !.out = <<>>]]

Read(e) ==
    /\ Runs(e) /\ wire[Peer(e)] # <<>>
    /\ LET m == Head(wire[Peer(e)])
           r == ssh_packet_read_poll2(st[e], m)
           s == IF r.err = "none" THEN Dispatch(r, e, m.pkt) ELSE r
       IN  /\ Commit(e, s)
           /\ wire' = [wire EXCEPT ![Peer(e)] = Tail(@), ![e] = @ \o s.out]
           /\ got' = IF m.pkt.type = "DATA" /\ r.err = "none"
                     THEN [got EXCEPT ![e] = @ + 1] ELSE got
    /\ UNCHANGED <<data, lates>>

\* The channels, the keep-alive or a reply hand over a packet.
Send(e) ==
    /\ Runs(e) /\ data[e] < MaxData
    /\ LET s == ssh_packet_send2(st[e], Packet("DATA", data[e] + 1))
       IN  Commit(e, s) /\ wire' = [wire EXCEPT ![e] = @ \o s.out]
    /\ data' = [data EXCEPT ![e] = @ + 1]
    /\ UNCHANGED <<got, lates>>

\* The rekey interval passes.
Late(e) ==
    /\ Runs(e) /\ lates < MaxLate /\ ~st[e].late
    /\ st' = [st EXCEPT ![e].late = TRUE]
    /\ lates' = lates + 1
    /\ UNCHANGED <<wire, data, got>>

\* client_loop: the user asks for new keys with ~R.
Manual ==
    /\ Runs("client") /\ lates < MaxLate /\ ~ssh_packet_is_rekeying(st["client"])
    /\ LET s == kex_start_rekex(st["client"])
       IN  Commit("client", s) /\ wire' = [wire EXCEPT !["client"] = @ \o s.out]
    /\ lates' = lates + 1
    /\ UNCHANGED <<data, got>>

Init ==
    /\ st = [e \in Ends |-> New] /\ wire = [e \in Ends |-> <<>>]
    /\ data = [e \in Ends |-> 0] /\ got = [e \in Ends |-> 0] /\ lates = 0

Next == Manual \/ \E e \in Ends : Read(e) \/ Send(e) \/ Late(e)

\* Each end reads what has arrived; nobody has to send.
Spec == Init /\ [][Next]_vars /\ \A e \in Ends : WF_vars(Read(e))

----------------------------------------------------------------------------
(* Properties *)

Keys == Int \X Int
Packets == [type : {"DATA", "KEXINIT", "INIT", "REPLY", "NEWKEYS"}, n : Nat, of : Keys]

\* Types; nothing of a step is left over, and an exchange that was begun and not
\* finished is one whose KEXINIT was sent.
TransportTypeOK ==
    /\ \A e \in Ends :
         LET s == st[e]
         IN  /\ s.rekeying \in BOOLEAN /\ s.done \in BOOLEAN /\ s.late \in BOOLEAN
             /\ s.my \in Nat /\ s.peer \in Int /\ s.sent = ~s.done
             /\ s.new \in [{"in", "out"} -> Keys] /\ s.key \in [{"in", "out"} -> Keys]
             /\ s.blocks \in [{"in", "out"} -> Nat]
             /\ s.queue \in Seq(Packets) /\ s.out = <<>>
             /\ s.handler \subseteq {"KEXINIT", "INIT", "REPLY", "NEWKEYS"}
    /\ wire \in [Ends -> Seq([pkt : Packets, key : Keys])]
    /\ data \in [Ends -> 0 .. MaxData] /\ got \in [Ends -> 0 .. MaxData]
    /\ lates \in 0 .. MaxLate

(***************************************************************************)
(* An end reads every packet with the keys it was sent with, although the  *)
(* four changes of keys (two ends, two directions) happen at four          *)
(* different moments and packets are under way all the time.               *)
(***************************************************************************)
ReadsWithItsKey ==
    \A e \in Ends : wire[e] # <<>> => Head(wire[e]).key = st[Peer(e)].key.in

(***************************************************************************)
(* No end meets a message of the key exchange it is not waiting for, finds *)
(* a signature over other cookies, or begins an exchange within one: also  *)
(* when both begin at the same time.                                       *)
(***************************************************************************)
ExchangesInStep == \A e \in Ends : st[e].err = "none"

\* The numbers of the session packets of w, in their order.
DataOf(w) ==
    LET f[i \in 0 .. Len(w)] ==
          IF i = 0 THEN <<>>
          ELSE IF w[i].pkt.type = "DATA" THEN Append(f[i - 1], w[i].pkt.n) ELSE f[i - 1]
    IN  f[Len(w)]

\* Session packets on the connection, then those still in the queue.
OnTheWay(e) == DataOf(wire[e]) \o [i \in 1 .. Len(st[e].queue) |-> st[e].queue[i].n]

P == INSTANCE Pipe WITH Senders <- Ends, queue <- [e \in Ends |-> OnTheWay(e)],
                        handed <- data, taken <- [e \in Ends |-> got[Peer(e)]]

(***************************************************************************)
(* The packet layer is the line Pipe describes: the session packets of an  *)
(* end arrive in order, none is lost in a change of keys, and each arrives *)
(* in the end, however small the limits are.                               *)
(***************************************************************************)
ImplementsPipe == P!PipeSpec

(***************************************************************************)
(* A change of keys that has begun comes to its end at both ends.          *)
(***************************************************************************)
RekeyEnds ==
    \A e \in Ends : ssh_packet_is_rekeying(st[e]) ~> ~ssh_packet_is_rekeying(st[e])

=============================================================================
