------------------------------- MODULE Channel -------------------------------
(***************************************************************************)
(* The channels of one ssh connection: channels.c and nchan.c at both      *)
(* ends, with the parts of session.c, serverloop.c and clientloop.c that   *)
(* open a session, report its exit and detach it.  Bytes are counted, not  *)
(* named: the connection delivers in order, so a buffer is the number of   *)
(* bytes in it.  A handler works on s = [c, io, out]: the channel, what is *)
(* behind its descriptors, and the packets it has enqueued.                *)
(***************************************************************************)
EXTENDS Naturals, Sequences, FiniteSets

Ends == {"client", "server"}

CONSTANTS
    Plans,      \* each a sequence of the channels opened: kind, opener, and
                \* bounds: what the programs write at each end, and to stderr
    Slots,      \* the places of the channel array in use, 0 .. n
    Window,     \* CHAN_SES_WINDOW_DEFAULT, CHAN_TCP_WINDOW_DEFAULT
    MaxPack,    \* CHAN_SES_PACKET_DEFAULT, CHAN_TCP_PACKET_DEFAULT
    RBuf        \* CHAN_RBUF

ASSUME ChannelAssumption ==
    /\ Window \in Nat \ {0} /\ MaxPack \in Nat \ {0} /\ RBuf \in Nat \ {0}
    /\ Slots \subseteq Nat /\ 0 \in Slots
    /\ Plans \subseteq Seq([kind : {"tcp", "tty", "exec"}, by : Ends,
                           client : Nat, server : Nat, err : Nat])
    /\ \A p \in Plans : \A k \in DOMAIN p : p[k].kind # "tcp" => p[k].by = "client"

Peer(e) == IF e = "client" THEN "server" ELSE "client"

VARIABLES
    plan,       \* the channels this behaviour opens, in their order
    opened,     \* how many were opened
    ch,         \* ch[e][i]: the channel array of each end
    io,         \* io[g][e]: the descriptors of channel g at end e
    net,        \* net[e]: packets on their way to e
    disc        \* packet_disconnect was called

vars == <<plan, opened, ch, io, net, disc>>

Gens == 1 .. Len(plan)
Kind(g) == plan[g].kind
IsSession(c) == c.kind # "tcp"

Free == [type |-> "free"]

\* channel_new: e's side of channel g, with receive window w.
NewChannel(e, g, type, w) ==
    [type |-> type, g |-> g, kind |-> Kind(g), end |-> e, rid |-> 0,
     istate |-> "open", ostate |-> "open", flags |-> {},
     input |-> 0, output |-> 0, extended |-> 0,
     rwin |-> 0, lwin |-> w, consumed |-> 0,
     efd |-> Kind(g) = "exec" \/ (Kind(g) = "tty" /\ e = "client"),
     detach |-> IF Kind(g) = "tcp" THEN "none" ELSE "keep"]

\* extended_usage of the channel.
Usage(c) == CASE IsSession(c) /\ c.end = "client"     -> "write"
              [] c.kind = "exec" /\ c.end = "server"  -> "read"
              [] OTHER                                -> "none"

\* What is behind the descriptors before anything happened: bytes written and
\* not yet read, the end of the output, and what the other end's program got.
NewIo(g) ==
    [made |-> 0, pend |-> 0, shut |-> FALSE, gone |-> FALSE,
     emade |-> 0, epend |-> 0, eshut |-> FALSE, egone |-> FALSE,
     got |-> 0, egot |-> 0, saw |-> "open",
     child |-> "none", sig |-> FALSE, last |-> 0, elast |-> 0, status |-> FALSE]

----------------------------------------------------------------------------
(* nchan.c *)

Enqueue(s, op, n) ==
    [s EXCEPT !.out = Append(@, [op |-> op, to |-> s.c.rid, n |-> n, g |-> s.c.g])]

Flag(s, f) == [s EXCEPT !.c.flags = @ \cup {f}]

chan_read_failed(s) ==
    IF s.c.istate = "open" THEN [s EXCEPT !.c.istate = "drain"] ELSE s

chan_send_eof2(s) == Flag(Enqueue(s, "EOF", 0), "EOF_SENT")

chan_ibuf_empty(s) ==
    LET t == IF "CLOSE_SENT" \in s.c.flags THEN s ELSE chan_send_eof2(s)
    IN  [t EXCEPT !.c.istate = "closed"]

chan_obuf_empty(s) ==
    [s EXCEPT !.c.output = 0, !.c.ostate = "closed", !.io.saw = "eof"]

chan_rcvd_eow(s) ==
    IF s.c.istate = "open" THEN [s EXCEPT !.c.istate = "closed"] ELSE s

chan_write_failed(s) ==
    IF s.c.ostate = "closed" THEN s
    ELSE LET t == IF IsSession(s.c) THEN Enqueue(s, "eow", 0) ELSE s
         IN  [t EXCEPT !.c.output = 0, !.c.ostate = "closed", !.io.saw = "fail"]

\* Bug: bytes of standard error that are read and not yet sent are forgotten.
EfdOpenForReading(c) == Usage(c) = "read" /\ c.efd

EfdInputActive(c) == Usage(c) = "read" /\ (c.efd \/ c.extended > 0)

EfdOutputActive(c) ==
    /\ Usage(c) = "write" /\ c.efd
    /\ c.flags \cap {"EOF_RCVD", "CLOSE_RCVD"} = {} \/ c.extended > 0

chan_rcvd_ieof(s) ==
    LET t == Flag(s, "EOF_RCVD")
        u == IF t.c.ostate = "open" THEN [t EXCEPT !.c.ostate = "drain"] ELSE t
    IN  IF u.c.ostate = "drain" /\ u.c.output = 0 /\ ~EfdOutputActive(u.c)
        THEN chan_obuf_empty(u) ELSE u

\* chan_shutdown_extended_read
ShutdownExtendedRead(s) ==
    IF Usage(s.c) = "read" THEN [s EXCEPT !.c.efd = FALSE] ELSE s

chan_rcvd_oclose(s) ==
    LET t == Flag(s, "CLOSE_RCVD")
        o == IF t.c.ostate = "open" THEN [t EXCEPT !.c.ostate = "drain"] ELSE t
    IN  CASE s.c.type = "larval" ->
               [t EXCEPT !.c.ostate = "closed", !.c.istate = "closed"]
          [] s.c.type # "larval" /\ s.c.istate = "open" ->
               ShutdownExtendedRead([o EXCEPT !.c.istate = "closed"])
          [] s.c.type # "larval" /\ s.c.istate = "drain" ->
               ShutdownExtendedRead([chan_send_eof2(o) EXCEPT !.c.istate = "closed"])
          [] OTHER -> o

BothClosed(c) == c.istate = "closed" /\ c.ostate = "closed"

\* What chan_is_dead does to the channel: it sends the CLOSE that is due.
ClosesIfDue(s, do_send) ==
    IF do_send /\ s.c.type # "zombie" /\ BothClosed(s.c) /\ "CLOSE_SENT" \notin s.c.flags
    THEN Flag(Enqueue(s, "CLOSE", 0), "CLOSE_SENT") ELSE s

\* Bug: the channel goes as soon as this end has said CLOSE.
DeadOnceClosed(s, do_send) == s.c.type = "zombie" \/ (do_send /\ BothClosed(s.c))

\* What it then answers.
chan_is_dead(s, do_send) ==
    \/ s.c.type = "zombie"
    \/ /\ BothClosed(s.c) /\ "CLOSE_RCVD" \in s.c.flags
       /\ "CLOSE_SENT" \in s.c.flags \/ ~do_send

----------------------------------------------------------------------------
(* channels.c: one channel in the select loop *)

Collected(s) ==
    LET t == ClosesIfDue(s, TRUE)
    IN  IF chan_is_dead(t, TRUE) THEN [t EXCEPT !.c = Free] ELSE t

\* session_close_by_channel keeps the session while its child is there;
\* client_channel_closed always lets go.
Detaches(s) == s.c.end = "client" \/ s.io.child \in {"none", "reaped"}

\* Bug: do_close of the detach callback is ignored, so CLOSE is sent at once.
CollectEagerly(s) ==
    LET t == ClosesIfDue(s, TRUE)
    IN  IF s.c.detach = "none" THEN Collected(s)
        ELSE IF chan_is_dead(t, TRUE) /\ Detaches(t)
        THEN Collected([t EXCEPT !.c.detach = "none"])
        ELSE t

channel_garbage_collect(s) ==
    LET closes == s.c.detach = "close"
        t == ClosesIfDue(s, closes)
    IN  IF s.c.detach = "none" THEN Collected(s)
        ELSE IF chan_is_dead(t, closes) /\ Detaches(t)
        THEN Collected([t EXCEPT !.c.detach = "none"])
        ELSE t

\* A read of a terminal whose program has exited is tried without select.
Forced(c) == c.kind = "tty" /\ c.end = "server" /\ c.detach = "close"

\* channel_pre_open asks for rfd, or the read is forced.
Readable(c) ==
    c.istate = "open" /\ (Forced(c) \/ (c.rwin > 0 /\ c.input < c.rwin))

Min2(a, b) == IF a < b THEN a ELSE b

\* The outcomes of channel_handle_rfd.
channel_handle_rfd(s) ==
    {s} \cup
    IF ~Readable(s.c) THEN {}
    ELSE IF s.io.pend > 0
    THEN {[s EXCEPT !.io.pend = @ - n, !.c.input = @ + n] : n \in 1 .. Min2(s.io.pend, RBuf)}
    ELSE IF s.io.shut \/ Forced(s.c) THEN {chan_read_failed(s)} ELSE {}

channel_handle_wfd(s) ==
    {s} \cup
    IF s.c.ostate = "closed" \/ s.c.output = 0 THEN {}
    ELSE IF s.io.gone THEN {chan_write_failed(s)}
    ELSE {[s EXCEPT !.c.output = @ - n, !.c.consumed = @ + n, !.io.got = @ + n] :
             n \in 1 .. s.c.output}

channel_handle_efd_write(s) ==
    {s} \cup
    IF ~s.c.efd \/ s.c.extended = 0 \/ BothClosed(s.c) THEN {}
    ELSE IF s.io.egone THEN {[s EXCEPT !.c.efd = FALSE]}
    ELSE {[s EXCEPT !.c.extended = @ - n, !.c.consumed = @ + n, !.io.egot = @ + n] :
             n \in 1 .. s.c.extended}

\* channel_pre_open asks for efd, or the child is gone.
EfdReadable(c) ==
    /\ c.efd
    /\ c.detach = "close" \/ ( /\ ~BothClosed(c)
                               /\ "EOF_SENT" \notin c.flags
                               /\ c.extended < c.rwin )

channel_handle_efd_read(s) ==
    {s} \cup
    IF ~EfdReadable(s.c) THEN {}
    ELSE IF s.io.epend > 0
    THEN {[s EXCEPT !.io.epend = @ - n, !.c.extended = @ + n] : n \in 1 .. Min2(s.io.epend, RBuf)}
    ELSE IF s.io.eshut \/ s.c.detach = "close" THEN {[s EXCEPT !.c.efd = FALSE]} ELSE {}

channel_handle_efd(s) ==
    CASE Usage(s.c) = "write" -> channel_handle_efd_write(s)
      [] Usage(s.c) = "read"  -> channel_handle_efd_read(s)
      [] OTHER                -> {s}

\* Bug: a window smaller than three packets is never given back.
WindowLowForBulk(c) == Window - c.lwin > 3 * MaxPack

\* The receiver has used enough of its window to give it back.
WindowLow(c) == Window - c.lwin > 3 * MaxPack \/ c.lwin < Window \div 2

\* Bug: what was given back is given back again.
CheckWindowNoReset(s) ==
    IF /\ s.c.flags \cap {"CLOSE_SENT", "CLOSE_RCVD"} = {}
       /\ WindowLow(s.c) /\ s.c.consumed > 0
    THEN [Enqueue(s, "ADJUST", s.c.consumed) EXCEPT !.c.lwin = @ + s.c.consumed]
    ELSE s

channel_check_window(s) ==
    IF /\ s.c.flags \cap {"CLOSE_SENT", "CLOSE_RCVD"} = {}
       /\ WindowLow(s.c) /\ s.c.consumed > 0
    THEN [Enqueue(s, "ADJUST", s.c.consumed)
            EXCEPT !.c.lwin = @ + s.c.consumed, !.c.consumed = 0]
    ELSE s

\* channel_pre_open, as far as it changes the channel.
channel_pre_open(s) ==
    IF s.c.ostate = "drain" /\ s.c.output = 0 /\ ~EfdOutputActive(s.c)
    THEN chan_obuf_empty(s) ELSE s

\* The amount channel_output_poll takes from a buffer of n bytes.
Fits(c, n) == Min2(n, Min2(c.rwin, MaxPack))

channel_output_poll_input_open(s) ==
    LET n == Fits(s.c, s.c.input)
    IN  IF s.c.input = 0
        THEN IF s.c.istate = "drain" /\ ~EfdInputActive(s.c)
             THEN chan_ibuf_empty(s) ELSE s
        ELSE IF n = 0 THEN s
        ELSE [Enqueue(s, "DATA", n) EXCEPT !.c.input = @ - n, !.c.rwin = @ - n]

channel_output_poll_extended_read(s) ==
    LET n == Fits(s.c, s.c.extended)
    IN  IF n = 0 THEN s
        ELSE [Enqueue(s, "EXTENDED", n) EXCEPT !.c.extended = @ - n, !.c.rwin = @ - n]

channel_output_poll(s) ==
    LET t == IF s.c.istate \in {"open", "drain"}
             THEN channel_output_poll_input_open(s) ELSE s
    IN  IF s.c.flags \cap {"CLOSE_SENT", "CLOSE_RCVD"} # {} THEN s
        ELSE IF "EOF_SENT" \notin t.c.flags /\ Usage(t.c) = "read"
        THEN channel_output_poll_extended_read(t) ELSE t

----------------------------------------------------------------------------
(* channels.c: packets that arrive for a channel *)

\* Bug: data nobody can take is dropped without a trace in the window.
InputDataDropped(s, n) ==
    IF s.c.type # "open" \/ s.c.ostate # "open" \/ n > s.c.lwin THEN s
    ELSE [s EXCEPT !.c.lwin = @ - n, !.c.output = @ + n]

channel_input_data(s, n) ==
    IF s.c.type # "open" THEN s
    ELSE IF s.c.ostate # "open"
    THEN [s EXCEPT !.c.lwin = @ - n, !.c.consumed = @ + n]
    ELSE IF n > s.c.lwin THEN s
    ELSE [s EXCEPT !.c.lwin = @ - n, !.c.output = @ + n]

channel_input_extended_data(s, n) ==
    IF \/ s.c.type # "open" \/ ~s.c.efd \/ Usage(s.c) # "write" \/ n > s.c.lwin
    THEN s
    ELSE [s EXCEPT !.c.lwin = @ - n, !.c.extended = @ + n]

\* For a session the callback ssh_session2_setup asks for the shell.
channel_input_open_confirmation(s, m) ==
    LET t == [s EXCEPT !.c.type = "open", !.c.rid = m.from, !.c.rwin = m.n]
    IN  IF IsSession(t.c) THEN Enqueue(t, "shell", 0) ELSE t

chan_mark_dead(s) == [s EXCEPT !.c.type = "zombie"]

\* session_shell_req starts the child, channel_set_fds opens the channel.
channel_set_fds(s) ==
    [Enqueue(s, "ADJUST", Window)
       EXCEPT !.c.type = "open", !.c.lwin = Window, !.io.child = "running"]

session_input_channel_req(s) == IF s.c.type = "larval" THEN channel_set_fds(s) ELSE s

channel_input_window_adjust(s, n) == [s EXCEPT !.c.rwin = @ + n]

\* client_input_channel_req: exit-status is kept, exit-signal is no request
\* it knows, and leaves exit_status at -1.
client_input_exit_status(s, op) ==
    IF op = "exit-status" THEN [s EXCEPT !.io.status = TRUE] ELSE s

\* session_exit_message: the status or the signal, then the output side is
\* given up.  (waitpid without WUNTRACED reports no third kind of status.)
session_exit_message(s) ==
    LET t == Enqueue(s, IF s.io.sig THEN "exit-signal" ELSE "exit-status", 0)
        u == [t EXCEPT !.c.detach = "close", !.io.child = "reaped"]
    IN  chan_write_failed(u)

\* The packets for which a channel in this state ends the connection.
Refused(c, op) ==
    \/ op \in {"CONFIRM", "FAILURE"} /\ c.type # "opening"
    \/ op = "EXTENDED" /\ c.type = "open" /\ "EOF_RCVD" \in c.flags

Handle(s, m) ==
    CASE m.op = "DATA"        -> channel_input_data(s, m.n)
      [] m.op = "EXTENDED"    -> channel_input_extended_data(s, m.n)
      [] m.op = "EOF"         -> chan_rcvd_ieof(s)
      [] m.op = "CLOSE"       -> chan_rcvd_oclose(s)
      [] m.op = "ADJUST"      -> channel_input_window_adjust(s, m.n)
      [] m.op = "CONFIRM"     -> channel_input_open_confirmation(s, m)
      [] m.op = "FAILURE"     -> chan_mark_dead(s)
      [] m.op = "eow"         -> chan_rcvd_eow(s)
      [] m.op \in {"exit-status", "exit-signal"} -> client_input_exit_status(s, m.op)
      [] m.op = "shell"       -> session_input_channel_req(s)

----------------------------------------------------------------------------
(* The two processes *)

State(e, i) == [c |-> ch[e][i], io |-> io[ch[e][i].g][e], out |-> <<>>]

\* Store what a handler of channel i at end e left, and send its packets.
Commit(e, i, s) ==
    /\ ch' = [ch EXCEPT ![e][i] = s.c]
    /\ io' = [io EXCEPT ![ch[e][i].g][e] = s.io]
    /\ net' = [net EXCEPT ![Peer(e)] = @ \o s.out]
    /\ UNCHANGED <<plan, opened, disc>>

\* The place channel_new takes: the first free one.
FreeSlot(e, i) ==
    i \in Slots /\ ch[e][i] = Free /\ \A j \in Slots : j < i => ch[e][j] # Free

\* ssh_session2_open, channel_post_port_listener: a new channel is asked for.
Open(e) ==
    /\ ~disc /\ opened < Len(plan) /\ plan[opened + 1].by = e
    /\ \E i \in Slots :
         /\ FreeSlot(e, i)
         /\ ch' = [ch EXCEPT ![e][i] = NewChannel(e, opened + 1, "opening", Window)]
         /\ net' = [net EXCEPT ![Peer(e)] = Append(@,
              [op |-> "OPEN", to |-> 0, from |-> i, n |-> Window, g |-> opened + 1])]
    /\ opened' = opened + 1
    /\ UNCHANGED <<plan, io, disc>>

\* server_input_channel_open, client_input_channel_open.
ReceiveOpen(e, m) ==
    \/ \E i \in Slots :
         /\ FreeSlot(e, i)
         /\ LET session == Kind(m.g) # "tcp"
                new == IF session THEN NewChannel(e, m.g, "larval", 0)
                       ELSE NewChannel(e, m.g, "connecting", Window)
            IN  /\ ch' = [ch EXCEPT ![e][i] = [new EXCEPT !.rid = m.from, !.rwin = m.n]]
                /\ net' = [net EXCEPT ![e] = Tail(@), ![Peer(e)] =
                     IF session
                     THEN Append(@, [op |-> "CONFIRM", to |-> m.from, from |-> i,
                                     n |-> 0, g |-> m.g])
                     ELSE @]
    \/ /\ ch' = ch
       /\ net' = [net EXCEPT ![e] = Tail(@), ![Peer(e)] =
            Append(@, [op |-> "FAILURE", to |-> m.from, n |-> 0, g |-> m.g])]

\* channel_post_connecting: the connection behind the channel is there, or not.
Connecting(e, i) ==
    /\ ~disc /\ ch[e][i].type = "connecting"
    /\ LET s == State(e, i)
           confirm == [op |-> "CONFIRM", to |-> s.c.rid, from |-> i, n |-> s.c.lwin, g |-> s.c.g]
       IN  \/ Commit(e, i, channel_garbage_collect(
                [s EXCEPT !.c.type = "open", !.out = <<confirm>>]))
           \/ Commit(e, i, channel_garbage_collect(chan_mark_dead(Enqueue(s, "FAILURE", 0))))

\* A packet for a channel: channel_lookup, then the handler.
Receive(e) ==
    /\ ~disc /\ net[e] # <<>>
    /\ LET m == Head(net[e])
           c == ch[e][m.to]
           known == c.type \notin {"free", "zombie"}
           spared == \/ m.op = "ADJUST"
                     \/ e = "client" /\ m.op \in {"eow", "exit-status", "exit-signal"}
       IN  IF m.op = "OPEN"
           THEN ReceiveOpen(e, m) /\ UNCHANGED <<plan, opened, io, disc>>
           ELSE IF known /\ ~Refused(c, m.op)
           THEN LET t == Handle(State(e, m.to), m)
                IN  /\ ch' = [ch EXCEPT ![e][m.to] = t.c]
                    /\ io' = [io EXCEPT ![c.g][e] = t.io]
                    /\ net' = [net EXCEPT ![e] = Tail(@), ![Peer(e)] = @ \o t.out]
                    /\ UNCHANGED <<plan, opened, disc>>
           ELSE /\ net' = [net EXCEPT ![e] = Tail(@)]
                /\ disc' = (known \/ ~spared)
                /\ UNCHANGED <<plan, opened, ch, io>>

\* channel_handler before select.
Pre(e, i) ==
    /\ ~disc /\ ch[e][i].type \notin {"free", "connecting"}
    /\ LET s == State(e, i)
       IN  Commit(e, i, channel_garbage_collect(
             IF s.c.type = "open" THEN channel_pre_open(s) ELSE s))

\* channel_handler after select: channel_post_open.
Post(e, i) ==
    /\ ~disc /\ ch[e][i].type = "open"
    /\ \E r \in channel_handle_rfd(State(e, i)) : \E w \in channel_handle_wfd(r) :
       \E x \in channel_handle_efd(w) :
          Commit(e, i, channel_garbage_collect(channel_check_window(x)))

\* channel_output_poll for one channel.
Poll(e, i) ==
    /\ ~disc /\ ch[e][i].type = "open"
    /\ Commit(e, i, channel_output_poll(State(e, i)))

\* collect_children, session_close_by_pid.
CollectChildren(i) ==
    /\ ~disc /\ ch["server"][i].type = "open"
    /\ io[ch["server"][i].g]["server"].child = "exited"
    /\ Commit("server", i, session_exit_message(State("server", i)))

----------------------------------------------------------------------------
(* The programs behind the descriptors *)

\* A program runs behind channel g at end e.
Runs(e, g) == \E i \in Slots :
    /\ ch[e][i].type = "open" /\ ch[e][i].g = g
    /\ e = "server" /\ Kind(g) # "tcp" => io[g][e].child \notin {"none"}

Does(e, g, new) ==
    /\ ~disc /\ Runs(e, g)
    /\ io' = [io EXCEPT ![g][e] = new]
    /\ UNCHANGED <<plan, opened, ch, net, disc>>

Writes(e, g) == LET x == io[g][e] IN
    /\ ~x.shut /\ x.made < plan[g][e]
    /\ Does(e, g, [x EXCEPT !.made = @ + 1, !.pend = @ + 1])

EndsOutput(e, g) == LET x == io[g][e] IN
    ~x.shut /\ Does(e, g, [x EXCEPT !.shut = TRUE])

\* The program is gone: what is written to it fails.  A command at the server
\* has a pipe for each direction (USE_PIPES) and may close its input alone.
Leaves(e, g) == LET x == io[g][e] IN
    /\ ~x.gone /\ (e = "server" => Kind(g) # "tty")
    /\ Does(e, g, [x EXCEPT !.gone = TRUE,
                             !.shut = @ \/ ~(e = "server" /\ Kind(g) = "exec")])

WritesErr(g) == LET x == io[g]["server"] IN
    /\ Kind(g) = "exec" /\ ~x.eshut /\ x.emade < plan[g].err
    /\ Does("server", g, [x EXCEPT !.emade = @ + 1, !.epend = @ + 1])

EndsErr(g) == LET x == io[g]["server"] IN
    Kind(g) = "exec" /\ ~x.eshut /\ Does("server", g, [x EXCEPT !.eshut = TRUE])

\* The client's standard error is closed.
ErrLeaves(g) == LET x == io[g]["client"] IN
    Kind(g) = "exec" /\ ~x.egone /\ Does("client", g, [x EXCEPT !.egone = TRUE])

\* The child exits, or a signal kills it.  Others may still hold its
\* descriptors.
ChildExits(g) == LET x == io[g]["server"] IN
    /\ x.child = "running"
    /\ \E killed \in BOOLEAN :
         Does("server", g, [x EXCEPT !.child = "exited", !.sig = killed,
                                     !.last = x.made, !.elast = x.emade])

Programs ==
    \E g \in Gens :
       \/ \E e \in Ends : Writes(e, g) \/ EndsOutput(e, g) \/ Leaves(e, g)
       \/ WritesErr(g) \/ EndsErr(g) \/ ErrLeaves(g) \/ ChildExits(g)

----------------------------------------------------------------------------
Init ==
    /\ plan \in Plans
    /\ opened = 0
    /\ ch = [e \in Ends |-> [i \in Slots |-> Free]]
    /\ io = [g \in Gens |-> [e \in Ends |-> NewIo(g)]]
    /\ net = [e \in Ends |-> <<>>]
    /\ disc = FALSE

System ==
    \E e \in Ends :
       \/ Open(e) \/ Receive(e)
       \/ \E i \in Slots : Connecting(e, i) \/ Pre(e, i) \/ Post(e, i) \/ Poll(e, i)

Next == System \/ (\E i \in Slots : CollectChildren(i)) \/ Programs

\* Each process goes round its loop; a connect is answered; the network
\* delivers.  Nothing is assumed of the programs except that they read.
Fairness ==
    /\ \A e \in Ends : WF_vars(Receive(e))
    /\ \A e \in Ends : \A i \in Slots :
         /\ WF_vars(Connecting(e, i)) /\ WF_vars(Pre(e, i))
         /\ WF_vars(Post(e, i)) /\ WF_vars(Poll(e, i))
    /\ \A i \in Slots : WF_vars(CollectChildren(i))

Spec == Init /\ [][Next]_vars /\ Fairness

=============================================================================
