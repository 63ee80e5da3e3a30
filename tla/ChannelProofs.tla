---------------------------- MODULE ChannelProofs ----------------------------
(***************************************************************************)
(* The invariants of ChannelProps, for any plan of channels, any number of *)
(* places in the array, any window, packet size and buffer size.           *)
(*                                                                         *)
(* What is under way is read as a path: each direction of each channel has *)
(* a place (what was said so far: how many packets, the bytes, the window  *)
(* given back, EOF, CLOSE and so on), and the packets of that channel in   *)
(* the queue lead from the place the receiver has heard up to, to the      *)
(* place the sender has said up to.  CInv says that such places exist for  *)
(* every channel (v), and that each end's channel, its program and its two *)
(* places satisfy Own, which is about one side alone but for two things it *)
(* knows of the other: the place in its array, and that its program is     *)
(* gone.  So a handler is verified at one side, from Own to Own, and the   *)
(* sides are joined once: in Arrives, for what a packet may find, and in   *)
(* the lemmas on Moves, for what a step of one side leaves of the other.   *)
(***************************************************************************)
EXTENDS ChannelProps, SequenceTheorems, NaturalsInduction, WellFoundedInduction, TLAPS

\* The kinds of channels and of packets.
Kinds == {"tcp", "tty", "exec"}
Ops == {"OPEN", "CONFIRM", "FAILURE", "DATA", "EXTENDED", "EOF", "CLOSE", "ADJUST",
        "eow", "exit-status", "exit-signal", "shell"}

\* What is said once, or is remembered once it was said.
Words == {"EOF", "eow", "exit-status", "exit-signal", "shell"}

\* Packets; an OPEN and a CONFIRM also tell the sender's place in its array.
Msgs == [op : Ops, to : Slots, n : Nat, g : Nat]
          \cup [op : Ops, to : Slots, from : Slots, n : Nat, g : Nat]

\* How far one direction of a channel has come: the number of packets, the state,
\* what was said, and the bytes of data, of extended data and of window given.
Places == [k : Nat, st : {"new", "up", "failed", "closed"}, said : SUBSET Words,
           data : Nat, ext : Nat, adj : Nat]

\* Where a direction begins, and where it is after the OPEN or the CONFIRM.
Start == [k |-> 0, st |-> "new", said |-> {}, data |-> 0, ext |-> 0, adj |-> 0]
Begun == [k |-> 1, st |-> "up", said |-> {}, data |-> 0, ext |-> 0, adj |-> 0]

\* What a packet adds to the count of one kind.
Adds(op, n, kind) == IF op = kind THEN n ELSE 0

\* The place after a packet of kind op, with count n, was said at place a.
After(a, op, n) ==
    [k |-> a.k + 1,
     st |-> CASE op \in {"OPEN", "CONFIRM"} -> "up"
              [] op = "FAILURE" -> "failed"
              [] op = "CLOSE" -> "closed"
              [] OTHER -> a.st,
     said |-> a.said \cup ({op} \cap Words),
     data |-> a.data + Adds(op, n, "DATA"),
     ext |-> a.ext + Adds(op, n, "EXTENDED"),
     adj |-> a.adj + Adds(op, n, "ADJUST")]

\* It may be said there.  o: the sender opened the channel; u: it is the client of
\* a session, which asks for the shell first.
Allowed(o, u, a, op) ==
    /\ op = "OPEN" => o /\ a.st = "new"
    /\ op \in {"CONFIRM", "FAILURE"} => ~o /\ a.st = "new"
    /\ op \notin {"OPEN", "CONFIRM", "FAILURE"} =>
         /\ a.st = "up"
         /\ u => ("shell" \in a.said <=> op # "shell")
    /\ op = "shell" => u
    /\ op \in {"DATA", "EXTENDED", "EOF"} => "EOF" \notin a.said

\* b is a, or can be reached from it.
Before(a, b) ==
    /\ a.k <= b.k /\ a.data <= b.data /\ a.ext <= b.ext /\ a.adj <= b.adj
    /\ a.said \subseteq b.said
    /\ a.k = b.k => a = b
    /\ a.st \in {"failed", "closed"} => a = b
    /\ "EOF" \in a.said => a.data = b.data /\ a.ext = b.ext
    /\ b.st = "new" => a.st = "new"
    /\ b.st = "failed" => a.st \in {"new", "failed"}
    /\ a.st = "up" => b.st \in {"up", "closed"}

\* p are the places between the packets of w, those of g taking it from one to
\* the next.
Walk(o, u, g, w, p) ==
    /\ p \in [0 .. Len(w) -> Places]
    /\ \A i \in 1 .. Len(w) :
         IF w[i].g = g THEN Allowed(o, u, p[i - 1], w[i].op) /\ p[i] = After(p[i - 1], w[i].op, w[i].n)
         ELSE p[i] = p[i - 1]
    /\ \A i, j \in 0 .. Len(w) : i <= j => Before(p[i], p[j])

\* The packets of g in w lead from a to b.
Path(o, u, g, w, a, b) ==
    \E p \in [0 .. Len(w) -> Places] : Walk(o, u, g, w, p) /\ p[0] = a /\ p[Len(w)] = b

\* The channels, and what is behind them.
Types == {"opening", "connecting", "larval", "open", "zombie"}
Flags == {"EOF_SENT", "CLOSE_SENT", "EOF_RCVD", "CLOSE_RCVD"}
Chans == [type : Types, g : Nat, kind : Kinds, end : Ends, rid : Slots,
          istate : {"open", "drain", "closed"}, ostate : {"open", "drain", "closed"},
          flags : SUBSET Flags, input : Nat, output : Nat, extended : Nat,
          rwin : Nat, lwin : Nat, consumed : Nat, efd : BOOLEAN,
          detach : {"none", "keep", "close"}]
Ios == [made : Nat, pend : Nat, shut : BOOLEAN, gone : BOOLEAN,
        emade : Nat, epend : Nat, eshut : BOOLEAN, egone : BOOLEAN,
        got : Nat, egot : Nat, saw : {"open", "eof", "fail"},
        child : {"none", "running", "exited", "reaped"}, sig : BOOLEAN,
        last : Nat, elast : Nat, status : BOOLEAN]
\* No channel yet, and what an end knows of a channel: where it is or was in the array,
\* the channel, what it has heard and what it has said.
NotYet == [type |-> "none"]
Views == [at : Slots, c : Chans \cup {Free, NotYet}, in : Places, out : Places]

\* What NewIo makes.
NoIo == [made |-> 0, pend |-> 0, shut |-> FALSE, gone |-> FALSE,
     emade |-> 0, epend |-> 0, eshut |-> FALSE, egone |-> FALSE,
     got |-> 0, egot |-> 0, saw |-> "open",
     child |-> "none", sig |-> FALSE, last |-> 0, elast |-> 0, status |-> FALSE]

\* One side of a channel, and what it knows of the other: its place in the array
\* and what its program saw.
Sides == [end : Ends, kind : Kinds, by : Ends, g : Nat, to : Slots,
          peer : {"open", "eof", "fail"}]

\* The roles of a side.
Opener(z) == z.by = z.end
SesClient(z) == z.kind # "tcp" /\ z.end = "client"
SesServer(z) == z.kind # "tcp" /\ z.end = "server"
ExecServer(z) == z.kind = "exec" /\ z.end = "server"
ExecClient(z) == z.kind = "exec" /\ z.end = "client"

\* The receive window each end starts with: a session's server has none.
W0(z) == IF SesServer(z) THEN 0 ELSE Window
PeerW0(z) == IF SesClient(z) THEN 0 ELSE Window

\* What was received (a) and sent (b) keeps to the windows.
LedgerOK(z, a, b) ==
    /\ a.data + a.ext <= W0(z) + b.adj
    /\ W0(z) + b.adj <= Window + a.data + a.ext
    /\ b.data + b.ext <= PeerW0(z) + a.adj
    /\ b.ext > 0 => ExecServer(z)

\* What the program behind the channel got.
ReaderOK(z, x, a, b) ==
    /\ b.st = "closed" => x.saw # "open"
    /\ "eow" \in b.said => x.saw = "fail"
    /\ x.saw = "eof" => /\ "EOF" \in a.said \/ a.st = "closed"
                        /\ x.got = a.data
                        /\ ExecClient(z) => x.egone \/ x.egot = a.ext

\* What it wrote, and its exit.
WriterOK(z, x, a, b) ==
    /\ x.last <= x.made /\ x.elast <= x.emade
    /\ x.emade > 0 => ExecServer(z)
    /\ SesClient(z) => /\ b.st = "closed" => a.st = "closed"
                       /\ x.status <=> "exit-status" \in a.said
    /\ SesServer(z) =>
         /\ b.st = "closed" => "exit-status" \in b.said \/ "exit-signal" \in b.said
         /\ "exit-status" \in b.said => x.child = "reaped" /\ ~x.sig
         /\ "exit-signal" \in b.said => x.child = "reaped" /\ x.sig
    /\ x.child # "none" => SesServer(z)

\* These hold before the channel is there and after it is gone, too.
Facts(z, x, a, b) == LedgerOK(z, a, b) /\ ReaderOK(z, x, a, b) /\ WriterOK(z, x, a, b)

\* As channel_new makes it, with send window w.
Fresh(z, c, w) ==
    /\ c.istate = "open" /\ c.ostate = "open" /\ c.flags = {}
    /\ c.input = 0 /\ c.output = 0 /\ c.extended = 0 /\ c.consumed = 0
    /\ c.rwin = w /\ c.lwin = W0(z)
    /\ c.efd = (z.kind = "exec" \/ (z.kind = "tty" /\ z.end = "client"))
    /\ c.detach = IF z.kind = "tcp" THEN "none" ELSE "keep"

\* An open channel: its flags say what was said and heard,
FlagsOK(c, a, b) ==
    /\ a.st \in {"up", "closed"} /\ b.st \in {"up", "closed"}
    /\ "CLOSE_SENT" \in c.flags <=> b.st = "closed"
    /\ "CLOSE_RCVD" \in c.flags <=> a.st = "closed"
    /\ "EOF_SENT" \in c.flags <=> "EOF" \in b.said
    /\ "EOF_RCVD" \in c.flags <=> "EOF" \in a.said
    /\ "EOF" \in b.said => c.istate = "closed"
    /\ b.st = "closed" => c.istate = "closed" /\ c.ostate = "closed"

\* its windows are what was granted less what was used,
WinOK(z, c, a, b) ==
    /\ c.rwin + b.data + b.ext = PeerW0(z) + a.adj
    /\ W0(z) + b.adj <= c.lwin + a.data + a.ext
    /\ c.efd \/ ~SesClient(z) => W0(z) + b.adj = c.lwin + a.data + a.ext
    /\ c.lwin + c.consumed + c.output <= Window
    /\ SesClient(z) => c.lwin + c.consumed + c.output + c.extended <= Window

\* what was heard is written or waits to be,
OutOK(c, x, a) ==
    /\ c.ostate # "closed" <=> x.saw = "open"
    /\ c.ostate = "closed" => c.output = 0
    /\ c.ostate = "open" <=> (x.saw = "open" /\ a.st # "closed" /\ "EOF" \notin a.said)
    /\ x.saw # "fail" => a.data = x.got + c.output

\* what was read is said or waits to be,
InOK(z, c, x, b) ==
    /\ x.made = x.pend + c.input + b.data
    /\ c.istate = "drain" =>
         \/ x.shut /\ x.pend = 0
         \/ z.kind = "tty" /\ x.child = "reaped" /\ c.input + b.data >= x.last

\* the same for standard error,
ErrOK(z, c, x, a, b) ==
    /\ ExecServer(z) =>
         /\ x.emade = x.epend + c.extended + b.ext
         /\ ~c.efd /\ a.st # "closed" =>
              \/ x.eshut /\ x.epend = 0
              \/ x.child = "reaped" /\ c.extended + b.ext >= x.elast
    /\ ExecClient(z) =>
         /\ c.efd \/ x.egone
         /\ c.efd => a.ext = x.egot + c.extended
         /\ x.saw = "eof" /\ c.efd => c.extended = 0

\* and a session's child is there, or its end was reported.
SesOK(z, c, x, a, b) ==
    /\ z.kind = "tcp" => c.detach = "none"
    /\ SesClient(z) => c.detach = "keep" /\ "shell" \in b.said
    /\ SesServer(z) =>
         /\ "shell" \in a.said
         /\ x.child # "none" /\ c.detach # "none"
         /\ c.detach = "close" <=> x.child = "reaped"
         /\ c.detach = "close" <=> "exit-status" \in b.said \/ "exit-signal" \in b.said

\* All of it.
OpenOK(z, c, x, a, b) ==
    /\ FlagsOK(c, a, b) /\ WinOK(z, c, a, b) /\ OutOK(c, x, a)
    /\ InOK(z, c, x, b) /\ ErrOK(z, c, x, a, b) /\ SesOK(z, c, x, a, b)

\* The channel is z's.
Belongs(z, c) ==
    /\ c \in Chans /\ c.g = z.g /\ c.kind = z.kind /\ c.end = z.end
    /\ c.type \in {"connecting", "larval", "open"} => c.rid = z.to

\* How far the channel is, and what was said and heard by then.
Stage(z, c, x, a, b) ==
    /\ c.type = "none" => a = Start /\ b = Start /\ x = NoIo
    /\ c.type = "opening" => Opener(z) /\ a = Start /\ b = Begun /\ x = NoIo /\ Fresh(z, c, 0)
    /\ c.type = "connecting" => /\ ~Opener(z) /\ z.kind = "tcp" /\ a = Begun /\ b = Start
                                /\ x = NoIo /\ Fresh(z, c, Window)
    /\ c.type = "larval" => /\ ~Opener(z) /\ SesServer(z) /\ a = Begun /\ b = Begun
                            /\ x = NoIo /\ Fresh(z, c, Window)
    /\ c.type = "zombie" => /\ Opener(z) /\ a.st = "failed" /\ b = Begun
                            /\ x = NoIo /\ Fresh(z, c, 0)
    /\ c.type = "free" => \/ x = NoIo /\ ~Opener(z) /\ a = Begun /\ b.st = "failed"
                          \/ x = NoIo /\ Opener(z) /\ a.st = "failed" /\ b = Begun
                          \/ a.st = "closed" /\ b.st = "closed"
    /\ c.type = "open" => OpenOK(z, c, x, a, b)

\* All that the program wrote was said, or all that it wrote before its exit.
Complete(z, x, b) ==
    /\ \/ x.shut /\ b.data = x.made
       \/ z.kind = "tty" /\ x.child = "reaped" /\ b.data >= x.last
    /\ ExecServer(z) => \/ x.eshut /\ b.ext = x.emade
                        \/ x.child = "reaped" /\ b.ext >= x.elast

\* An end is said only after everything was, unless the other program is not there
\* to take it.
Honest(z, c, x, b) ==
    /\ "EOF" \in b.said => z.peer = "fail" \/ Complete(z, x, b)
    /\ b.st = "closed" /\ "EOF" \notin b.said => z.peer = "fail"
    /\ c.type = "open" /\ c.istate = "closed" /\ "EOF" \notin b.said => z.peer = "fail"

\* The invariant of one side: its channel c, its program x, heard a, said b.
Own(z, c, x, a, b) ==
    /\ c = NotYet \/ c = Free \/ Belongs(z, c)
    /\ x \in Ios /\ a \in Places /\ b \in Places
    /\ Facts(z, x, a, b) /\ Stage(z, c, x, a, b) /\ Honest(z, c, x, b)

\* Side e of channel g.
SideOf(v, e, g) ==
    [end |-> e, kind |-> Kind(g), by |-> plan[g].by, g |-> g, to |-> v[Peer(e)][g].at,
     peer |-> io[g][Peer(e)].saw]

\* The arrays hold the channels of the views, each at its place.
Reps(v) ==
    /\ \A e \in Ends : \A i \in Slots : ch[e][i] # Free =>
         /\ ch[e][i] \in Chans /\ ch[e][i].g \in Gens
         /\ v[e][ch[e][i].g].c = ch[e][i] /\ v[e][ch[e][i].g].at = i
    /\ \A e \in Ends : \A g \in Gens : v[e][g].c \in Chans => ch[e][v[e][g].at] = v[e][g].c
    /\ \A g \in Gens : v[plan[g].by][g].c = NotYet <=> g > opened

\* The window that the other end of channel g starts with, as e is told.
Granted(e, g) == IF Kind(g) # "tcp" /\ e = "client" THEN 0 ELSE Window

\* The packets under way carry the addresses of the views.
Mail(v) ==
    \A e \in Ends : \A k \in 1 .. Len(net[e]) : LET m == net[e][k] IN
       /\ m.g \in Gens
       /\ m.op = "OPEN" => m.from = v[Peer(e)][m.g].at /\ m.n = Window
       /\ m.op # "OPEN" => m.to = v[e][m.g].at
       /\ m.op = "CONFIRM" => m.from = v[Peer(e)][m.g].at /\ m.n = Granted(e, m.g)

\* What is under way to each end takes its place to where the other end is.
Asks(e, g) == plan[g].by = e
Shells(e, g) == Kind(g) # "tcp" /\ e = "client"
Ways(v) ==
    \A e \in Ends : \A g \in Gens :
       Path(Asks(Peer(e), g), Shells(Peer(e), g), g, net[e], v[e][g].in, v[Peer(e)][g].out)

\* Each side keeps its own invariant.
Owns(v) ==
    \A e \in Ends : \A g \in Gens :
       Own(SideOf(v, e, g), v[e][g].c, io[g][e], v[e][g].in, v[e][g].out)

\* The types of the variables; no end has disconnected.
Shapes ==
    /\ plan \in Plans /\ opened \in 0 .. Len(plan) /\ disc = FALSE
    /\ ch \in [Ends -> [Slots -> Chans \cup {Free}]]
    /\ io \in [Gens -> [Ends -> Ios]]
    /\ net \in [Ends -> Seq(Msgs)]

\* The invariant, for given views of the channels.
Inv(v) == Shapes /\ Reps(v) /\ Mail(v) /\ Ways(v) /\ Owns(v)

\* What each end knows of each channel.
Maps == [Ends -> [Gens -> Views]]

\* The inductive invariant.
CInv == \E v \in Maps : Inv(v)

-----------------------------------------------------------------------------
(* Places and paths *)

\* A packet has a kind and a count.
LEMMA MsgFields == ASSUME NEW m \in Msgs PROVE m.op \in Ops /\ m.n \in Nat
  BY DEF Msgs

\* Saying a packet leads from a place to a place.
LEMMA AfterIsPlace ==
  ASSUME NEW a \in Places, NEW op \in Ops, NEW n \in Nat
  PROVE  After(a, op, n) \in Places
<1>2. a.k + 1 \in Nat /\ a.data + Adds(op, n, "DATA") \in Nat /\ a.ext + Adds(op, n, "EXTENDED") \in Nat
      /\ a.adj + Adds(op, n, "ADJUST") \in Nat
  BY DEF Adds, Places
<1>3. a.said \cup ({op} \cap Words) \in SUBSET Words
  BY DEF Places
<1>4. (CASE op \in {"OPEN", "CONFIRM"} -> "up"
              [] op = "FAILURE" -> "failed"
              [] op = "CLOSE" -> "closed"
              [] OTHER -> a.st) \in {"new", "up", "failed", "closed"}
  BY DEF Places
<1>. QED BY <1>2, <1>3, <1>4 DEF After, Places

\* Before is reflexive ...
LEMMA BeforeRefl == ASSUME NEW a \in Places PROVE Before(a, a)
  BY DEF Before, Places

\* ... and transitive.
LEMMA BeforeTrans ==
  ASSUME NEW a \in Places, NEW b \in Places, NEW c \in Places, Before(a, b), Before(b, c)
  PROVE  Before(a, c)
  BY DEF Before, Places

\* A packet that may be said leads to a later place.
LEMMA AfterIsLater ==
  ASSUME NEW o, NEW u, NEW a \in Places, NEW op \in Ops, NEW n \in Nat, Allowed(o, u, a, op)
  PROVE  Before(a, After(a, op, n))
<1>2. a.st \in {"new", "up"}
  BY DEF Allowed
<1>3. a.k \in Nat /\ a.data \in Nat /\ a.ext \in Nat /\ a.adj \in Nat
  BY DEF Places
<1>. DEFINE b == After(a, op, n)
<1>4. /\ b.k = a.k + 1 /\ b.said = a.said \cup ({op} \cap Words)
      /\ b.data = a.data + Adds(op, n, "DATA") /\ b.ext = a.ext + Adds(op, n, "EXTENDED")
      /\ b.adj = a.adj + Adds(op, n, "ADJUST")
  BY DEF After
<1>5. b.st = CASE op \in {"OPEN", "CONFIRM"} -> "up"
              [] op = "FAILURE" -> "failed"
              [] op = "CLOSE" -> "closed"
              [] OTHER -> a.st
  BY DEF After
<1>. HIDE DEF b
<1>6. a.data <= b.data /\ a.ext <= b.ext /\ a.adj <= b.adj /\ a.k < b.k
  BY <1>3, <1>4 DEF Adds
<1>7. "EOF" \in a.said => a.data = b.data /\ a.ext = b.ext
  BY <1>3, <1>4 DEF Adds, Allowed
<1>8. /\ b.st = "new" => a.st = "new"
      /\ b.st = "failed" => a.st = "new"
      /\ a.st = "up" => b.st \in {"up", "closed"}
  BY <1>5 DEF Allowed
<1>. QED BY <1>2, <1>3, <1>4, <1>6, <1>7, <1>8 DEF Before, b

\* Packets under way lead from a place to a later one.
LEMMA PathBefore ==
  ASSUME NEW o, NEW u, NEW g, NEW w \in Seq(Msgs), NEW a, NEW b, Path(o, u, g, w, a, b)
  PROVE  Before(a, b) /\ a \in Places /\ b \in Places
<1>1. PICK p \in [0 .. Len(w) -> Places] :
            Walk(o, u, g, w, p) /\ p[0] = a /\ p[Len(w)] = b
  BY DEF Path
<1>2. Len(w) \in Nat
  OBVIOUS
<1>. QED BY <1>1, <1>2 DEF Walk

\* Nothing under way: the two ends agree.
LEMMA PathEmpty ==
  ASSUME NEW o, NEW u, NEW g, NEW a \in Places
  PROVE  Path(o, u, g, <<>>, a, a)
<1>. DEFINE p == [i \in 0 .. 0 |-> a]
<1>1. p \in [0 .. 0 -> Places] /\ p[0] = a /\ \A i \in 0 .. 0 : p[i] = a
  OBVIOUS
<1>2. Len(<<>>) = 0
  OBVIOUS
<1>. HIDE DEF p
<1>3. \A i, j \in 0 .. 0 : i <= j => Before(p[i], p[j])
  BY <1>1, BeforeRefl
<1>4. Walk(o, u, g, <<>>, p)
  BY <1>1, <1>2, <1>3 DEF Walk
<1>. QED BY <1>1, <1>2, <1>4 DEF Path

\* Packets of other channels are passed by.
LEMMA PathOthers ==
  ASSUME NEW o, NEW u, NEW g, NEW a \in Places, NEW w \in Seq(Msgs),
         \A i \in 1 .. Len(w) : w[i].g # g
  PROVE  Path(o, u, g, w, a, a)
<1>. DEFINE p == [i \in 0 .. Len(w) |-> a]
<1>0. PICK n \in Nat : Len(w) = n
  OBVIOUS
<1>1. p \in [0 .. n -> Places] /\ \A i \in 0 .. n : p[i] = a
  BY <1>0
<1>. HIDE DEF p
<1>2. \A i, j \in 0 .. n : i <= j => Before(p[i], p[j])
  BY <1>1, BeforeRefl
<1>3. Walk(o, u, g, w, p)
  BY <1>0, <1>1, <1>2 DEF Walk
<1>4. p[0] = a /\ p[n] = a
  BY <1>1
<1>. QED BY <1>0, <1>1, <1>3, <1>4 DEF Path

\* Packets that are sent follow those under way.
LEMMA PathJoin ==
  ASSUME NEW o, NEW u, NEW g, NEW w \in Seq(Msgs), NEW q \in Seq(Msgs), NEW a, NEW b, NEW c,
         Path(o, u, g, w, a, b), Path(o, u, g, q, b, c)
  PROVE  Path(o, u, g, w \o q, a, c)
<1>1. PICK n \in Nat : Len(w) = n
  OBVIOUS
<1>2. PICK m \in Nat : Len(q) = m
  OBVIOUS
<1>3. PICK p \in [0 .. n -> Places] : Walk(o, u, g, w, p) /\ p[0] = a /\ p[n] = b
  BY <1>1 DEF Path
<1>4. PICK r \in [0 .. m -> Places] : Walk(o, u, g, q, r) /\ r[0] = b /\ r[m] = c
  BY <1>2 DEF Path
<1>. DEFINE s == [i \in 0 .. n + m |-> IF i <= n THEN p[i] ELSE r[i - n]]
<1>5. /\ \A i \in 0 .. n : s[i] = p[i]
      /\ \A i \in 0 .. n + m : i > n => s[i] = r[i - n]
  OBVIOUS
<1>6. s[n] = r[0]
  BY <1>3, <1>4
<1>7. s \in [0 .. n + m -> Places]
  OBVIOUS
<1>. HIDE DEF s
<1>8. \A i \in n .. n + m : s[i] = r[i - n]
  BY <1>5, <1>6
<1>9. /\ w \o q \in Seq(Msgs) /\ Len(w \o q) = n + m
      /\ \A i \in 1 .. n : (w \o q)[i] = w[i]
      /\ \A i \in n + 1 .. n + m : (w \o q)[i] = q[i - n]
  <2>1. /\ w \o q \in Seq(Msgs) /\ Len(w \o q) = Len(w) + Len(q)
        /\ \A i \in 1 .. Len(w) + Len(q) :
             (w \o q)[i] = IF i <= Len(w) THEN w[i] ELSE q[i - Len(w)]
    BY ConcatProperties, Zenon
  <2>. QED BY <1>1, <1>2, <2>1
<1>10. ASSUME NEW i \in 1 .. n + m
       PROVE  IF (w \o q)[i].g = g
              THEN /\ Allowed(o, u, s[i - 1], (w \o q)[i].op)
                   /\ s[i] = After(s[i - 1], (w \o q)[i].op, (w \o q)[i].n)
              ELSE s[i] = s[i - 1]
  <2>1. CASE i <= n
    <3>1. (w \o q)[i] = w[i] /\ s[i] = p[i] /\ s[i - 1] = p[i - 1] /\ i \in 1 .. n
      BY SMTT(60), <2>1, <1>5, <1>9
    <3>. QED BY <3>1, <1>3, <1>1 DEF Walk
  <2>2. CASE i > n
    <3>1. (w \o q)[i] = q[i - n] /\ s[i] = r[i - n] /\ s[i - 1] = r[i - n - 1]
          /\ i - n \in 1 .. m
      <4>1. i \in n .. n + m /\ i - 1 \in n .. n + m /\ (i - 1) - n = i - n - 1
            /\ i \in n + 1 .. n + m /\ i - n \in 1 .. m
        BY <1>1, <1>2, <2>2
      <4>. QED BY <4>1, <1>8, <1>9
    <3>. QED BY <3>1, <1>4, <1>2 DEF Walk
  <2>. QED BY <2>1, <2>2, <1>1, <1>2
<1>11. ASSUME NEW i \in 0 .. n + m, NEW j \in 0 .. n + m, i <= j
       PROVE  Before(s[i], s[j])
  <2>1. CASE j <= n
    BY <2>1, <1>11, <1>5, <1>3, <1>1 DEF Walk
  <2>2. CASE i > n
    <3>1. s[i] = r[i - n] /\ s[j] = r[j - n] /\ i - n \in 0 .. m /\ j - n \in 0 .. m
          /\ i - n <= j - n
      BY <2>2, <1>11, <1>8
    <3>. QED BY <3>1, <1>4, <1>2 DEF Walk
  <2>3. CASE i <= n /\ j > n
    <3>1. s[i] = p[i] /\ Before(p[i], b) /\ p[i] \in Places /\ b \in Places
      BY <2>3, <1>5, <1>3, <1>1 DEF Walk
    <3>2. s[j] = r[j - n] /\ Before(b, r[j - n]) /\ r[j - n] \in Places
      <4>1. s[j] = r[j - n] /\ j - n \in 0 .. m
        BY <2>3, <1>8
      <4>. QED BY <4>1, <1>4, <1>2 DEF Walk
    <3>. QED BY <3>1, <3>2, BeforeTrans
  <2>. QED BY <2>1, <2>2, <2>3
<1>12. Walk(o, u, g, w \o q, s)
  BY <1>7, <1>9, <1>10, <1>11 DEF Walk
<1>13. s[0] = a /\ s[n + m] = c
  BY <1>3, <1>4, <1>5, <1>8
<1>. QED BY <1>7, <1>9, <1>12, <1>13 DEF Path

\* One packet.
LEMMA PathOne ==
  ASSUME NEW o, NEW u, NEW m \in Msgs, NEW a \in Places, Allowed(o, u, a, m.op)
  PROVE  Path(o, u, m.g, <<m>>, a, After(a, m.op, m.n))
<1>. DEFINE p == [i \in 0 .. 1 |-> IF i = 0 THEN a ELSE After(a, m.op, m.n)]
<1>1. After(a, m.op, m.n) \in Places
  BY AfterIsPlace, MsgFields
<1>2. p \in [0 .. 1 -> Places] /\ p[0] = a /\ p[1] = After(a, m.op, m.n)
  BY <1>1
<1>. HIDE DEF p
<1>3. Before(a, After(a, m.op, m.n)) /\ Before(a, a) /\ Before(After(a, m.op, m.n), After(a, m.op, m.n))
  BY <1>1, AfterIsLater, BeforeRefl, MsgFields
<1>4. Len(<<m>>) = 1 /\ <<m>>[1] = m
  OBVIOUS
<1>5. \A i \in 0 .. 1 : i = 0 \/ i = 1
  OBVIOUS
<1>6. \A i, j \in 0 .. 1 : i <= j => Before(p[i], p[j])
  BY <1>2, <1>3, <1>5
<1>7. \A i \in 1 .. 1 : i = 1 /\ i - 1 = 0
  OBVIOUS
<1>8. Walk(o, u, m.g, <<m>>, p)
  BY <1>2, <1>4, <1>6, <1>7 DEF Walk
<1>. QED BY <1>2, <1>4, <1>8 DEF Path

\* One packet more.
LEMMA PathAppend ==
  ASSUME NEW o, NEW u, NEW g, NEW w \in Seq(Msgs), NEW m \in Msgs, NEW a, NEW b,
         Path(o, u, g, w, a, b), m.g = g, Allowed(o, u, b, m.op)
  PROVE  Append(w, m) \in Seq(Msgs) /\ Path(o, u, g, Append(w, m), a, After(b, m.op, m.n))
<1>1. b \in Places
  BY PathBefore
<1>2. Path(o, u, g, <<m>>, b, After(b, m.op, m.n))
  BY <1>1, PathOne
<1>3. <<m>> \in Seq(Msgs) /\ Append(w, m) = w \o <<m>> /\ Append(w, m) \in Seq(Msgs)
  OBVIOUS
<1>4. Path(o, u, g, w \o <<m>>, a, After(b, m.op, m.n))
  BY <1>2, <1>3, PathJoin, Zenon
<1>. QED BY <1>3, <1>4

\* The first packet is taken off: it was allowed where the receiver is.
LEMMA PathHead ==
  ASSUME NEW o, NEW u, NEW g, NEW w \in Seq(Msgs), w # <<>>, NEW a, NEW b,
         Path(o, u, g, w, a, b)
  PROVE  /\ Head(w) \in Msgs /\ Tail(w) \in Seq(Msgs)
         /\ Head(w).g = g => /\ Allowed(o, u, a, Head(w).op)
                             /\ Path(o, u, g, Tail(w), After(a, Head(w).op, Head(w).n), b)
         /\ Head(w).g # g => Path(o, u, g, Tail(w), a, b)
<1>1. PICK n \in Nat : Len(w) = n + 1
  <2>1. Len(w) \in Nat /\ Len(w) # 0
    BY EmptySeq
  <2>. QED BY <2>1
<1>2. PICK p \in [0 .. n + 1 -> Places] : Walk(o, u, g, w, p) /\ p[0] = a /\ p[n + 1] = b
  BY <1>1 DEF Path
<1>. DEFINE s == [i \in 0 .. n |-> p[i + 1]]
<1>3. s \in [0 .. n -> Places] /\ s[0] = p[1] /\ s[n] = b /\ \A i \in 0 .. n : s[i] = p[i + 1]
  BY <1>2
<1>. HIDE DEF s
<1>4. /\ Head(w) \in Msgs /\ Tail(w) \in Seq(Msgs) /\ Len(Tail(w)) = n /\ Head(w) = w[1]
      /\ \A i \in 1 .. n : Tail(w)[i] = w[i + 1]
  BY <1>1, HeadTailProperties
<1>5. Walk(o, u, g, Tail(w), s)
  <2>1. ASSUME NEW i \in 1 .. n
        PROVE  IF Tail(w)[i].g = g
               THEN /\ Allowed(o, u, s[i - 1], Tail(w)[i].op)
                    /\ s[i] = After(s[i - 1], Tail(w)[i].op, Tail(w)[i].n)
               ELSE s[i] = s[i - 1]
    <3>1. Tail(w)[i] = w[i + 1] /\ s[i] = p[i + 1] /\ s[i - 1] = p[i] /\ i + 1 \in 1 .. n + 1
          /\ (i + 1) - 1 = i
      BY <1>3, <1>4
    <3>. QED BY <3>1, <1>1, <1>2 DEF Walk
  <2>2. ASSUME NEW i \in 0 .. n, NEW j \in 0 .. n, i <= j
        PROVE  Before(s[i], s[j])
    <3>1. s[i] = p[i + 1] /\ s[j] = p[j + 1] /\ i + 1 <= j + 1
          /\ i + 1 \in 0 .. n + 1 /\ j + 1 \in 0 .. n + 1
      BY <2>2, <1>3
    <3>. QED BY <3>1, <1>1, <1>2 DEF Walk
  <2>. QED BY <2>1, <2>2, <1>3, <1>4 DEF Walk
<1>6. IF Head(w).g = g
      THEN Allowed(o, u, a, Head(w).op) /\ p[1] = After(a, Head(w).op, Head(w).n)
      ELSE p[1] = a
  <2>1. 1 \in 1 .. n + 1 /\ 1 - 1 = 0
    OBVIOUS
  <2>. QED BY <2>1, <1>1, <1>2, <1>4 DEF Walk
<1>7. Path(o, u, g, Tail(w), p[1], b)
  BY <1>3, <1>4, <1>5 DEF Path
<1>. QED BY <1>4, <1>6, <1>7

\* A packet of g under way was allowed at some place between.
LEMMA PathFinds ==
  ASSUME NEW o, NEW u, NEW g, NEW w \in Seq(Msgs), NEW a, NEW b, Path(o, u, g, w, a, b),
         NEW k \in 1 .. Len(w), w[k].g = g
  PROVE  \E c \in Places : /\ Before(a, c) /\ Allowed(o, u, c, w[k].op)
                           /\ After(c, w[k].op, w[k].n) \in Places
                           /\ Before(After(c, w[k].op, w[k].n), b)
<1>1. PICK n \in Nat : Len(w) = n
  OBVIOUS
<1>2. PICK p \in [0 .. n -> Places] : Walk(o, u, g, w, p) /\ p[0] = a /\ p[n] = b
  BY <1>1 DEF Path
<1>3. k - 1 \in 0 .. n /\ k \in 0 .. n /\ 0 \in 0 .. n /\ n \in 0 .. n /\ k \in 1 .. n
  BY <1>1
<1>4. Allowed(o, u, p[k - 1], w[k].op) /\ p[k] = After(p[k - 1], w[k].op, w[k].n)
  BY <1>1, <1>2, <1>3 DEF Walk
<1>5. Before(p[0], p[k - 1]) /\ Before(p[k], p[n])
  BY <1>1, <1>2, <1>3 DEF Walk
<1>. QED BY <1>2, <1>3, <1>4, <1>5

-----------------------------------------------------------------------------
(* A handler at work *)

\* What a handler works on.
States == [c : Chans, io : Ios, out : Seq(Msgs)]

\* The packets q take side z from place d to place b.
Sent(z, d, q, b) ==
    /\ Path(Opener(z), SesClient(z), z.g, q, d, b)
    /\ \A i \in 1 .. Len(q) :
         q[i].g = z.g /\ q[i].to = z.to /\ q[i].op \notin {"OPEN", "CONFIRM"}

\* What failed stays failed.
Kept(d, x) == d.saw = "fail" => x.saw = "fail"

\* In the middle of a handler of side z that began at place d.out, when its program
\* had seen d.saw.
Mid(z, d, s, a, b) ==
    /\ s \in States /\ s.c.type = "open" /\ Sent(z, d.out, s.out, b) /\ Kept(d, s.io)
    /\ Belongs(z, s.c) /\ a \in Places /\ b \in Places
    /\ Facts(z, s.io, a, b) /\ OpenOK(z, s.c, s.io, a, b) /\ Honest(z, s.c, s.io, b)

\* What a handler's Enqueue does: one packet more, to the other end's place.
LEMMA Enqueues ==
  ASSUME NEW z \in Sides, NEW s \in States, NEW d, NEW b, s.c.rid = z.to, s.c.g = z.g,
         Sent(z, d, s.out, b), NEW op \in Ops \ {"OPEN", "CONFIRM"}, NEW n \in Nat,
         Allowed(Opener(z), SesClient(z), b, op)
  PROVE  /\ Enqueue(s, op, n) \in States /\ Enqueue(s, op, n).c = s.c
         /\ Enqueue(s, op, n).io = s.io
         /\ Sent(z, d, Enqueue(s, op, n).out, After(b, op, n))
<1>. DEFINE m == [op |-> op, to |-> s.c.rid, n |-> n, g |-> s.c.g]
<1>1. m \in Msgs /\ m.op = op /\ m.n = n /\ m.g = z.g /\ m.to = z.to
  BY DEF Msgs, Sides
<1>2. Enqueue(s, op, n) = [s EXCEPT !.out = Append(@, m)]
  BY DEF Enqueue
<1>. HIDE DEF m
<1>3. s.out \in Seq(Msgs)
  BY DEF States
<1>4. Append(s.out, m) \in Seq(Msgs)
  BY <1>1, <1>3
<1>5. /\ Enqueue(s, op, n) \in States /\ Enqueue(s, op, n).c = s.c
      /\ Enqueue(s, op, n).io = s.io /\ Enqueue(s, op, n).out = Append(s.out, m)
  BY <1>2, <1>4 DEF States
<1>6. Path(Opener(z), SesClient(z), z.g, Append(s.out, m), d, After(b, op, n))
  BY <1>1, <1>3, PathAppend DEF Sent
<1>7. \A i \in 1 .. Len(Append(s.out, m)) :
         /\ Append(s.out, m)[i].g = z.g /\ Append(s.out, m)[i].to = z.to
         /\ Append(s.out, m)[i].op \notin {"OPEN", "CONFIRM"}
  <2>1. PICK k \in Nat : Len(s.out) = k
    BY <1>3
  <2>2. /\ Len(Append(s.out, m)) = k + 1
        /\ \A i \in 1 .. k + 1 : Append(s.out, m)[i] = IF i = k + 1 THEN m ELSE s.out[i]
    BY <2>1, <1>1, <1>3
  <2>. QED BY <1>1, <2>1, <2>2 DEF Sent
<1>. QED BY <1>5, <1>6, <1>7 DEF Sent

\* CHAN_RBUF and the packet size.
LEMMA BuffersAreNat == RBuf \in Nat \ {0} /\ MaxPack \in Nat \ {0}
  BY ChannelAssumption

\* The windows the two ends begin with are at most the default.
LEMMA WindowIsNat ==
  /\ Window \in Nat /\ Window > 0
  /\ \A z : W0(z) \in 0 .. Window /\ PeerW0(z) \in 0 .. Window
  BY ChannelAssumption DEF W0, PeerW0

\* The parts of Mid that the handlers' proofs start from.
LEMMA MidTypes ==
  ASSUME NEW z, NEW d, NEW s, NEW a, NEW b, Mid(z, d, s, a, b)
  PROVE  s \in States /\ s.c \in Chans /\ s.io \in Ios /\ a \in Places /\ b \in Places
  BY DEF Mid, States


\* chan_read_failed, called when nothing is left to read.
LEMMA ReadFailed ==
  ASSUME NEW z \in Sides, NEW d, NEW s, NEW a, NEW b, Mid(z, d, s, a, b),
         s.io.pend = 0, s.io.shut \/ Forced(s.c)
  PROVE  Mid(z, d, chan_read_failed(s), a, b)
<1>. DEFINE t == chan_read_failed(s)
<1>1. s \in States /\ s.c \in Chans /\ s.io \in Ios /\ a \in Places /\ b \in Places
  BY MidTypes
<1>2. CASE s.c.istate # "open"
  BY <1>2 DEF chan_read_failed
<1>3. CASE s.c.istate = "open"
  <2>1. t = [s EXCEPT !.c.istate = "drain"]
    BY <1>3 DEF chan_read_failed
  <2>. HIDE DEF t
  <2>2. t.c = [s.c EXCEPT !.istate = "drain"] /\ t.io = s.io /\ t.out = s.out /\ t \in States
    BY <1>1, <2>1 DEF States, Chans
  <2>3. t.c.type = "open" /\ Belongs(z, t.c)
    BY <1>1, <2>2 DEF Mid, Belongs, Chans, States
  <2>4. Kept(d, t.io)
    BY <1>1, <2>2 DEF Mid, Kept, Ios
  <2>5. LedgerOK(z, a, b)
    BY <1>1, <2>2 DEF Mid, Facts, LedgerOK
  <2>6. ReaderOK(z, t.io, a, b)
    BY <1>1, <2>2 DEF Mid, Facts, ReaderOK, Ios
  <2>7. WriterOK(z, t.io, a, b)
    BY <1>1, <2>2 DEF Mid, Facts, WriterOK, Ios
  <2>8. FlagsOK(t.c, a, b)
    BY <1>1, <2>2, <1>3 DEF Mid, OpenOK, FlagsOK, Chans
  <2>9. WinOK(z, t.c, a, b)
    BY <1>1, <2>2 DEF Mid, OpenOK, WinOK, Chans
  <2>10. OutOK(t.c, t.io, a)
    BY <1>1, <2>2 DEF Mid, OpenOK, OutOK, Chans, Ios
  <2>11. InOK(z, t.c, t.io, b)
    <3>1. /\ s.io.made \in Nat /\ s.io.last \in Nat /\ s.c.input \in Nat /\ b.data \in Nat
          /\ s.io.last <= s.io.made /\ s.io.made = s.io.pend + s.c.input + b.data
      BY DEF Mid, OpenOK, InOK, States, Chans, Ios, Places, Facts, WriterOK
    <3>2. Forced(s.c) => z.kind = "tty" /\ s.io.child = "reaped"
      BY DEF Mid, OpenOK, SesOK, SesServer, Forced, Belongs
    <3>3. t.c.input = s.c.input
      BY <1>1, <2>2 DEF Chans
    <3>. QED BY <3>1, <3>2, <3>3, <2>2 DEF InOK
  <2>12. ErrOK(z, t.c, t.io, a, b)
    BY <1>1, <2>2 DEF Mid, OpenOK, ErrOK, Chans, Ios
  <2>13. SesOK(z, t.c, t.io, a, b)
    BY <1>1, <2>2 DEF Mid, OpenOK, SesOK, Chans, Ios
  <2>14. Honest(z, t.c, t.io, b)
    BY <1>1, <2>2 DEF Mid, OpenOK, Honest, Complete, Chans, Ios
  <2>15. Mid(z, d, t, a, b)
    BY <1>1, <2>2, <2>3, <2>4, <2>5, <2>6, <2>7, <2>8, <2>9, <2>10, <2>11, <2>12,
       <2>13, <2>14 DEF Mid, OpenOK, Facts
  <2>. QED BY <2>15 DEF t
<1>. QED BY <1>2, <1>3

\* chan_obuf_empty, called when everything was written.
LEMMA ObufEmpty ==
  ASSUME NEW z \in Sides, NEW d, NEW s, NEW a, NEW b, Mid(z, d, s, a, b),
         s.c.ostate = "drain", s.c.output = 0, ~EfdOutputActive(s.c)
  PROVE  Mid(z, d, chan_obuf_empty(s), a, b)
<1>. DEFINE t == chan_obuf_empty(s)
<1>1. s \in States /\ s.c \in Chans /\ s.io \in Ios /\ a \in Places /\ b \in Places
  BY MidTypes
<1>2. t = [s EXCEPT !.c.output = 0, !.c.ostate = "closed", !.io.saw = "eof"]
  BY DEF chan_obuf_empty
<1>. HIDE DEF t
<1>3. /\ t.c = [s.c EXCEPT !.output = 0, !.ostate = "closed"]
      /\ t.io = [s.io EXCEPT !.saw = "eof"] /\ t.out = s.out /\ t \in States
  BY <1>1, <1>2 DEF States, Chans, Ios
<1>4. t.c.type = "open" /\ Belongs(z, t.c)
  BY SMTT(60), <1>1, <1>3 DEF Mid, Belongs, Chans, States
<1>5. Kept(d, t.io)
  BY <1>1, <1>3 DEF Mid, Kept, Ios, OpenOK, OutOK
<1>6. LedgerOK(z, a, b)
  BY <1>1, <1>3 DEF Mid, Facts, LedgerOK
<1>7. ReaderOK(z, t.io, a, b)
  BY <1>1, <1>3 DEF Mid, Facts, ReaderOK, Ios, OpenOK, OutOK, ErrOK, FlagsOK, Chans,
     ExecClient, EfdOutputActive, Usage, IsSession, Belongs
<1>8. WriterOK(z, t.io, a, b)
  BY <1>1, <1>3 DEF Mid, Facts, WriterOK, Ios
<1>9. FlagsOK(t.c, a, b)
  BY <1>1, <1>3 DEF Mid, OpenOK, FlagsOK, Chans
<1>10. WinOK(z, t.c, a, b)
  BY <1>1, <1>3 DEF Mid, OpenOK, WinOK, Chans
<1>11. OutOK(t.c, t.io, a)
  BY <1>1, <1>3 DEF Mid, OpenOK, OutOK, Chans, Ios
<1>12. InOK(z, t.c, t.io, b)
  BY <1>1, <1>3 DEF Mid, OpenOK, InOK, Chans, Ios
<1>13. ErrOK(z, t.c, t.io, a, b)
  BY <1>1, <1>3 DEF Mid, OpenOK, ErrOK, Chans, Ios, ExecClient, EfdOutputActive,
     Usage, IsSession, Belongs, FlagsOK, OutOK
<1>14. SesOK(z, t.c, t.io, a, b)
  BY <1>1, <1>3 DEF Mid, OpenOK, SesOK, Chans, Ios
<1>15. Honest(z, t.c, t.io, b)
  BY <1>1, <1>3 DEF Mid, OpenOK, Honest, Complete, Chans, Ios
<1>16. Mid(z, d, t, a, b)
  BY <1>1, <1>3, <1>4, <1>5, <1>6, <1>7, <1>8, <1>9, <1>10, <1>11, <1>12, <1>13,
     <1>14, <1>15 DEF Mid, OpenOK, Facts
<1>. QED BY <1>16 DEF t

\* chan_write_failed.
LEMMA WriteFailed ==
  ASSUME NEW z \in Sides, NEW d, NEW s, NEW a, NEW b, Mid(z, d, s, a, b)
  PROVE  \E b2 \in Places : Mid(z, d, chan_write_failed(s), a, b2)
<1>. DEFINE t == chan_write_failed(s)
<1>1. s \in States /\ s.c \in Chans /\ s.io \in Ios /\ a \in Places /\ b \in Places
  BY MidTypes
<1>2. CASE s.c.ostate = "closed"
  BY <1>1, <1>2 DEF chan_write_failed
<1>3. CASE s.c.ostate # "closed" /\ ~IsSession(s.c)
  <2>1. t = [s EXCEPT !.c.output = 0, !.c.ostate = "closed", !.io.saw = "fail"]
    BY <1>3 DEF chan_write_failed
  <2>. HIDE DEF t
  <2>2. /\ t.c = [s.c EXCEPT !.output = 0, !.ostate = "closed"]
        /\ t.io = [s.io EXCEPT !.saw = "fail"] /\ t.out = s.out /\ t \in States
    BY <1>1, <2>1 DEF States, Chans, Ios
  <2>3. t.c.type = "open" /\ Belongs(z, t.c)
    BY SMTT(60), <1>1, <2>2 DEF Mid, Belongs, Chans, States
  <2>4. Kept(d, t.io)
    BY <1>1, <2>2 DEF Mid, Kept, Ios
  <2>5. LedgerOK(z, a, b)
    BY <1>1, <2>2 DEF Mid, Facts, LedgerOK
  <2>6. ReaderOK(z, t.io, a, b)
    BY <1>1, <2>2 DEF Mid, Facts, ReaderOK, Ios
  <2>7. WriterOK(z, t.io, a, b)
    BY <1>1, <2>2 DEF Mid, Facts, WriterOK, Ios
  <2>8. FlagsOK(t.c, a, b)
    BY <1>1, <2>2 DEF Mid, OpenOK, FlagsOK, Chans
  <2>9. WinOK(z, t.c, a, b)
    BY <1>1, <2>2, WindowIsNat DEF Mid, OpenOK, WinOK, Chans, Places
  <2>10. OutOK(t.c, t.io, a)
    BY <1>1, <2>2 DEF Mid, OpenOK, OutOK, Chans, Ios
  <2>11. InOK(z, t.c, t.io, b)
    BY <1>1, <2>2 DEF Mid, OpenOK, InOK, Chans, Ios
  <2>12. ErrOK(z, t.c, t.io, a, b)
    BY <1>1, <2>2, <1>3 DEF Mid, OpenOK, ErrOK, Chans, Ios, IsSession, Belongs,
       ExecClient, ExecServer
  <2>13. SesOK(z, t.c, t.io, a, b)
    BY <1>1, <2>2 DEF Mid, OpenOK, SesOK, Chans, Ios
  <2>14. Honest(z, t.c, t.io, b)
    BY <1>1, <2>2 DEF Mid, OpenOK, Honest, Complete, Chans, Ios
  <2>15. Mid(z, d, t, a, b)
    BY <1>1, <2>2, <2>3, <2>4, <2>5, <2>6, <2>7, <2>8, <2>9, <2>10, <2>11, <2>12,
       <2>13, <2>14 DEF Mid, OpenOK, Facts
  <2>. QED BY <1>1, <2>15 DEF t
<1>4. CASE s.c.ostate # "closed" /\ IsSession(s.c)
  <2>. DEFINE w == Enqueue(s, "eow", 0)
              b2 == After(b, "eow", 0)
  <2>1. t = [w EXCEPT !.c.output = 0, !.c.ostate = "closed", !.io.saw = "fail"]
    BY <1>4 DEF chan_write_failed
  <2>2. Allowed(Opener(z), SesClient(z), b, "eow")
    BY <1>4 DEF Allowed, Mid, OpenOK, FlagsOK, SesOK
  <2>3. w \in States /\ w.c = s.c /\ w.io = s.io /\ Sent(z, d.out, w.out, b2)
    <3>1. s.c.rid = z.to /\ s.c.g = z.g /\ Sent(z, d.out, s.out, b)
      BY DEF Mid, Belongs
    <3>2. "eow" \in Ops \ {"OPEN", "CONFIRM"} /\ 0 \in Nat
      BY DEF Ops
    <3>. QED BY <1>1, <2>2, <3>1, <3>2, Enqueues
  <2>4. b2 \in Places
    BY <1>1, AfterIsPlace DEF Ops
  <2>5. /\ b2.st = b.st /\ b2.said = b.said \cup {"eow"}
        /\ b2.data = b.data /\ b2.ext = b.ext /\ b2.adj = b.adj
    BY <1>1 DEF After, Adds, Places, Words
  <2>. HIDE DEF t, w, b2
  <2>6. /\ t.c = [s.c EXCEPT !.output = 0, !.ostate = "closed"]
        /\ t.io = [s.io EXCEPT !.saw = "fail"] /\ t.out = w.out /\ t \in States
    BY ZenonT(90), <1>1, <2>1, <2>3 DEF States, Chans, Ios
  <2>7. t.c.type = "open" /\ Belongs(z, t.c)
    BY SMTT(60), <1>1, <2>5, <2>6 DEF Mid, Belongs, Chans, States
  <2>8. Kept(d, t.io)
    BY <1>1, <2>5, <2>6 DEF Mid, Kept, Ios
  <2>9. LedgerOK(z, a, b2)
    BY <1>1, <2>5, <2>6 DEF Mid, Facts, LedgerOK
  <2>10. ReaderOK(z, t.io, a, b2)
    BY <1>1, <2>5, <2>6 DEF Mid, Facts, ReaderOK, Ios
  <2>11. WriterOK(z, t.io, a, b2)
    BY <1>1, <2>5, <2>6 DEF Mid, Facts, WriterOK, Ios
  <2>12. FlagsOK(t.c, a, b2)
    BY <1>1, <2>5, <2>6 DEF Mid, OpenOK, FlagsOK, Chans
  <2>13. WinOK(z, t.c, a, b2)
    BY <1>1, <2>5, <2>6, WindowIsNat DEF Mid, OpenOK, WinOK, Chans, Places
  <2>14. OutOK(t.c, t.io, a)
    BY <1>1, <2>5, <2>6 DEF Mid, OpenOK, OutOK, Chans, Ios
  <2>15. InOK(z, t.c, t.io, b2)
    BY <1>1, <2>5, <2>6 DEF Mid, OpenOK, InOK, Chans, Ios
  <2>16. ErrOK(z, t.c, t.io, a, b2)
    BY <1>1, <2>5, <2>6 DEF Mid, OpenOK, ErrOK, Chans, Ios
  <2>17. SesOK(z, t.c, t.io, a, b2)
    BY <1>1, <2>5, <2>6 DEF Mid, OpenOK, SesOK, Chans, Ios
  <2>18. Honest(z, t.c, t.io, b2)
    BY <1>1, <2>5, <2>6 DEF Mid, OpenOK, Honest, Complete, Chans, Ios
  <2>19. Mid(z, d, t, a, b2)
    BY <1>1, <2>5, <2>6, <2>7, <2>8, <2>9, <2>10, <2>11, <2>12, <2>13, <2>14, <2>15,
       <2>16, <2>17, <2>18, <2>3, <2>4 DEF Mid, OpenOK, Facts
  <2>. QED BY <2>4, <2>19 DEF t
<1>. QED BY <1>2, <1>3, <1>4

\* channel_handle_rfd.
LEMMA HandleRfd ==
  ASSUME NEW z \in Sides, NEW d, NEW s, NEW a, NEW b, Mid(z, d, s, a, b),
         NEW t \in channel_handle_rfd(s)
  PROVE  Mid(z, d, t, a, b)
<1>1. s \in States /\ s.c \in Chans /\ s.io \in Ios /\ a \in Places /\ b \in Places
  BY MidTypes
<1>2. CASE t = s
  BY <1>2
<1>3. CASE t = chan_read_failed(s) /\ s.io.pend = 0 /\ (s.io.shut \/ Forced(s.c))
  BY <1>3, ReadFailed
<1>4. ASSUME Readable(s.c), NEW n \in 1 .. Min2(s.io.pend, RBuf),
             t = [s EXCEPT !.io.pend = @ - n, !.c.input = @ + n]
      PROVE  Mid(z, d, t, a, b)
  <2>1. /\ n \in Nat /\ n <= s.io.pend /\ s.io.pend \in Nat /\ s.c.input \in Nat
        /\ s.io.pend - n \in Nat /\ s.c.input + n \in Nat
    BY <1>1, <1>4, BuffersAreNat DEF Min2, Ios, Chans
  <2>2. /\ t.c = [s.c EXCEPT !.input = s.c.input + n]
        /\ t.io = [s.io EXCEPT !.pend = s.io.pend - n] /\ t.out = s.out /\ t \in States
    <3>1. /\ t.c = [s.c EXCEPT !.input = s.c.input + n]
          /\ t.io = [s.io EXCEPT !.pend = s.io.pend - n] /\ t.out = s.out
      BY <1>1, <1>4, <2>1 DEF States
    <3>2. t.c \in Chans /\ t.io \in Ios /\ t.out \in Seq(Msgs)
      BY <1>1, <1>4, <2>1, <3>1 DEF States, Chans, Ios
    <3>3. t = [c |-> t.c, io |-> t.io, out |-> t.out]
      BY <1>1, <1>4, <2>1 DEF States
    <3>. QED BY <3>1, <3>2, <3>3 DEF States
  <2>3. t.c.type = "open" /\ Belongs(z, t.c)
    BY <1>1, <2>1, <2>2 DEF Mid, Belongs, Chans, States
  <2>4. Kept(d, t.io)
    BY <1>1, <2>1, <2>2 DEF Mid, Kept, Ios
  <2>5. LedgerOK(z, a, b)
    BY <1>1, <2>1, <2>2 DEF Mid, Facts, LedgerOK
  <2>6. ReaderOK(z, t.io, a, b)
    BY <1>1, <2>1, <2>2 DEF Mid, Facts, ReaderOK, Ios
  <2>7. WriterOK(z, t.io, a, b)
    BY <1>1, <2>1, <2>2 DEF Mid, Facts, WriterOK, Ios
  <2>8. FlagsOK(t.c, a, b)
    BY <1>1, <2>1, <2>2 DEF Mid, OpenOK, FlagsOK, Chans
  <2>9. WinOK(z, t.c, a, b)
    BY <1>1, <2>1, <2>2 DEF Mid, OpenOK, WinOK, Chans
  <2>10. OutOK(t.c, t.io, a)
    BY <1>1, <2>1, <2>2 DEF Mid, OpenOK, OutOK, Chans, Ios
  <2>11. InOK(z, t.c, t.io, b)
    BY <1>1, <2>1, <2>2, <1>4 DEF Mid, OpenOK, InOK, Chans, Ios, Readable, Places
  <2>12. ErrOK(z, t.c, t.io, a, b)
    BY <1>1, <2>1, <2>2 DEF Mid, OpenOK, ErrOK, Chans, Ios
  <2>13. SesOK(z, t.c, t.io, a, b)
    BY <1>1, <2>1, <2>2 DEF Mid, OpenOK, SesOK, Chans, Ios
  <2>14. Honest(z, t.c, t.io, b)
    BY <1>1, <2>1, <2>2 DEF Mid, OpenOK, Honest, Complete, Chans, Ios
  <2>15. Mid(z, d, t, a, b)
    BY <1>1, <2>1, <2>2, <2>3, <2>4, <2>5, <2>6, <2>7, <2>8, <2>9, <2>10, <2>11,
       <2>12, <2>13, <2>14 DEF Mid, OpenOK, Facts
  <2>. QED BY <2>15
<1>5. s.io.pend \in Nat
  BY <1>1 DEF Ios
<1>6. CASE ~Readable(s.c)
  BY <1>2, <1>6 DEF channel_handle_rfd
<1>7. CASE Readable(s.c) /\ s.io.pend > 0
  BY <1>2, <1>4, <1>7 DEF channel_handle_rfd
<1>8. CASE Readable(s.c) /\ s.io.pend = 0
  BY <1>2, <1>3, <1>8 DEF channel_handle_rfd
<1>. QED BY <1>5, <1>6, <1>7, <1>8

\* channel_handle_wfd.
LEMMA HandleWfd ==
  ASSUME NEW z \in Sides, NEW d, NEW s, NEW a, NEW b, Mid(z, d, s, a, b),
         NEW t \in channel_handle_wfd(s)
  PROVE  \E b2 \in Places : Mid(z, d, t, a, b2)
<1>1. s \in States /\ s.c \in Chans /\ s.io \in Ios /\ a \in Places /\ b \in Places
  BY MidTypes
<1>2. CASE t = s
  BY <1>1, <1>2
<1>3. CASE t = chan_write_failed(s)
  BY <1>3, WriteFailed
<1>4. ASSUME s.c.ostate # "closed", NEW n \in 1 .. s.c.output,
             t = [s EXCEPT !.c.output = @ - n, !.c.consumed = @ + n, !.io.got = @ + n]
      PROVE  Mid(z, d, t, a, b)
  <2>1. /\ n \in Nat /\ n <= s.c.output /\ s.c.output \in Nat /\ s.c.consumed \in Nat
        /\ s.io.got \in Nat
        /\ s.c.output - n \in Nat /\ s.c.consumed + n \in Nat /\ s.io.got + n \in Nat
    BY <1>1, <1>4 DEF Ios, Chans
  <2>2. /\ t.c = [s.c EXCEPT !.output = s.c.output - n, !.consumed = s.c.consumed + n]
        /\ t.io = [s.io EXCEPT !.got = s.io.got + n] /\ t.out = s.out /\ t \in States
    <3>1. /\ t.c = [s.c EXCEPT !.output = s.c.output - n, !.consumed = s.c.consumed + n]
          /\ t.io = [s.io EXCEPT !.got = s.io.got + n] /\ t.out = s.out
      BY <1>1, <1>4, <2>1 DEF States
    <3>2. t.c \in Chans /\ t.io \in Ios /\ t.out \in Seq(Msgs)
      BY ZenonT(90), <1>1, <1>4, <2>1, <3>1 DEF States, Chans, Ios
    <3>3. t = [c |-> t.c, io |-> t.io, out |-> t.out]
      BY <1>1, <1>4, <2>1 DEF States
    <3>. QED BY <3>1, <3>2, <3>3 DEF States
  <2>3. t.c.type = "open" /\ Belongs(z, t.c)
    BY <1>1, <2>1, <2>2 DEF Mid, Belongs, Chans, States
  <2>4. Kept(d, t.io)
    BY <1>1, <2>1, <2>2 DEF Mid, Kept, Ios
  <2>5. LedgerOK(z, a, b)
    BY <1>1, <2>1, <2>2 DEF Mid, Facts, LedgerOK
  <2>6. ReaderOK(z, t.io, a, b)
    BY <1>1, <2>1, <2>2, <1>4 DEF Mid, Facts, ReaderOK, Ios, OpenOK, OutOK
  <2>7. WriterOK(z, t.io, a, b)
    BY <1>1, <2>1, <2>2 DEF Mid, Facts, WriterOK, Ios
  <2>8. FlagsOK(t.c, a, b)
    BY <1>1, <2>1, <2>2 DEF Mid, OpenOK, FlagsOK, Chans
  <2>9. WinOK(z, t.c, a, b)
    BY <1>1, <2>1, <2>2, WindowIsNat DEF Mid, OpenOK, WinOK, Chans
  <2>10. OutOK(t.c, t.io, a)
    BY <1>1, <2>1, <2>2, <1>4 DEF Mid, OpenOK, OutOK, Chans, Ios, Places
  <2>11. InOK(z, t.c, t.io, b)
    BY <1>1, <2>1, <2>2 DEF Mid, OpenOK, InOK, Chans, Ios
  <2>12. ErrOK(z, t.c, t.io, a, b)
    BY <1>1, <2>1, <2>2 DEF Mid, OpenOK, ErrOK, Chans, Ios
  <2>13. SesOK(z, t.c, t.io, a, b)
    BY <1>1, <2>1, <2>2 DEF Mid, OpenOK, SesOK, Chans, Ios
  <2>14. Honest(z, t.c, t.io, b)
    BY <1>1, <2>1, <2>2 DEF Mid, OpenOK, Honest, Complete, Chans, Ios
  <2>15. Mid(z, d, t, a, b)
    BY <1>1, <2>1, <2>2, <2>3, <2>4, <2>5, <2>6, <2>7, <2>8, <2>9, <2>10, <2>11,
       <2>12, <2>13, <2>14 DEF Mid, OpenOK, Facts
  <2>. QED BY <2>15
<1>. QED BY <1>1, <1>2, <1>3, <1>4 DEF channel_handle_wfd

\* channel_handle_efd_write.
LEMMA HandleEfdWrite ==
  ASSUME NEW z \in Sides, NEW d, NEW s, NEW a, NEW b, Mid(z, d, s, a, b),
         Usage(s.c) = "write", NEW t \in channel_handle_efd_write(s)
  PROVE  Mid(z, d, t, a, b)
<1>1. s \in States /\ s.c \in Chans /\ s.io \in Ios /\ a \in Places /\ b \in Places
  BY MidTypes
<1>2. SesClient(z)
  BY DEF Usage, IsSession, SesClient, Mid, Belongs
<1>3. CASE t = s
  BY <1>3
<1>4. CASE s.io.egone /\ t = [s EXCEPT !.c.efd = FALSE]
  <2>2. t.c = [s.c EXCEPT !.efd = FALSE] /\ t.io = s.io /\ t.out = s.out /\ t \in States
    BY <1>1, <1>4 DEF States, Chans
  <2>3. t.c.type = "open" /\ Belongs(z, t.c)
    BY <1>1, <2>2 DEF Mid, Belongs, Chans, States
  <2>4. Kept(d, t.io)
    BY <1>1, <2>2 DEF Mid, Kept, Ios
  <2>5. LedgerOK(z, a, b)
    BY <1>1, <2>2 DEF Mid, Facts, LedgerOK
  <2>6. ReaderOK(z, t.io, a, b)
    BY <1>1, <2>2 DEF Mid, Facts, ReaderOK, Ios
  <2>7. WriterOK(z, t.io, a, b)
    BY <1>1, <2>2 DEF Mid, Facts, WriterOK, Ios
  <2>8. FlagsOK(t.c, a, b)
    BY <1>1, <2>2 DEF Mid, OpenOK, FlagsOK, Chans
  <2>9. WinOK(z, t.c, a, b)
    BY <1>1, <2>2, <1>2 DEF Mid, OpenOK, WinOK, Chans
  <2>10. OutOK(t.c, t.io, a)
    BY <1>1, <2>2 DEF Mid, OpenOK, OutOK, Chans, Ios
  <2>11. InOK(z, t.c, t.io, b)
    BY <1>1, <2>2 DEF Mid, OpenOK, InOK, Chans, Ios
  <2>12. ErrOK(z, t.c, t.io, a, b)
    BY <1>1, <2>2, <1>2, <1>4 DEF Mid, OpenOK, ErrOK, Chans, Ios, SesClient, ExecServer
  <2>13. SesOK(z, t.c, t.io, a, b)
    BY <1>1, <2>2 DEF Mid, OpenOK, SesOK, Chans, Ios
  <2>14. Honest(z, t.c, t.io, b)
    BY <1>1, <2>2 DEF Mid, OpenOK, Honest, Complete, Chans, Ios
  <2>15. Mid(z, d, t, a, b)
    BY <1>1, <2>2, <2>3, <2>4, <2>5, <2>6, <2>7, <2>8, <2>9, <2>10, <2>11, <2>12,
       <2>13, <2>14 DEF Mid, OpenOK, Facts
  <2>. QED BY <2>15
<1>5. ASSUME s.c.efd, NEW n \in 1 .. s.c.extended,
             t = [s EXCEPT !.c.extended = @ - n, !.c.consumed = @ + n, !.io.egot = @ + n]
      PROVE  Mid(z, d, t, a, b)
  <2>1. /\ n \in Nat /\ n > 0 /\ n <= s.c.extended /\ s.c.extended \in Nat /\ s.c.consumed \in Nat
        /\ s.io.egot \in Nat
        /\ s.c.extended - n \in Nat /\ s.c.consumed + n \in Nat /\ s.io.egot + n \in Nat
    BY <1>1, <1>5 DEF Ios, Chans
  <2>2. /\ t.c = [s.c EXCEPT !.extended = s.c.extended - n, !.consumed = s.c.consumed + n]
        /\ t.io = [s.io EXCEPT !.egot = s.io.egot + n] /\ t.out = s.out /\ t \in States
    <3>1. /\ t.c = [s.c EXCEPT !.extended = s.c.extended - n, !.consumed = s.c.consumed + n]
          /\ t.io = [s.io EXCEPT !.egot = s.io.egot + n] /\ t.out = s.out
      BY <1>1, <1>5, <2>1 DEF States
    <3>2. t.c \in Chans /\ t.io \in Ios /\ t.out \in Seq(Msgs)
      BY ZenonT(90), <1>1, <1>5, <2>1, <3>1 DEF States, Chans, Ios
    <3>3. t = [c |-> t.c, io |-> t.io, out |-> t.out]
      BY <1>1, <1>5, <2>1 DEF States
    <3>. QED BY <3>1, <3>2, <3>3 DEF States
  <2>3. t.c.type = "open" /\ Belongs(z, t.c)
    BY <1>1, <2>1, <2>2 DEF Mid, Belongs, Chans, States
  <2>4. Kept(d, t.io)
    BY <1>1, <2>1, <2>2 DEF Mid, Kept, Ios
  <2>5. LedgerOK(z, a, b)
    BY <1>1, <2>1, <2>2 DEF Mid, Facts, LedgerOK
  <2>6. ReaderOK(z, t.io, a, b)
    BY <1>1, <2>1, <2>2, <1>5 DEF Mid, Facts, ReaderOK, Ios, OpenOK, ErrOK
  <2>7. WriterOK(z, t.io, a, b)
    BY <1>1, <2>1, <2>2 DEF Mid, Facts, WriterOK, Ios
  <2>8. FlagsOK(t.c, a, b)
    BY <1>1, <2>1, <2>2 DEF Mid, OpenOK, FlagsOK, Chans
  <2>9. WinOK(z, t.c, a, b)
    BY <1>1, <2>1, <2>2, <1>2, WindowIsNat DEF Mid, OpenOK, WinOK, Chans
  <2>10. OutOK(t.c, t.io, a)
    BY <1>1, <2>1, <2>2 DEF Mid, OpenOK, OutOK, Chans, Ios
  <2>11. InOK(z, t.c, t.io, b)
    BY <1>1, <2>1, <2>2 DEF Mid, OpenOK, InOK, Chans, Ios
  <2>12. ErrOK(z, t.c, t.io, a, b)
    BY <1>1, <2>1, <2>2, <1>2, <1>5 DEF Mid, OpenOK, ErrOK, Chans, Ios, Places,
       SesClient, ExecServer
  <2>13. SesOK(z, t.c, t.io, a, b)
    BY <1>1, <2>1, <2>2 DEF Mid, OpenOK, SesOK, Chans, Ios
  <2>14. Honest(z, t.c, t.io, b)
    BY <1>1, <2>1, <2>2 DEF Mid, OpenOK, Honest, Complete, Chans, Ios
  <2>15. Mid(z, d, t, a, b)
    BY <1>1, <2>1, <2>2, <2>3, <2>4, <2>5, <2>6, <2>7, <2>8, <2>9, <2>10, <2>11,
       <2>12, <2>13, <2>14 DEF Mid, OpenOK, Facts
  <2>. QED BY <2>15
<1>. QED BY <1>1, <1>3, <1>4, <1>5 DEF channel_handle_efd_write

\* channel_handle_efd_read.
LEMMA HandleEfdRead ==
  ASSUME NEW z \in Sides, NEW d, NEW s, NEW a, NEW b, Mid(z, d, s, a, b),
         Usage(s.c) = "read", NEW t \in channel_handle_efd_read(s)
  PROVE  Mid(z, d, t, a, b)
<1>1. s \in States /\ s.c \in Chans /\ s.io \in Ios /\ a \in Places /\ b \in Places
  BY MidTypes
<1>2. ExecServer(z) /\ SesServer(z) /\ ~SesClient(z) /\ ~ExecClient(z)
  BY DEF Usage, IsSession, SesClient, SesServer, ExecServer, ExecClient, Mid, Belongs
<1>3. CASE t = s
  BY <1>3
<1>4. CASE /\ s.io.epend = 0 /\ (s.io.eshut \/ s.c.detach = "close")
           /\ t = [s EXCEPT !.c.efd = FALSE]
  <2>2. t.c = [s.c EXCEPT !.efd = FALSE] /\ t.io = s.io /\ t.out = s.out /\ t \in States
    BY <1>1, <1>4 DEF States, Chans
  <2>3. t.c.type = "open" /\ Belongs(z, t.c)
    BY <1>1, <2>2 DEF Mid, Belongs, Chans, States
  <2>4. Kept(d, t.io)
    BY <1>1, <2>2 DEF Mid, Kept, Ios
  <2>5. LedgerOK(z, a, b)
    BY <1>1, <2>2 DEF Mid, Facts, LedgerOK
  <2>6. ReaderOK(z, t.io, a, b)
    BY <1>1, <2>2 DEF Mid, Facts, ReaderOK, Ios
  <2>7. WriterOK(z, t.io, a, b)
    BY <1>1, <2>2 DEF Mid, Facts, WriterOK, Ios
  <2>8. FlagsOK(t.c, a, b)
    BY <1>1, <2>2 DEF Mid, OpenOK, FlagsOK, Chans
  <2>9. WinOK(z, t.c, a, b)
    BY <1>1, <2>2, <1>2 DEF Mid, OpenOK, WinOK, Chans
  <2>10. OutOK(t.c, t.io, a)
    BY <1>1, <2>2 DEF Mid, OpenOK, OutOK, Chans, Ios
  <2>11. InOK(z, t.c, t.io, b)
    BY <1>1, <2>2 DEF Mid, OpenOK, InOK, Chans, Ios
  <2>12. ErrOK(z, t.c, t.io, a, b)
    <3>1. /\ s.io.emade \in Nat /\ s.io.elast \in Nat /\ s.c.extended \in Nat /\ b.ext \in Nat
          /\ s.io.elast <= s.io.emade /\ s.io.emade = s.io.epend + s.c.extended + b.ext
      BY <1>2 DEF Mid, OpenOK, ErrOK, States, Chans, Ios, Places, Facts, WriterOK
    <3>2. s.c.detach = "close" => s.io.child = "reaped"
      BY <1>2 DEF Mid, OpenOK, SesOK
    <3>3. t.c.extended = s.c.extended
      BY <1>1, <2>2 DEF Chans
    <3>. QED BY <1>2, <1>4, <3>1, <3>2, <3>3, <2>2 DEF ErrOK
  <2>13. SesOK(z, t.c, t.io, a, b)
    BY <1>1, <2>2 DEF Mid, OpenOK, SesOK, Chans, Ios
  <2>14. Honest(z, t.c, t.io, b)
    BY <1>1, <2>2 DEF Mid, OpenOK, Honest, Complete, Chans, Ios
  <2>15. Mid(z, d, t, a, b)
    BY <1>1, <2>2, <2>3, <2>4, <2>5, <2>6, <2>7, <2>8, <2>9, <2>10, <2>11, <2>12,
       <2>13, <2>14 DEF Mid, OpenOK, Facts
  <2>. QED BY <2>15
<1>5. ASSUME s.c.efd, NEW n \in 1 .. Min2(s.io.epend, RBuf),
             t = [s EXCEPT !.io.epend = @ - n, !.c.extended = @ + n]
      PROVE  Mid(z, d, t, a, b)
  <2>1. /\ n \in Nat /\ n <= s.io.epend /\ s.c.extended \in Nat /\ s.io.epend \in Nat
        /\ s.io.epend - n \in Nat /\ s.c.extended + n \in Nat
    BY <1>1, <1>5, BuffersAreNat DEF Min2, Ios, Chans
  <2>2. /\ t.c = [s.c EXCEPT !.extended = s.c.extended + n]
        /\ t.io = [s.io EXCEPT !.epend = s.io.epend - n] /\ t.out = s.out /\ t \in States
    <3>1. /\ t.c = [s.c EXCEPT !.extended = s.c.extended + n]
          /\ t.io = [s.io EXCEPT !.epend = s.io.epend - n] /\ t.out = s.out
      BY <1>1, <1>5, <2>1 DEF States
    <3>2. t.c \in Chans /\ t.io \in Ios /\ t.out \in Seq(Msgs)
      BY <1>1, <1>5, <2>1, <3>1 DEF States, Chans, Ios
    <3>3. t = [c |-> t.c, io |-> t.io, out |-> t.out]
      BY <1>1, <1>5, <2>1 DEF States
    <3>. QED BY <3>1, <3>2, <3>3 DEF States
  <2>3. t.c.type = "open" /\ Belongs(z, t.c)
    BY <1>1, <2>1, <2>2 DEF Mid, Belongs, Chans, States
  <2>4. Kept(d, t.io)
    BY <1>1, <2>1, <2>2 DEF Mid, Kept, Ios
  <2>5. LedgerOK(z, a, b)
    BY <1>1, <2>1, <2>2 DEF Mid, Facts, LedgerOK
  <2>6. ReaderOK(z, t.io, a, b)
    BY <1>1, <2>1, <2>2 DEF Mid, Facts, ReaderOK, Ios
  <2>7. WriterOK(z, t.io, a, b)
    BY <1>1, <2>1, <2>2 DEF Mid, Facts, WriterOK, Ios
  <2>8. FlagsOK(t.c, a, b)
    BY <1>1, <2>1, <2>2 DEF Mid, OpenOK, FlagsOK, Chans
  <2>9. WinOK(z, t.c, a, b)
    BY <1>1, <2>1, <2>2, <1>2 DEF Mid, OpenOK, WinOK, Chans
  <2>10. OutOK(t.c, t.io, a)
    BY <1>1, <2>1, <2>2 DEF Mid, OpenOK, OutOK, Chans, Ios
  <2>11. InOK(z, t.c, t.io, b)
    BY <1>1, <2>1, <2>2 DEF Mid, OpenOK, InOK, Chans, Ios
  <2>12. ErrOK(z, t.c, t.io, a, b)
    BY <1>1, <2>1, <2>2, <1>2, <1>5 DEF Mid, OpenOK, ErrOK, Chans, Ios, Places
  <2>13. SesOK(z, t.c, t.io, a, b)
    BY <1>1, <2>1, <2>2 DEF Mid, OpenOK, SesOK, Chans, Ios
  <2>14. Honest(z, t.c, t.io, b)
    BY <1>1, <2>1, <2>2 DEF Mid, OpenOK, Honest, Complete, Chans, Ios
  <2>15. Mid(z, d, t, a, b)
    BY <1>1, <2>1, <2>2, <2>3, <2>4, <2>5, <2>6, <2>7, <2>8, <2>9, <2>10, <2>11,
       <2>12, <2>13, <2>14 DEF Mid, OpenOK, Facts
  <2>. QED BY <2>15
<1>6. s.io.epend \in Nat
  BY <1>1 DEF Ios
<1>7. CASE ~EfdReadable(s.c)
  BY <1>3, <1>7 DEF channel_handle_efd_read
<1>8. CASE EfdReadable(s.c) /\ s.io.epend > 0
  <2>1. s.c.efd
    BY <1>8 DEF EfdReadable
  <2>. QED BY <1>3, <1>5, <1>8, <2>1 DEF channel_handle_efd_read
<1>9. CASE EfdReadable(s.c) /\ s.io.epend = 0
  BY <1>3, <1>4, <1>9 DEF channel_handle_efd_read
<1>. QED BY <1>6, <1>7, <1>8, <1>9

\* channel_handle_efd, whichever way the descriptor is used.
LEMMA HandleEfd ==
  ASSUME NEW z \in Sides, NEW d, NEW s, NEW a, NEW b, Mid(z, d, s, a, b),
         NEW t \in channel_handle_efd(s)
  PROVE  Mid(z, d, t, a, b)
<1>1. Usage(s.c) \in {"write", "read", "none"}
  BY DEF Usage
<1>. QED BY <1>1, HandleEfdWrite, HandleEfdRead DEF channel_handle_efd

\* channel_check_window.
LEMMA CheckWindow ==
  ASSUME NEW z \in Sides, NEW d, NEW s, NEW a, NEW b, Mid(z, d, s, a, b)
  PROVE  \E b2 \in Places : Mid(z, d, channel_check_window(s), a, b2)
<1>. DEFINE t == channel_check_window(s)
            due == /\ s.c.flags \cap {"CLOSE_SENT", "CLOSE_RCVD"} = {}
                   /\ WindowLow(s.c) /\ s.c.consumed > 0
<1>1. s \in States /\ s.c \in Chans /\ s.io \in Ios /\ a \in Places /\ b \in Places
  BY MidTypes
<1>2. CASE ~due
  BY <1>1, <1>2 DEF channel_check_window
<1>3. CASE due
  <2>. DEFINE n == s.c.consumed
              w == Enqueue(s, "ADJUST", n)
              b2 == After(b, "ADJUST", n)
  <2>1. t = [w EXCEPT !.c.lwin = @ + n, !.c.consumed = 0]
    BY <1>3 DEF channel_check_window
  <2>0. n \in Nat /\ s.c.lwin \in Nat /\ s.c.lwin + n \in Nat
    BY <1>1 DEF Chans
  <2>2. Allowed(Opener(z), SesClient(z), b, "ADJUST")
    BY <1>3, <2>0 DEF Allowed, Mid, OpenOK, FlagsOK, SesOK
  <2>3. w \in States /\ w.c = s.c /\ w.io = s.io /\ Sent(z, d.out, w.out, b2)
    <3>1. s.c.rid = z.to /\ s.c.g = z.g /\ Sent(z, d.out, s.out, b)
      BY DEF Mid, Belongs
    <3>2. "ADJUST" \in Ops \ {"OPEN", "CONFIRM"}
      BY DEF Ops
    <3>. QED BY <1>3, <2>0, <1>1, <2>2, <3>1, <3>2, Enqueues
  <2>4. b2 \in Places
    BY <1>3, <2>0, <1>1, AfterIsPlace DEF Ops
  <2>5. /\ b2.st = b.st /\ b2.said = b.said /\ b2.data = b.data /\ b2.ext = b.ext
        /\ b2.adj = b.adj + n
    BY <1>1 DEF After, Adds, Places, Words
  <2>. HIDE DEF t, w, b2, due
  <2>6. /\ t.c = [s.c EXCEPT !.lwin = s.c.lwin + n, !.consumed = 0]
        /\ t.io = s.io /\ t.out = w.out /\ t \in States
    <3>1. /\ t.c = [s.c EXCEPT !.lwin = s.c.lwin + n, !.consumed = 0]
          /\ t.io = s.io /\ t.out = w.out
      BY <1>1, <2>0, <2>1, <2>3 DEF States
    <3>2. t.c \in Chans /\ t.io \in Ios /\ t.out \in Seq(Msgs)
      BY <1>1, <2>0, <2>1, <2>3, <3>1 DEF States, Chans, Ios
    <3>3. t = [c |-> t.c, io |-> t.io, out |-> t.out]
      BY <1>1, <2>0, <2>1, <2>3 DEF States
    <3>. QED BY <3>1, <3>2, <3>3 DEF States
  <2>7. t.c.type = "open" /\ Belongs(z, t.c)
    BY <1>1, <2>0, <2>5, <2>6 DEF Mid, Belongs, Chans, States
  <2>8. Kept(d, t.io)
    BY <1>1, <2>0, <2>5, <2>6 DEF Mid, Kept, Ios
  <2>9. LedgerOK(z, a, b2)
    BY <1>1, <2>0, <2>5, <2>6, WindowIsNat DEF Mid, Facts, LedgerOK, OpenOK, WinOK,
       Places, Chans
  <2>10. ReaderOK(z, t.io, a, b2)
    BY <1>1, <2>0, <2>5, <2>6 DEF Mid, Facts, ReaderOK, Ios
  <2>11. WriterOK(z, t.io, a, b2)
    BY <1>1, <2>0, <2>5, <2>6 DEF Mid, Facts, WriterOK, Ios
  <2>12. FlagsOK(t.c, a, b2)
    BY <1>1, <2>0, <2>5, <2>6 DEF Mid, OpenOK, FlagsOK, Chans
  <2>13. WinOK(z, t.c, a, b2)
    BY <1>1, <2>0, <2>5, <2>6, WindowIsNat DEF Mid, OpenOK, WinOK, Chans, Places
  <2>14. OutOK(t.c, t.io, a)
    BY <1>1, <2>0, <2>5, <2>6 DEF Mid, OpenOK, OutOK, Chans, Ios
  <2>15. InOK(z, t.c, t.io, b2)
    BY <1>1, <2>0, <2>5, <2>6 DEF Mid, OpenOK, InOK, Chans, Ios
  <2>16. ErrOK(z, t.c, t.io, a, b2)
    BY <1>1, <2>0, <2>5, <2>6 DEF Mid, OpenOK, ErrOK, Chans, Ios
  <2>17. SesOK(z, t.c, t.io, a, b2)
    BY <1>1, <2>0, <2>5, <2>6 DEF Mid, OpenOK, SesOK, Chans, Ios
  <2>18. Honest(z, t.c, t.io, b2)
    BY <1>1, <2>0, <2>5, <2>6 DEF Mid, OpenOK, Honest, Complete, Chans, Ios
  <2>19. Mid(z, d, t, a, b2)
    BY <1>1, <2>0, <2>5, <2>6, <2>7, <2>8, <2>9, <2>10, <2>11, <2>12, <2>13, <2>14,
       <2>15, <2>16, <2>17, <2>18, <2>3, <2>4 DEF Mid, OpenOK, Facts
  <2>. QED BY <2>4, <2>19 DEF t
<1>. QED BY <1>2, <1>3

\* channel_pre_open.
LEMMA PreOpen ==
  ASSUME NEW z \in Sides, NEW d, NEW s, NEW a, NEW b, Mid(z, d, s, a, b)
  PROVE  Mid(z, d, channel_pre_open(s), a, b)
  BY ObufEmpty DEF channel_pre_open

\* chan_ibuf_empty, called when everything that was read is sent.
LEMMA IbufEmpty ==
  ASSUME NEW z \in Sides, NEW d, NEW s, NEW a, NEW b, Mid(z, d, s, a, b),
         s.c.istate = "drain", s.c.input = 0, ~EfdInputActive(s.c),
         s.c.flags \cap {"CLOSE_SENT", "CLOSE_RCVD"} = {}
  PROVE  /\ \E b2 \in Places : Mid(z, d, chan_ibuf_empty(s), a, b2)
         /\ chan_ibuf_empty(s).c.flags \cap {"CLOSE_SENT", "CLOSE_RCVD"} = {}
<1>. DEFINE t == chan_ibuf_empty(s)
            w == Enqueue(s, "EOF", 0)
            b2 == After(b, "EOF", 0)
<1>1. s \in States /\ s.c \in Chans /\ s.io \in Ios /\ a \in Places /\ b \in Places
  BY MidTypes
<1>2. t = [[w EXCEPT !.c.flags = @ \cup {"EOF_SENT"}] EXCEPT !.c.istate = "closed"]
  BY DEF chan_ibuf_empty, chan_send_eof2, Flag
<1>3. Allowed(Opener(z), SesClient(z), b, "EOF")
  BY DEF Allowed, Mid, OpenOK, FlagsOK, SesOK
<1>4. w \in States /\ w.c = s.c /\ w.io = s.io /\ Sent(z, d.out, w.out, b2)
  <2>1. s.c.rid = z.to /\ s.c.g = z.g /\ Sent(z, d.out, s.out, b)
    BY DEF Mid, Belongs
  <2>2. "EOF" \in Ops \ {"OPEN", "CONFIRM"}
    BY DEF Ops
  <2>. QED BY <1>1, <1>3, <2>1, <2>2, Enqueues
<1>5. b2 \in Places
  BY <1>1, AfterIsPlace DEF Ops
<1>6. /\ b2.st = b.st /\ b2.said = b.said \cup {"EOF"}
      /\ b2.data = b.data /\ b2.ext = b.ext /\ b2.adj = b.adj
  BY <1>1 DEF After, Adds, Places, Words
<1>. HIDE DEF t, w, b2
<1>0. s.c.flags \cup {"EOF_SENT"} \in SUBSET Flags
  BY <1>1 DEF Chans, Flags
<1>7. /\ t.c = [s.c EXCEPT !.flags = s.c.flags \cup {"EOF_SENT"}, !.istate = "closed"] /\ t.io = s.io
      /\ t.out = w.out /\ t \in States
  <2>1. t.c = [s.c EXCEPT !.flags = s.c.flags \cup {"EOF_SENT"}, !.istate = "closed"] /\ t.io = s.io /\ t.out = w.out
    BY <1>0, <1>1, <1>2, <1>4 DEF States
  <2>2. t.c \in Chans /\ t.io \in Ios /\ t.out \in Seq(Msgs)
    BY <1>0, <1>1, <1>2, <1>4, <2>1 DEF States, Chans, Ios
  <2>3. t = [c |-> t.c, io |-> t.io, out |-> t.out]
    BY <1>0, <1>1, <1>2, <1>4 DEF States
  <2>. QED BY <2>1, <2>2, <2>3 DEF States
<1>8. t.c.type = "open" /\ Belongs(z, t.c)
  BY SMTT(60), <1>1, <1>6, <1>7 DEF Mid, Belongs, Chans, States
<1>9. Kept(d, t.io)
  BY <1>1, <1>6, <1>7 DEF Mid, Kept, Ios
<1>10. LedgerOK(z, a, b2)
  BY <1>1, <1>6, <1>7 DEF Mid, Facts, LedgerOK
<1>11. ReaderOK(z, t.io, a, b2)
  BY <1>1, <1>6, <1>7 DEF Mid, Facts, ReaderOK, Ios
<1>12. WriterOK(z, t.io, a, b2)
  BY <1>1, <1>6, <1>7 DEF Mid, Facts, WriterOK, Ios
<1>13. FlagsOK(t.c, a, b2)
  BY <1>1, <1>6, <1>7 DEF Mid, OpenOK, FlagsOK, Chans
<1>14. WinOK(z, t.c, a, b2)
  BY <1>1, <1>6, <1>7 DEF Mid, OpenOK, WinOK, Chans
<1>15. OutOK(t.c, t.io, a)
  BY <1>1, <1>6, <1>7 DEF Mid, OpenOK, OutOK, Chans, Ios
<1>16. InOK(z, t.c, t.io, b2)
  BY <1>1, <1>6, <1>7 DEF Mid, OpenOK, InOK, Chans, Ios
<1>17. ErrOK(z, t.c, t.io, a, b2)
  BY <1>1, <1>6, <1>7 DEF Mid, OpenOK, ErrOK, Chans, Ios
<1>18. SesOK(z, t.c, t.io, a, b2)
  BY <1>1, <1>6, <1>7 DEF Mid, OpenOK, SesOK, Chans, Ios
<1>19. Honest(z, t.c, t.io, b2)
  <2>1. /\ s.io.made \in Nat /\ s.io.last \in Nat /\ s.io.emade \in Nat /\ s.io.elast \in Nat
        /\ s.c.extended \in Nat /\ b.data \in Nat /\ b.ext \in Nat
        /\ s.io.made = s.io.pend + s.c.input + b.data /\ s.c.input = 0
        /\ \/ s.io.shut /\ s.io.pend = 0
           \/ z.kind = "tty" /\ s.io.child = "reaped" /\ s.c.input + b.data >= s.io.last
    BY <1>1 DEF Mid, OpenOK, InOK, Chans, Ios, Places
  <2>2. ExecServer(z) => /\ ~s.c.efd /\ s.c.extended = 0 /\ a.st # "closed"
                         /\ s.io.emade = s.io.epend + s.c.extended + b.ext
                         /\ \/ s.io.eshut /\ s.io.epend = 0
                            \/ s.io.child = "reaped" /\ s.c.extended + b.ext >= s.io.elast
    BY <2>1 DEF Mid, OpenOK, ErrOK, FlagsOK, EfdInputActive, Usage, IsSession, ExecServer, Belongs
  <2>3. \/ s.io.shut /\ b.data = s.io.made
        \/ z.kind = "tty" /\ s.io.child = "reaped" /\ b.data >= s.io.last
    BY <2>1
  <2>4. ExecServer(z) => \/ s.io.eshut /\ b.ext = s.io.emade
                         \/ s.io.child = "reaped" /\ b.ext >= s.io.elast
    BY <2>1, <2>2
  <2>5. Complete(z, t.io, b2)
    BY <1>6, <1>7, <2>3, <2>4 DEF Complete
  <2>6. b2.st # "closed"
    BY <1>6 DEF Mid, OpenOK, FlagsOK
  <2>. QED BY <1>6, <2>5, <2>6 DEF Honest
<1>20. Mid(z, d, t, a, b2)
  BY <1>1, <1>6, <1>7, <1>8, <1>9, <1>10, <1>11, <1>12, <1>13, <1>14, <1>15, <1>16,
     <1>17, <1>18, <1>19, <1>4, <1>5 DEF Mid, OpenOK, Facts
<1>21. t.c.flags \cap {"CLOSE_SENT", "CLOSE_RCVD"} = {}
  BY <1>1, <1>7 DEF Chans
<1>. QED BY <1>5, <1>20, <1>21 DEF t

\* channel_output_poll takes no more than the buffer, the window and a packet hold.
LEMMA FitsBounds ==
  ASSUME NEW c \in Chans, NEW n \in Nat
  PROVE  Fits(c, n) \in Nat /\ Fits(c, n) <= n /\ Fits(c, n) <= c.rwin
  BY BuffersAreNat DEF Fits, Min2, Chans

\* channel_output_poll_input_open.
LEMMA PollInput ==
  ASSUME NEW z \in Sides, NEW d, NEW s, NEW a, NEW b, Mid(z, d, s, a, b),
         s.c.istate \in {"open", "drain"}, s.c.flags \cap {"CLOSE_SENT", "CLOSE_RCVD"} = {}
  PROVE  /\ \E b2 \in Places : Mid(z, d, channel_output_poll_input_open(s), a, b2)
         /\ channel_output_poll_input_open(s).c.flags \cap {"CLOSE_SENT", "CLOSE_RCVD"} = {}
<1>. DEFINE t == channel_output_poll_input_open(s)
            n == Fits(s.c, s.c.input)
<1>1. s \in States /\ s.c \in Chans /\ s.io \in Ios /\ a \in Places /\ b \in Places
  BY MidTypes
<1>2. n \in Nat /\ n <= s.c.input /\ n <= s.c.rwin /\ s.c.input \in Nat /\ s.c.rwin \in Nat
      /\ s.c.input - n \in Nat /\ s.c.rwin - n \in Nat
  <2>1. s.c.input \in Nat /\ s.c.rwin \in Nat
    BY <1>1 DEF Chans
  <2>2. n \in Nat /\ n <= s.c.input /\ n <= s.c.rwin
    BY <1>1, <2>1, FitsBounds
  <2>. HIDE DEF n
  <2>. QED BY <2>1, <2>2
<1>. HIDE DEF n
<1>3. CASE s.c.input = 0
  BY <1>1, <1>3, IbufEmpty DEF channel_output_poll_input_open
<1>4. CASE s.c.input # 0 /\ n = 0
  BY <1>1, <1>4 DEF channel_output_poll_input_open, n
<1>5. CASE s.c.input # 0 /\ n # 0
  <2>. DEFINE w == Enqueue(s, "DATA", n)
              b2 == After(b, "DATA", n)
  <2>1. t = [w EXCEPT !.c.input = @ - n, !.c.rwin = @ - n]
    BY <1>5 DEF channel_output_poll_input_open, n
  <2>2. Allowed(Opener(z), SesClient(z), b, "DATA")
    BY <1>2 DEF Allowed, Mid, OpenOK, FlagsOK, SesOK
  <2>3. w \in States /\ w.c = s.c /\ w.io = s.io /\ Sent(z, d.out, w.out, b2)
    <3>1. s.c.rid = z.to /\ s.c.g = z.g /\ Sent(z, d.out, s.out, b)
      BY DEF Mid, Belongs
    <3>2. "DATA" \in Ops \ {"OPEN", "CONFIRM"}
      BY DEF Ops
    <3>. QED BY <1>2, <1>1, <2>2, <3>1, <3>2, Enqueues
  <2>4. b2 \in Places
    BY <1>2, <1>1, AfterIsPlace DEF Ops
  <2>5. /\ b2.st = b.st /\ b2.said = b.said /\ b2.data = b.data + n /\ b2.ext = b.ext
        /\ b2.adj = b.adj
    BY <1>1 DEF After, Adds, Places, Words
  <2>. HIDE DEF t, w, b2
  <2>6. /\ t.c = [s.c EXCEPT !.input = s.c.input - n, !.rwin = s.c.rwin - n] /\ t.io = s.io
        /\ t.out = w.out /\ t \in States
    <3>1. t.c = [s.c EXCEPT !.input = s.c.input - n, !.rwin = s.c.rwin - n] /\ t.io = s.io /\ t.out = w.out
      BY <1>1, <1>2, <2>1, <2>3 DEF States
    <3>2. t.c \in Chans /\ t.io \in Ios /\ t.out \in Seq(Msgs)
      BY <1>1, <1>2, <2>1, <2>3, <3>1 DEF States, Chans, Ios
    <3>3. t = [c |-> t.c, io |-> t.io, out |-> t.out]
      BY <1>1, <1>2, <2>1, <2>3 DEF States
    <3>. QED BY <3>1, <3>2, <3>3 DEF States
  <2>7. t.c.type = "open" /\ Belongs(z, t.c)
    BY <1>1, <1>2, <2>5, <2>6 DEF Mid, Belongs, Chans, States
  <2>8. Kept(d, t.io)
    BY <1>1, <1>2, <2>5, <2>6 DEF Mid, Kept, Ios
  <2>9. LedgerOK(z, a, b2)
    BY <1>1, <1>2, <2>5, <2>6, WindowIsNat DEF Mid, Facts, LedgerOK, OpenOK, WinOK,
       Places, Chans
  <2>10. ReaderOK(z, t.io, a, b2)
    BY <1>1, <1>2, <2>5, <2>6 DEF Mid, Facts, ReaderOK, Ios
  <2>11. WriterOK(z, t.io, a, b2)
    BY <1>1, <1>2, <2>5, <2>6 DEF Mid, Facts, WriterOK, Ios
  <2>12. FlagsOK(t.c, a, b2)
    BY <1>1, <1>2, <2>5, <2>6 DEF Mid, OpenOK, FlagsOK, Chans
  <2>13. WinOK(z, t.c, a, b2)
    BY <1>1, <1>2, <2>5, <2>6, WindowIsNat DEF Mid, OpenOK, WinOK, Chans, Places
  <2>14. OutOK(t.c, t.io, a)
    BY <1>1, <1>2, <2>5, <2>6 DEF Mid, OpenOK, OutOK, Chans, Ios
  <2>15. InOK(z, t.c, t.io, b2)
    BY <1>1, <1>2, <2>5, <2>6 DEF Mid, OpenOK, InOK, Chans, Ios, Places
  <2>16. ErrOK(z, t.c, t.io, a, b2)
    BY <1>1, <1>2, <2>5, <2>6 DEF Mid, OpenOK, ErrOK, Chans, Ios
  <2>17. SesOK(z, t.c, t.io, a, b2)
    BY <1>1, <1>2, <2>5, <2>6 DEF Mid, OpenOK, SesOK, Chans, Ios
  <2>18. Honest(z, t.c, t.io, b2)
    BY <1>1, <1>2, <2>5, <2>6 DEF Mid, OpenOK, Honest, Complete, Chans, Ios, FlagsOK
  <2>19. Mid(z, d, t, a, b2)
    BY <1>1, <1>2, <2>5, <2>6, <2>7, <2>8, <2>9, <2>10, <2>11, <2>12, <2>13, <2>14,
       <2>15, <2>16, <2>17, <2>18, <2>3, <2>4 DEF Mid, OpenOK, Facts
  <2>20. t.c.flags \cap {"CLOSE_SENT", "CLOSE_RCVD"} = {}
    BY <1>1, <2>6 DEF Chans
  <2>. QED BY <2>4, <2>19, <2>20 DEF t
<1>. QED BY <1>3, <1>4, <1>5

\* channel_output_poll_extended_read.
LEMMA PollExtended ==
  ASSUME NEW z \in Sides, NEW d, NEW s, NEW a, NEW b, Mid(z, d, s, a, b),
         Usage(s.c) = "read", "EOF_SENT" \notin s.c.flags,
         s.c.flags \cap {"CLOSE_SENT", "CLOSE_RCVD"} = {}
  PROVE  \E b2 \in Places : Mid(z, d, channel_output_poll_extended_read(s), a, b2)
<1>. DEFINE t == channel_output_poll_extended_read(s)
            n == Fits(s.c, s.c.extended)
<1>1. s \in States /\ s.c \in Chans /\ s.io \in Ios /\ a \in Places /\ b \in Places
  BY MidTypes
<1>2. n \in Nat /\ n <= s.c.extended /\ n <= s.c.rwin /\ s.c.extended \in Nat /\ s.c.rwin \in Nat
      /\ s.c.extended - n \in Nat /\ s.c.rwin - n \in Nat
  <2>1. s.c.extended \in Nat /\ s.c.rwin \in Nat
    BY <1>1 DEF Chans
  <2>2. n \in Nat /\ n <= s.c.extended /\ n <= s.c.rwin
    BY <1>1, <2>1, FitsBounds
  <2>. HIDE DEF n
  <2>. QED BY <2>1, <2>2
<1>. HIDE DEF n
<1>3. ExecServer(z) /\ ~SesClient(z) /\ ~ExecClient(z)
  BY DEF Usage, IsSession, SesClient, SesServer, ExecServer, ExecClient, Mid, Belongs
<1>4. CASE n = 0
  BY <1>1, <1>4 DEF channel_output_poll_extended_read, n
<1>5. CASE n # 0
  <2>. DEFINE w == Enqueue(s, "EXTENDED", n)
              b2 == After(b, "EXTENDED", n)
  <2>1. t = [w EXCEPT !.c.extended = @ - n, !.c.rwin = @ - n]
    BY <1>5 DEF channel_output_poll_extended_read, n
  <2>2. Allowed(Opener(z), SesClient(z), b, "EXTENDED")
    BY <1>2, <1>3 DEF Allowed, Mid, OpenOK, FlagsOK, SesOK
  <2>3. w \in States /\ w.c = s.c /\ w.io = s.io /\ Sent(z, d.out, w.out, b2)
    <3>1. s.c.rid = z.to /\ s.c.g = z.g /\ Sent(z, d.out, s.out, b)
      BY DEF Mid, Belongs
    <3>2. "EXTENDED" \in Ops \ {"OPEN", "CONFIRM"}
      BY DEF Ops
    <3>. QED BY <1>2, <1>3, <1>1, <2>2, <3>1, <3>2, Enqueues
  <2>4. b2 \in Places
    BY <1>2, <1>3, <1>1, AfterIsPlace DEF Ops
  <2>5. /\ b2.st = b.st /\ b2.said = b.said /\ b2.data = b.data /\ b2.ext = b.ext + n
        /\ b2.adj = b.adj
    BY <1>1 DEF After, Adds, Places, Words
  <2>. HIDE DEF t, w, b2
  <2>6. /\ t.c = [s.c EXCEPT !.extended = s.c.extended - n, !.rwin = s.c.rwin - n] /\ t.io = s.io
        /\ t.out = w.out /\ t \in States
    <3>1. t.c = [s.c EXCEPT !.extended = s.c.extended - n, !.rwin = s.c.rwin - n] /\ t.io = s.io /\ t.out = w.out
      BY <1>1, <1>2, <2>1, <2>3 DEF States
    <3>2. t.c \in Chans /\ t.io \in Ios /\ t.out \in Seq(Msgs)
      BY <1>1, <1>2, <2>1, <2>3, <3>1 DEF States, Chans, Ios
    <3>3. t = [c |-> t.c, io |-> t.io, out |-> t.out]
      BY <1>1, <1>2, <2>1, <2>3 DEF States
    <3>. QED BY <3>1, <3>2, <3>3 DEF States
  <2>7. t.c.type = "open" /\ Belongs(z, t.c)
    BY ZenonT(90), <1>1, <1>2, <1>3, <2>5, <2>6 DEF Mid, Belongs, Chans, States
  <2>8. Kept(d, t.io)
    BY <1>1, <1>2, <1>3, <2>5, <2>6 DEF Mid, Kept, Ios
  <2>9. LedgerOK(z, a, b2)
    BY <1>1, <1>2, <1>3, <2>5, <2>6, WindowIsNat DEF Mid, Facts, LedgerOK, OpenOK,
       WinOK, Places, Chans
  <2>10. ReaderOK(z, t.io, a, b2)
    BY <1>1, <1>2, <1>3, <2>5, <2>6 DEF Mid, Facts, ReaderOK, Ios
  <2>11. WriterOK(z, t.io, a, b2)
    BY <1>1, <1>2, <1>3, <2>5, <2>6 DEF Mid, Facts, WriterOK, Ios
  <2>12. FlagsOK(t.c, a, b2)
    BY <1>1, <1>2, <1>3, <2>5, <2>6 DEF Mid, OpenOK, FlagsOK, Chans
  <2>13. WinOK(z, t.c, a, b2)
    BY <1>1, <1>2, <1>3, <2>5, <2>6, WindowIsNat DEF Mid, OpenOK, WinOK, Chans, Places
  <2>14. OutOK(t.c, t.io, a)
    BY <1>1, <1>2, <1>3, <2>5, <2>6 DEF Mid, OpenOK, OutOK, Chans, Ios
  <2>15. InOK(z, t.c, t.io, b2)
    BY <1>1, <1>2, <1>3, <2>5, <2>6 DEF Mid, OpenOK, InOK, Chans, Ios
  <2>16. ErrOK(z, t.c, t.io, a, b2)
    BY <1>1, <1>2, <1>3, <2>5, <2>6 DEF Mid, OpenOK, ErrOK, Chans, Ios, Places
  <2>17. SesOK(z, t.c, t.io, a, b2)
    BY <1>1, <1>2, <1>3, <2>5, <2>6 DEF Mid, OpenOK, SesOK, Chans, Ios
  <2>18. Honest(z, t.c, t.io, b2)
    BY <1>1, <1>2, <1>3, <2>5, <2>6 DEF Mid, OpenOK, Honest, Complete, Chans, Ios,
       FlagsOK
  <2>19. Mid(z, d, t, a, b2)
    BY <1>1, <1>2, <1>3, <2>5, <2>6, <2>7, <2>8, <2>9, <2>10, <2>11, <2>12, <2>13,
       <2>14, <2>15, <2>16, <2>17, <2>18, <2>3, <2>4 DEF Mid, OpenOK, Facts
  <2>. QED BY <2>4, <2>19 DEF t
<1>. QED BY <1>4, <1>5

\* channel_output_poll.
LEMMA OutputPoll ==
  ASSUME NEW z \in Sides, NEW d, NEW s, NEW a, NEW b, Mid(z, d, s, a, b)
  PROVE  \E b2 \in Places : Mid(z, d, channel_output_poll(s), a, b2)
<1>. DEFINE t == IF s.c.istate \in {"open", "drain"}
                 THEN channel_output_poll_input_open(s) ELSE s
<1>1. s \in States /\ s.c \in Chans /\ s.io \in Ios /\ a \in Places /\ b \in Places
  BY MidTypes
<1>2. CASE s.c.flags \cap {"CLOSE_SENT", "CLOSE_RCVD"} # {}
  BY <1>1, <1>2 DEF channel_output_poll
<1>3. CASE s.c.flags \cap {"CLOSE_SENT", "CLOSE_RCVD"} = {}
  <2>1. /\ t.c.flags \cap {"CLOSE_SENT", "CLOSE_RCVD"} = {}
        /\ \E b2 \in Places : Mid(z, d, t, a, b2)
    BY <1>1, <1>3, PollInput
  <2>2. PICK b1 \in Places : Mid(z, d, t, a, b1)
    BY <2>1
  <2>3. channel_output_poll(s) = IF "EOF_SENT" \notin t.c.flags /\ Usage(t.c) = "read"
                                 THEN channel_output_poll_extended_read(t) ELSE t
    BY <1>3 DEF channel_output_poll
  <2>. HIDE DEF t
  <2>. QED BY <2>1, <2>2, <2>3, PollExtended
<1>. QED BY <1>2, <1>3

\* chan_is_dead sends the CLOSE that is due.
LEMMA SendsClose ==
  ASSUME NEW z \in Sides, NEW d, NEW s, NEW a, NEW b, Mid(z, d, s, a, b),
         BothClosed(s.c), "CLOSE_SENT" \notin s.c.flags,
         SesClient(z) => "CLOSE_RCVD" \in s.c.flags, SesServer(z) => s.c.detach = "close"
  PROVE  /\ Mid(z, d, Flag(Enqueue(s, "CLOSE", 0), "CLOSE_SENT"), a, After(b, "CLOSE", 0))
         /\ Flag(Enqueue(s, "CLOSE", 0), "CLOSE_SENT").c =
              [s.c EXCEPT !.flags = s.c.flags \cup {"CLOSE_SENT"}]
         /\ Flag(Enqueue(s, "CLOSE", 0), "CLOSE_SENT").io = s.io
<1>. DEFINE w == Enqueue(s, "CLOSE", 0)
            t == Flag(w, "CLOSE_SENT")
            b2 == After(b, "CLOSE", 0)
<1>1. s \in States /\ s.c \in Chans /\ s.io \in Ios /\ a \in Places /\ b \in Places
  BY MidTypes
<1>2. t = [w EXCEPT !.c.flags = @ \cup {"CLOSE_SENT"}]
  BY DEF Flag
<1>3. Allowed(Opener(z), SesClient(z), b, "CLOSE")
  BY DEF Allowed, Mid, OpenOK, FlagsOK, SesOK
<1>4. w \in States /\ w.c = s.c /\ w.io = s.io /\ Sent(z, d.out, w.out, b2)
  <2>1. s.c.rid = z.to /\ s.c.g = z.g /\ Sent(z, d.out, s.out, b)
    BY DEF Mid, Belongs
  <2>2. "CLOSE" \in Ops \ {"OPEN", "CONFIRM"}
    BY DEF Ops
  <2>. QED BY <1>1, <1>3, <2>1, <2>2, Enqueues
<1>5. b2 \in Places
  BY <1>1, AfterIsPlace DEF Ops
<1>6. /\ b2.st = "closed" /\ b2.said = b.said
      /\ b2.data = b.data /\ b2.ext = b.ext /\ b2.adj = b.adj
  BY <1>1 DEF After, Adds, Places, Words
<1>. HIDE DEF t, w, b2
<1>0. s.c.flags \cup {"CLOSE_SENT"} \in SUBSET Flags
  BY <1>1 DEF Chans, Flags
<1>7. /\ t.c = [s.c EXCEPT !.flags = s.c.flags \cup {"CLOSE_SENT"}] /\ t.io = s.io
      /\ t.out = w.out /\ t \in States
  <2>1. t.c = [s.c EXCEPT !.flags = s.c.flags \cup {"CLOSE_SENT"}] /\ t.io = s.io /\ t.out = w.out
    BY <1>0, <1>1, <1>2, <1>4 DEF States
  <2>2. t.c \in Chans /\ t.io \in Ios /\ t.out \in Seq(Msgs)
    BY <1>0, <1>1, <1>2, <1>4, <2>1 DEF States, Chans, Ios
  <2>3. t = [c |-> t.c, io |-> t.io, out |-> t.out]
    BY <1>0, <1>1, <1>2, <1>4 DEF States
  <2>. QED BY <2>1, <2>2, <2>3 DEF States
<1>8. t.c.type = "open" /\ Belongs(z, t.c)
  BY ZenonT(90), <1>1, <1>6, <1>7 DEF Mid, Belongs, Chans, States
<1>9. Kept(d, t.io)
  BY <1>1, <1>6, <1>7 DEF Mid, Kept, Ios
<1>10. LedgerOK(z, a, b2)
  BY <1>1, <1>6, <1>7 DEF Mid, Facts, LedgerOK
<1>11. ReaderOK(z, t.io, a, b2)
  BY <1>1, <1>6, <1>7 DEF Mid, Facts, ReaderOK, Ios, OpenOK, OutOK, BothClosed
<1>12. WriterOK(z, t.io, a, b2)
  BY <1>1, <1>6, <1>7 DEF Mid, Facts, WriterOK, Ios, OpenOK, SesOK, FlagsOK
<1>13. FlagsOK(t.c, a, b2)
  BY <1>1, <1>6, <1>7 DEF Mid, OpenOK, FlagsOK, Chans, BothClosed
<1>14. WinOK(z, t.c, a, b2)
  BY <1>1, <1>6, <1>7 DEF Mid, OpenOK, WinOK, Chans
<1>15. OutOK(t.c, t.io, a)
  BY <1>1, <1>6, <1>7 DEF Mid, OpenOK, OutOK, Chans, Ios
<1>16. InOK(z, t.c, t.io, b2)
  BY <1>1, <1>6, <1>7 DEF Mid, OpenOK, InOK, Chans, Ios
<1>17. ErrOK(z, t.c, t.io, a, b2)
  BY <1>1, <1>6, <1>7 DEF Mid, OpenOK, ErrOK, Chans, Ios
<1>18. SesOK(z, t.c, t.io, a, b2)
  BY <1>1, <1>6, <1>7 DEF Mid, OpenOK, SesOK, Chans, Ios
<1>19. Honest(z, t.c, t.io, b2)
  BY <1>1, <1>6, <1>7 DEF Mid, OpenOK, Honest, Complete, Chans, Ios, BothClosed
<1>20. Mid(z, d, t, a, b2)
  BY <1>1, <1>6, <1>7, <1>8, <1>9, <1>10, <1>11, <1>12, <1>13, <1>14, <1>15, <1>16,
     <1>17, <1>18, <1>19, <1>4, <1>5 DEF Mid, OpenOK, Facts
<1>. QED BY <1>20, <1>7 DEF t, w, b2

\* The channel is gone; what remains to be sent is sent.
Gone(z, d, s, a, b) ==
    /\ s.c = Free /\ s.io \in Ios /\ s.out \in Seq(Msgs)
    /\ Sent(z, d.out, s.out, b) /\ Kept(d, s.io)
    /\ a \in Places /\ b \in Places /\ a.st = "closed" /\ b.st = "closed"
    /\ Facts(z, s.io, a, b) /\ Honest(z, Free, s.io, b)

\* A channel that is dead by chan_is_dead leaves the array: both ends have said CLOSE.
LEMMA Frees ==
  ASSUME NEW z \in Sides, NEW d, NEW s, NEW a, NEW b, Mid(z, d, s, a, b), NEW t,
         t.c = Free, t.io = s.io, t.out = s.out, a.st = "closed", b.st = "closed"
  PROVE  Gone(z, d, t, a, b)
<1>1. Honest(z, Free, t.io, b)
  BY DEF Mid, Honest, Free
<1>. QED BY <1>1, MidTypes DEF Mid, Gone, States

\* Collected of a channel that has no detach callback (any more).
LEMMA Collects ==
  ASSUME NEW z \in Sides, NEW d, NEW s, NEW a, NEW b, Mid(z, d, s, a, b),
         NEW s1, s1 = s \/ s1 = [s EXCEPT !.c.detach = "none"],
         z.kind # "tcp" => /\ BothClosed(s.c) /\ "CLOSE_RCVD" \in s.c.flags
                           /\ SesServer(z) => s.c.detach = "close",
         z.kind = "tcp" => s1 = s
  PROVE  \E b2 \in Places : Mid(z, d, Collected(s1), a, b2) \/ Gone(z, d, Collected(s1), a, b2)
<1>1. s \in States /\ s.c \in Chans /\ s.io \in Ios /\ a \in Places /\ b \in Places
  BY MidTypes
<1>2. /\ s1.out = s.out /\ s1.io = s.io /\ s1.c.type = "open" /\ s1.c.rid = s.c.rid
      /\ s1.c.g = s.c.g /\ s1.c.flags = s.c.flags /\ s1.c.istate = s.c.istate
      /\ s1.c.ostate = s.c.ostate /\ DOMAIN s1 = {"c", "io", "out"}
      /\ s1.c \in Chans
  BY SMTT(60), <1>1 DEF Mid, States, Chans
<1>3. BothClosed(s1.c) <=> BothClosed(s.c)
  BY <1>2 DEF BothClosed
<1>. DEFINE due == BothClosed(s.c) /\ "CLOSE_SENT" \notin s.c.flags
            t == ClosesIfDue(s1, TRUE)
<1>4. Collected(s1) = IF chan_is_dead(t, TRUE) THEN [t EXCEPT !.c = Free] ELSE t
  BY DEF Collected
<1>5. CASE due
  <2>. DEFINE w == Flag(Enqueue(s, "CLOSE", 0), "CLOSE_SENT")
              b2 == After(b, "CLOSE", 0)
  <2>1. /\ Mid(z, d, w, a, b2) /\ w.io = s.io
        /\ w.c = [s.c EXCEPT !.flags = s.c.flags \cup {"CLOSE_SENT"}]
    <3>1. SesClient(z) => "CLOSE_RCVD" \in s.c.flags
      BY DEF SesClient
    <3>2. SesServer(z) => s.c.detach = "close"
      BY DEF SesServer
    <3>. QED BY <1>5, <3>1, <3>2, SendsClose
  <2>2. b2 \in Places /\ b2.st = "closed"
    BY <2>1, MidTypes DEF After
  <2>3. t = Flag(Enqueue(s1, "CLOSE", 0), "CLOSE_SENT")
    BY <1>2, <1>3, <1>5 DEF ClosesIfDue
  <2>4. /\ t.out = w.out /\ t.io = s.io /\ t.c.type = "open"
        /\ t.c.flags = s.c.flags \cup {"CLOSE_SENT"} /\ t.c.istate = s.c.istate
        /\ t.c.ostate = s.c.ostate /\ DOMAIN t = {"c", "io", "out"}
    <3>. DEFINE m == [op |-> "CLOSE", to |-> s.c.rid, n |-> 0, g |-> s.c.g]
                q == Append(s.out, m)
                y == Enqueue(s1, "CLOSE", 0)
                x == Enqueue(s, "CLOSE", 0)
    <3>1. y = [s1 EXCEPT !.out = q] /\ x = [s EXCEPT !.out = q]
      BY <1>2 DEF Enqueue
    <3>. HIDE DEF q, x, y
    <3>2. /\ y.out = q /\ y.io = s.io /\ y.c = s1.c /\ DOMAIN y = {"c", "io", "out"}
          /\ x.out = q /\ x.io = s.io /\ x.c = s.c /\ DOMAIN x = {"c", "io", "out"}
      BY <1>1, <1>2, <3>1 DEF States
    <3>3. /\ t = [y EXCEPT !.c.flags = @ \cup {"CLOSE_SENT"}]
          /\ w = [x EXCEPT !.c.flags = @ \cup {"CLOSE_SENT"}]
      BY <2>3 DEF Flag, x, y
    <3>. HIDE DEF t, w
    <3>4. w.out = q
      BY <3>2, <3>3
    <3>5. t.out = q /\ t.io = s.io /\ DOMAIN t = {"c", "io", "out"}
          /\ t.c = [s1.c EXCEPT !.flags = s1.c.flags \cup {"CLOSE_SENT"}]
      BY <3>2, <3>3
    <3>. QED BY <1>2, <3>4, <3>5 DEF Chans
  <2>5. s1 = s => t = w
    BY <2>3
  <2>6. chan_is_dead(t, TRUE) <=> "CLOSE_RCVD" \in s.c.flags
    BY <1>5, <2>4 DEF chan_is_dead, BothClosed
  <2>. HIDE DEF t, w, b2, due
  <2>7. CASE "CLOSE_RCVD" \in s.c.flags
    <3>1. a.st = "closed"
      BY <2>7 DEF Mid, OpenOK, FlagsOK
    <3>. DEFINE f == [t EXCEPT !.c = Free]
    <3>2. f.c = Free /\ f.io = w.io /\ f.out = w.out
      BY <2>1, <2>4
    <3>. HIDE DEF f
    <3>3. Gone(z, d, f, a, b2)
      BY <2>1, <2>2, <3>1, <3>2, Frees
    <3>. QED BY <1>4, <2>2, <2>6, <2>7, <3>3 DEF f
  <2>8. CASE "CLOSE_RCVD" \notin s.c.flags
    BY <1>4, <2>1, <2>2, <2>5, <2>6, <2>8
  <2>. QED BY <2>7, <2>8
<1>6. CASE ~due
  <2>1. t = s1
    BY <1>2, <1>3, <1>6 DEF ClosesIfDue
  <2>. HIDE DEF t
  <2>2. CASE chan_is_dead(s1, TRUE)
    <3>1. a.st = "closed" /\ b.st = "closed"
      BY <2>2, <1>2 DEF chan_is_dead, Mid, OpenOK, FlagsOK
    <3>. DEFINE f == [s1 EXCEPT !.c = Free]
    <3>2. f.c = Free /\ f.io = s.io /\ f.out = s.out
      BY <1>2
    <3>. HIDE DEF f
    <3>3. Gone(z, d, f, a, b)
      BY <3>1, <3>2, Frees
    <3>. QED BY <1>1, <1>4, <2>1, <2>2, <3>3 DEF f
  <2>3. CASE ~chan_is_dead(s1, TRUE)
    <3>1. z.kind = "tcp"
      BY <2>3, <1>2, <1>3, <1>6 DEF chan_is_dead
    <3>. QED BY <1>1, <1>4, <2>1, <2>3, <3>1
  <2>. QED BY <2>2, <2>3
<1>. QED BY <1>5, <1>6

\* channel_garbage_collect of an open channel.
LEMMA GarbageCollect ==
  ASSUME NEW z \in Sides, NEW d, NEW s, NEW a, NEW b, Mid(z, d, s, a, b)
  PROVE  \E b2 \in Places : \/ Mid(z, d, channel_garbage_collect(s), a, b2)
                            \/ Gone(z, d, channel_garbage_collect(s), a, b2)
<1>1. s \in States /\ s.c \in Chans /\ s.io \in Ios /\ a \in Places /\ b \in Places
  BY MidTypes
<1>2. z.kind = "tcp" \/ SesClient(z) \/ SesServer(z)
  BY DEF SesClient, SesServer, Sides, Ends
<1>3. CASE z.kind = "tcp"
  <2>1. s.c.detach = "none"
    BY <1>3 DEF Mid, OpenOK, SesOK
  <2>. QED BY <1>3, <2>1, Collects DEF channel_garbage_collect
<1>4. CASE SesClient(z)
  <2>1. s.c.detach = "keep" /\ z.kind # "tcp" /\ ~SesServer(z)
    BY <1>4 DEF Mid, OpenOK, SesOK, SesClient, SesServer
  <2>2. ClosesIfDue(s, s.c.detach = "close") = s
    BY <2>1 DEF ClosesIfDue
  <2>3. CASE chan_is_dead(s, s.c.detach = "close") /\ Detaches(s)
    <3>1. channel_garbage_collect(s) = Collected([s EXCEPT !.c.detach = "none"])
      BY <2>1, <2>2, <2>3 DEF channel_garbage_collect
    <3>2. BothClosed(s.c) /\ "CLOSE_RCVD" \in s.c.flags
      BY <2>3 DEF chan_is_dead, Mid
    <3>. QED BY <2>1, <3>1, <3>2, Collects
  <2>4. CASE ~(chan_is_dead(s, s.c.detach = "close") /\ Detaches(s))
    <3>1. channel_garbage_collect(s) = s
      BY <2>1, <2>2, <2>4 DEF channel_garbage_collect
    <3>. QED BY <1>1, <3>1
  <2>. QED BY <2>3, <2>4
<1>5. CASE SesServer(z) /\ s.c.detach = "keep"
  <2>1. z.kind # "tcp" /\ z.end = "server" /\ s.io.child \notin {"none", "reaped"}
        /\ s.c.end = "server"
    BY <1>5 DEF Mid, OpenOK, SesOK, SesServer, Belongs
  <2>2. ClosesIfDue(s, s.c.detach = "close") = s
    BY <1>5 DEF ClosesIfDue
  <2>3. ~Detaches(s)
    BY <2>1 DEF Detaches
  <2>4. channel_garbage_collect(s) = s
    BY <1>5, <2>2, <2>3 DEF channel_garbage_collect
  <2>. QED BY <1>1, <2>4
<1>6. CASE SesServer(z) /\ s.c.detach = "close"
  <2>. DEFINE t == ClosesIfDue(s, TRUE)
  <2>1. z.kind # "tcp" /\ ~SesClient(z)
    BY <1>6 DEF SesServer, SesClient
  <2>2. PICK b1 \in Places : Mid(z, d, t, a, b1) /\ t.c.detach = "close"
    <3>1. CASE BothClosed(s.c) /\ "CLOSE_SENT" \notin s.c.flags
      <4>1. t = Flag(Enqueue(s, "CLOSE", 0), "CLOSE_SENT")
        BY <3>1 DEF ClosesIfDue, Mid
      <4>. HIDE DEF t
      <4>2. Mid(z, d, t, a, After(b, "CLOSE", 0))
            /\ t.c = [s.c EXCEPT !.flags = s.c.flags \cup {"CLOSE_SENT"}]
        BY <1>6, <2>1, <3>1, <4>1, SendsClose
      <4>3. t.c.detach = "close"
        BY <1>1, <1>6, <4>2 DEF Chans
      <4>. QED BY <4>2, <4>3, MidTypes
    <3>2. CASE ~(BothClosed(s.c) /\ "CLOSE_SENT" \notin s.c.flags)
      <4>1. t = s
        BY <3>2 DEF ClosesIfDue
      <4>. QED BY <1>1, <1>6, <4>1
    <3>. QED BY <3>1, <3>2
  <2>3. channel_garbage_collect(s) =
          IF chan_is_dead(t, TRUE) /\ Detaches(t)
          THEN Collected([t EXCEPT !.c.detach = "none"]) ELSE t
    BY <1>6 DEF channel_garbage_collect
  <2>. HIDE DEF t
  <2>4. CASE chan_is_dead(t, TRUE) /\ Detaches(t)
    <3>1. BothClosed(t.c) /\ "CLOSE_RCVD" \in t.c.flags
      BY <2>2, <2>4 DEF chan_is_dead, Mid
    <3>. QED BY <2>1, <2>2, <2>3, <2>4, <3>1, Collects
  <2>5. CASE ~(chan_is_dead(t, TRUE) /\ Detaches(t))
    BY <2>2, <2>3, <2>5
  <2>. QED BY <2>4, <2>5
<1>7. SesServer(z) => s.c.detach \in {"keep", "close"}
  BY <1>1 DEF Mid, OpenOK, SesOK, Chans
<1>. QED BY <1>2, <1>3, <1>4, <1>5, <1>6, <1>7

\* session_exit_message.
LEMMA ExitMessage ==
  ASSUME NEW z \in Sides, NEW d, NEW s, NEW a, NEW b, Mid(z, d, s, a, b),
         s.io.child = "exited"
  PROVE  \E b2 \in Places : Mid(z, d, session_exit_message(s), a, b2)
<1>. DEFINE op == IF s.io.sig THEN "exit-signal" ELSE "exit-status"
            w == Enqueue(s, op, 0)
            t == [w EXCEPT !.c.detach = "close", !.io.child = "reaped"]
            b2 == After(b, op, 0)
<1>1. s \in States /\ s.c \in Chans /\ s.io \in Ios /\ a \in Places /\ b \in Places
  BY MidTypes
<1>2. SesServer(z) /\ ~SesClient(z) /\ ~ExecClient(z)
  BY DEF Mid, Facts, WriterOK, SesServer, SesClient, ExecClient
<1>21. /\ op \in {"exit-status", "exit-signal"}
       /\ op = "exit-signal" <=> s.io.sig
  OBVIOUS
<1>. HIDE DEF op
<1>3. Allowed(Opener(z), SesClient(z), b, op)
  BY <1>2, <1>21 DEF Allowed, Mid, OpenOK, FlagsOK, SesOK, Facts, WriterOK
<1>4. w \in States /\ w.c = s.c /\ w.io = s.io /\ Sent(z, d.out, w.out, b2)
  <2>1. s.c.rid = z.to /\ s.c.g = z.g /\ Sent(z, d.out, s.out, b)
    BY DEF Mid, Belongs
  <2>2. op \in Ops \ {"OPEN", "CONFIRM"}
    BY <1>21 DEF Ops
  <2>. QED BY <1>2, <1>1, <1>3, <2>1, <2>2, Enqueues
<1>5. b2 \in Places
  BY <1>2, <1>1, <1>21, AfterIsPlace DEF Ops
<1>6. /\ b2.st = b.st /\ b2.said = b.said \cup {op}
      /\ b2.data = b.data /\ b2.ext = b.ext /\ b2.adj = b.adj
  <2>1. CASE op = "exit-status"
    BY <1>1, <2>1 DEF After, Adds, Places, Words
  <2>2. CASE op = "exit-signal"
    BY <1>1, <2>2 DEF After, Adds, Places, Words
  <2>. QED BY <1>21, <2>1, <2>2
<1>0. t = [w EXCEPT !.c.detach = "close", !.io.child = "reaped"]
  OBVIOUS
<1>. HIDE DEF t, w, b2
<1>7. /\ t.c = [s.c EXCEPT !.detach = "close"] /\ t.io = [s.io EXCEPT !.child = "reaped"]
      /\ t.out = w.out /\ t \in States
  <2>1. t.c = [s.c EXCEPT !.detach = "close"] /\ t.io = [s.io EXCEPT !.child = "reaped"] /\ t.out = w.out
    BY <1>0, <1>1, <1>4 DEF States
  <2>2. t.c \in Chans /\ t.io \in Ios /\ t.out \in Seq(Msgs)
    BY ZenonT(90), <1>0, <1>1, <1>4, <2>1 DEF States, Chans, Ios
  <2>3. t = [c |-> t.c, io |-> t.io, out |-> t.out]
    BY <1>0, <1>1, <1>4 DEF States
  <2>. QED BY <2>1, <2>2, <2>3 DEF States
<1>8. t.c.type = "open" /\ Belongs(z, t.c)
  BY ZenonT(90), <1>1, <1>2, <1>6, <1>7 DEF Mid, Belongs, Chans, States
<1>9. Kept(d, t.io)
  BY <1>1, <1>2, <1>6, <1>7, <1>21 DEF Mid, Kept, Ios
<1>10. LedgerOK(z, a, b2)
  BY <1>1, <1>2, <1>6, <1>7, <1>21 DEF Mid, Facts, LedgerOK
<1>11. ReaderOK(z, t.io, a, b2)
  BY <1>1, <1>2, <1>6, <1>7, <1>21 DEF Mid, Facts, ReaderOK, Ios
<1>12. WriterOK(z, t.io, a, b2)
  BY <1>1, <1>2, <1>6, <1>7, <1>21 DEF Mid, Facts, WriterOK, Ios
<1>13. FlagsOK(t.c, a, b2)
  BY <1>1, <1>2, <1>6, <1>7, <1>21 DEF Mid, OpenOK, FlagsOK, Chans
<1>14. WinOK(z, t.c, a, b2)
  BY <1>1, <1>2, <1>6, <1>7, <1>21 DEF Mid, OpenOK, WinOK, Chans
<1>15. OutOK(t.c, t.io, a)
  BY <1>1, <1>2, <1>6, <1>7, <1>21 DEF Mid, OpenOK, OutOK, Chans, Ios
<1>16. InOK(z, t.c, t.io, b2)
  BY <1>1, <1>2, <1>6, <1>7, <1>21 DEF Mid, OpenOK, InOK, Chans, Ios
<1>17. ErrOK(z, t.c, t.io, a, b2)
  BY <1>1, <1>2, <1>6, <1>7, <1>21 DEF Mid, OpenOK, ErrOK, Chans, Ios
<1>18. SesOK(z, t.c, t.io, a, b2)
  BY <1>1, <1>2, <1>6, <1>7, <1>21 DEF Mid, OpenOK, SesOK, Chans, Ios
<1>19. Honest(z, t.c, t.io, b2)
  BY <1>1, <1>2, <1>6, <1>7, <1>21 DEF Mid, OpenOK, Honest, Complete, Chans, Ios
<1>20. Mid(z, d, t, a, b2)
  BY <1>1, <1>2, <1>6, <1>7, <1>8, <1>9, <1>10, <1>11, <1>12, <1>13, <1>14, <1>15,
     <1>16, <1>17, <1>18, <1>19, <1>4, <1>5 DEF Mid, OpenOK, Facts
<1>. QED BY <1>5, <1>20, WriteFailed DEF session_exit_message, t, w, op

-----------------------------------------------------------------------------
(* A packet that arrives *)

\* The other end may say it.
Hears(z, a, op) == Allowed(~Opener(z), SesServer(z), a, op)

\* What the receiver needs of the other end's state.
Due(z, a, b, op, n) ==
    /\ Hears(z, a, op)
    /\ After(a, op, n).data + After(a, op, n).ext <= W0(z) + b.adj
    /\ op = "EXTENDED" => ExecClient(z)
    /\ op = "eow" => z.peer = "fail"
    /\ op = "CLOSE" /\ "EOF" \notin b.said /\ b.st # "closed" => z.peer = "fail"

\* channel_input_data: the window is never exceeded, and what arrives when nobody takes
\* it any more was sent in vain.
LEMMA InputData ==
  ASSUME NEW z \in Sides, NEW d, NEW s, NEW a, NEW b, Mid(z, d, s, a, b),
         NEW n \in Nat, Due(z, a, b, "DATA", n)
  PROVE  Mid(z, d, channel_input_data(s, n), After(a, "DATA", n), b)
<1>. DEFINE t == channel_input_data(s, n)
            a2 == After(a, "DATA", n)
<1>1. s \in States /\ s.c \in Chans /\ s.io \in Ios /\ a \in Places /\ b \in Places
  BY MidTypes
<1>2. a2 \in Places
  BY <1>1, AfterIsPlace DEF Ops
<1>3. /\ a2.st = a.st /\ a2.said = a.said
      /\ a2.data = a.data + n /\ a2.ext = a.ext /\ a2.adj = a.adj
  BY <1>1 DEF After, Adds, Places, Words
<1>4. /\ a.st = "up" /\ "EOF" \notin a.said
      /\ a2.data + a2.ext <= W0(z) + b.adj
  BY DEF Due, Hears, Allowed
<1>. HIDE DEF a2
<1>5. /\ n <= s.c.lwin /\ s.c.lwin \in Nat /\ s.c.lwin - n \in Nat
      /\ s.c.consumed \in Nat /\ s.c.consumed + n \in Nat /\ s.c.output \in Nat
      /\ s.c.output + n \in Nat
  <2>1. W0(z) + b.adj <= s.c.lwin + a.data + a.ext
    BY DEF Mid, OpenOK, WinOK
  <2>2. /\ s.c.lwin \in Nat /\ s.c.consumed \in Nat /\ s.c.output \in Nat /\ b.adj \in Nat
        /\ a.data \in Nat /\ a.ext \in Nat
    BY <1>1 DEF Chans, Places
  <2>. QED BY <1>3, <1>4, <2>1, <2>2, WindowIsNat
<1>6. s.c.type = "open"
  BY DEF Mid
<1>7. CASE s.c.ostate = "open"
  <2>1. t = [s EXCEPT !.c.lwin = @ - n, !.c.output = @ + n]
    BY <1>5, <1>6, <1>7 DEF channel_input_data
  <2>. HIDE DEF t
  <2>2. /\ t.c = [s.c EXCEPT !.lwin = s.c.lwin - n, !.output = s.c.output + n] /\ t.io = s.io
        /\ t.out = s.out /\ t \in States
    <3>1. t.c = [s.c EXCEPT !.lwin = s.c.lwin - n, !.output = s.c.output + n] /\ t.io = s.io /\ t.out = s.out
      BY <1>1, <1>5, <2>1 DEF States
    <3>2. t.c \in Chans /\ t.io \in Ios /\ t.out \in Seq(Msgs)
      BY <1>1, <1>5, <2>1, <3>1 DEF States, Chans, Ios
    <3>3. t = [c |-> t.c, io |-> t.io, out |-> t.out]
      BY <1>1, <1>5, <2>1 DEF States
    <3>. QED BY <3>1, <3>2, <3>3 DEF States
  <2>3. t.c.type = "open" /\ Belongs(z, t.c)
    BY ZenonT(90), <1>1, <1>3, <1>5, <2>2 DEF Mid, Belongs, Chans, States
  <2>4. Kept(d, t.io)
    BY <1>1, <1>3, <1>5, <2>2 DEF Mid, Kept, Ios
  <2>5. LedgerOK(z, a2, b)
    BY <1>1, <1>3, <1>5, <2>2, <1>4, WindowIsNat DEF Mid, Facts, LedgerOK, Places
  <2>6. ReaderOK(z, t.io, a2, b)
    BY <1>1, <1>3, <1>5, <2>2, <1>4 DEF Mid, Facts, ReaderOK, Ios, Places
  <2>7. WriterOK(z, t.io, a2, b)
    BY <1>1, <1>3, <1>5, <2>2 DEF Mid, Facts, WriterOK, Ios
  <2>8. FlagsOK(t.c, a2, b)
    BY <1>1, <1>3, <1>5, <2>2 DEF Mid, OpenOK, FlagsOK, Chans
  <2>9. WinOK(z, t.c, a2, b)
    BY <1>1, <1>3, <1>5, <2>2, WindowIsNat DEF Mid, OpenOK, WinOK, Chans, Places
  <2>10. OutOK(t.c, t.io, a2)
    BY <1>1, <1>3, <1>5, <2>2, <1>7 DEF Mid, OpenOK, OutOK, Chans, Ios, Places
  <2>11. InOK(z, t.c, t.io, b)
    BY <1>1, <1>3, <1>5, <2>2 DEF Mid, OpenOK, InOK, Chans, Ios
  <2>12. ErrOK(z, t.c, t.io, a2, b)
    BY <1>1, <1>3, <1>5, <2>2 DEF Mid, OpenOK, ErrOK, Chans, Ios
  <2>13. SesOK(z, t.c, t.io, a2, b)
    BY <1>1, <1>3, <1>5, <2>2 DEF Mid, OpenOK, SesOK, Chans, Ios
  <2>14. Honest(z, t.c, t.io, b)
    BY <1>1, <1>3, <1>5, <2>2 DEF Mid, OpenOK, Honest, Complete, Chans, Ios
  <2>15. Mid(z, d, t, a2, b)
    BY <1>1, <1>3, <1>5, <2>2, <2>3, <2>4, <2>5, <2>6, <2>7, <2>8, <2>9, <2>10, <2>11,
       <2>12, <2>13, <2>14, <1>2 DEF Mid, OpenOK, Facts
  <2>. QED BY <2>15 DEF t, a2
<1>8. CASE s.c.ostate # "open"
  <2>1. t = [s EXCEPT !.c.lwin = @ - n, !.c.consumed = @ + n]
    BY <1>6, <1>8 DEF channel_input_data
  <2>0. s.io.saw = "fail"
    BY <1>1, <1>4, <1>8 DEF Mid, OpenOK, OutOK, Facts, ReaderOK, Ios
  <2>. HIDE DEF t
  <2>2. /\ t.c = [s.c EXCEPT !.lwin = s.c.lwin - n, !.consumed = s.c.consumed + n] /\ t.io = s.io
        /\ t.out = s.out /\ t \in States
    <3>1. t.c = [s.c EXCEPT !.lwin = s.c.lwin - n, !.consumed = s.c.consumed + n] /\ t.io = s.io /\ t.out = s.out
      BY <1>1, <1>5, <2>1 DEF States
    <3>2. t.c \in Chans /\ t.io \in Ios /\ t.out \in Seq(Msgs)
      BY <1>1, <1>5, <2>1, <3>1 DEF States, Chans, Ios
    <3>3. t = [c |-> t.c, io |-> t.io, out |-> t.out]
      BY <1>1, <1>5, <2>1 DEF States
    <3>. QED BY <3>1, <3>2, <3>3 DEF States
  <2>3. t.c.type = "open" /\ Belongs(z, t.c)
    BY ZenonT(90), <1>1, <1>3, <1>5, <2>0, <2>2 DEF Mid, Belongs, Chans, States
  <2>4. Kept(d, t.io)
    BY <1>1, <1>3, <1>5, <2>0, <2>2 DEF Mid, Kept, Ios
  <2>5. LedgerOK(z, a2, b)
    BY <1>1, <1>3, <1>5, <2>0, <2>2, <1>4, WindowIsNat DEF Mid, Facts, LedgerOK, Places
  <2>6. ReaderOK(z, t.io, a2, b)
    BY <1>1, <1>3, <1>5, <2>0, <2>2 DEF Mid, Facts, ReaderOK, Ios
  <2>7. WriterOK(z, t.io, a2, b)
    BY <1>1, <1>3, <1>5, <2>0, <2>2 DEF Mid, Facts, WriterOK, Ios
  <2>8. FlagsOK(t.c, a2, b)
    BY <1>1, <1>3, <1>5, <2>0, <2>2 DEF Mid, OpenOK, FlagsOK, Chans
  <2>9. WinOK(z, t.c, a2, b)
    BY <1>1, <1>3, <1>5, <2>0, <2>2, WindowIsNat DEF Mid, OpenOK, WinOK, Chans, Places
  <2>10. OutOK(t.c, t.io, a2)
    BY <1>1, <1>3, <1>5, <2>0, <2>2 DEF Mid, OpenOK, OutOK, Chans, Ios
  <2>11. InOK(z, t.c, t.io, b)
    BY <1>1, <1>3, <1>5, <2>0, <2>2 DEF Mid, OpenOK, InOK, Chans, Ios
  <2>12. ErrOK(z, t.c, t.io, a2, b)
    BY <1>1, <1>3, <1>5, <2>0, <2>2 DEF Mid, OpenOK, ErrOK, Chans, Ios
  <2>13. SesOK(z, t.c, t.io, a2, b)
    BY <1>1, <1>3, <1>5, <2>0, <2>2 DEF Mid, OpenOK, SesOK, Chans, Ios
  <2>14. Honest(z, t.c, t.io, b)
    BY <1>1, <1>3, <1>5, <2>0, <2>2 DEF Mid, OpenOK, Honest, Complete, Chans, Ios
  <2>15. Mid(z, d, t, a2, b)
    BY <1>1, <1>3, <1>5, <2>0, <2>2, <2>3, <2>4, <2>5, <2>6, <2>7, <2>8, <2>9, <2>10,
       <2>11, <2>12, <2>13, <2>14, <1>2 DEF Mid, OpenOK, Facts
  <2>. QED BY <2>15 DEF t, a2
<1>. QED BY <1>7, <1>8

\* channel_input_extended_data.
LEMMA InputExtended ==
  ASSUME NEW z \in Sides, NEW d, NEW s, NEW a, NEW b, Mid(z, d, s, a, b),
         NEW n \in Nat, Due(z, a, b, "EXTENDED", n)
  PROVE  Mid(z, d, channel_input_extended_data(s, n), After(a, "EXTENDED", n), b)
<1>. DEFINE t == channel_input_extended_data(s, n)
            a2 == After(a, "EXTENDED", n)
<1>1. s \in States /\ s.c \in Chans /\ s.io \in Ios /\ a \in Places /\ b \in Places
  BY MidTypes
<1>2. a2 \in Places
  BY <1>1, AfterIsPlace DEF Ops
<1>3. /\ a2.st = a.st /\ a2.said = a.said
      /\ a2.data = a.data /\ a2.ext = a.ext + n /\ a2.adj = a.adj
  BY <1>1 DEF After, Adds, Places, Words
<1>4. /\ a.st = "up" /\ "EOF" \notin a.said /\ ExecClient(z)
      /\ a2.data + a2.ext <= W0(z) + b.adj
  BY DEF Due, Hears, Allowed
<1>. HIDE DEF a2
<1>5. /\ n <= s.c.lwin /\ s.c.lwin \in Nat /\ s.c.lwin - n \in Nat
      /\ s.c.extended \in Nat /\ s.c.extended + n \in Nat
  <2>1. W0(z) + b.adj <= s.c.lwin + a.data + a.ext
    BY DEF Mid, OpenOK, WinOK
  <2>2. /\ s.c.lwin \in Nat /\ s.c.extended \in Nat /\ b.adj \in Nat
        /\ a.data \in Nat /\ a.ext \in Nat
    BY <1>1 DEF Chans, Places
  <2>. QED BY <1>3, <1>4, <2>1, <2>2, WindowIsNat
<1>6. s.c.type = "open" /\ Usage(s.c) = "write" /\ SesClient(z) /\ ~ExecServer(z)
  BY <1>4 DEF Mid, Usage, IsSession, Belongs, ExecClient, SesClient, ExecServer
<1>0. s.io.saw # "eof"
  BY <1>1, <1>4 DEF Mid, Facts, ReaderOK
<1>7. CASE s.c.efd
  <2>1. t = [s EXCEPT !.c.lwin = @ - n, !.c.extended = @ + n]
    BY <1>5, <1>6, <1>7 DEF channel_input_extended_data
  <2>. HIDE DEF t
  <2>2. /\ t.c = [s.c EXCEPT !.lwin = s.c.lwin - n, !.extended = s.c.extended + n] /\ t.io = s.io
        /\ t.out = s.out /\ t \in States
    <3>1. t.c = [s.c EXCEPT !.lwin = s.c.lwin - n, !.extended = s.c.extended + n] /\ t.io = s.io /\ t.out = s.out
      BY <1>1, <1>5, <2>1 DEF States
    <3>2. t.c \in Chans /\ t.io \in Ios /\ t.out \in Seq(Msgs)
      BY <1>1, <1>5, <2>1, <3>1 DEF States, Chans, Ios
    <3>3. t = [c |-> t.c, io |-> t.io, out |-> t.out]
      BY <1>1, <1>5, <2>1 DEF States
    <3>. QED BY <3>1, <3>2, <3>3 DEF States
  <2>3. t.c.type = "open" /\ Belongs(z, t.c)
    BY ZenonT(90), <1>0, <1>1, <1>3, <1>5, <1>6, <2>2 DEF Mid, Belongs, Chans, States
  <2>4. Kept(d, t.io)
    BY <1>0, <1>1, <1>3, <1>5, <1>6, <2>2 DEF Mid, Kept, Ios
  <2>5. LedgerOK(z, a2, b)
    BY <1>0, <1>1, <1>3, <1>5, <1>6, <2>2, <1>4, WindowIsNat DEF Mid, Facts, LedgerOK,
       Places
  <2>6. ReaderOK(z, t.io, a2, b)
    BY <1>0, <1>1, <1>3, <1>5, <1>6, <2>2 DEF Mid, Facts, ReaderOK, Ios
  <2>7. WriterOK(z, t.io, a2, b)
    BY <1>0, <1>1, <1>3, <1>5, <1>6, <2>2 DEF Mid, Facts, WriterOK, Ios
  <2>8. FlagsOK(t.c, a2, b)
    BY <1>0, <1>1, <1>3, <1>5, <1>6, <2>2 DEF Mid, OpenOK, FlagsOK, Chans
  <2>9. WinOK(z, t.c, a2, b)
    BY <1>0, <1>1, <1>3, <1>5, <1>6, <2>2, <1>7, WindowIsNat DEF Mid, OpenOK, WinOK,
       Chans, Places
  <2>10. OutOK(t.c, t.io, a2)
    BY <1>0, <1>1, <1>3, <1>5, <1>6, <2>2 DEF Mid, OpenOK, OutOK, Chans, Ios
  <2>11. InOK(z, t.c, t.io, b)
    BY <1>0, <1>1, <1>3, <1>5, <1>6, <2>2 DEF Mid, OpenOK, InOK, Chans, Ios
  <2>12. ErrOK(z, t.c, t.io, a2, b)
    BY <1>0, <1>1, <1>3, <1>5, <1>6, <2>2, <1>7 DEF Mid, OpenOK, ErrOK, Chans, Ios,
       Places
  <2>13. SesOK(z, t.c, t.io, a2, b)
    BY <1>0, <1>1, <1>3, <1>5, <1>6, <2>2 DEF Mid, OpenOK, SesOK, Chans, Ios
  <2>14. Honest(z, t.c, t.io, b)
    BY <1>0, <1>1, <1>3, <1>5, <1>6, <2>2 DEF Mid, OpenOK, Honest, Complete, Chans, Ios
  <2>15. Mid(z, d, t, a2, b)
    BY <1>0, <1>1, <1>3, <1>5, <1>6, <2>2, <2>3, <2>4, <2>5, <2>6, <2>7, <2>8, <2>9,
       <2>10, <2>11, <2>12, <2>13, <2>14, <1>2 DEF Mid, OpenOK, Facts
  <2>. QED BY <2>15 DEF t, a2
<1>8. CASE ~s.c.efd
  <2>1. t = s
    BY <1>6, <1>8 DEF channel_input_extended_data
  <2>. HIDE DEF t
  <2>2. t.c.type = "open" /\ Belongs(z, t.c)
    BY <1>0, <1>1, <1>3, <1>5, <1>6, <2>1 DEF Mid, Belongs, Chans, States
  <2>3. Kept(d, t.io)
    BY <1>0, <1>1, <1>3, <1>5, <1>6, <2>1 DEF Mid, Kept, Ios
  <2>4. LedgerOK(z, a2, b)
    BY <1>0, <1>1, <1>3, <1>5, <1>6, <2>1, <1>4, WindowIsNat DEF Mid, Facts, LedgerOK,
       Places
  <2>5. ReaderOK(z, t.io, a2, b)
    BY <1>0, <1>1, <1>3, <1>5, <1>6, <2>1 DEF Mid, Facts, ReaderOK, Ios
  <2>6. WriterOK(z, t.io, a2, b)
    BY <1>0, <1>1, <1>3, <1>5, <1>6, <2>1 DEF Mid, Facts, WriterOK, Ios
  <2>7. FlagsOK(t.c, a2, b)
    BY <1>0, <1>1, <1>3, <1>5, <1>6, <2>1 DEF Mid, OpenOK, FlagsOK, Chans
  <2>8. WinOK(z, t.c, a2, b)
    BY <1>0, <1>1, <1>3, <1>5, <1>6, <2>1, <1>8, WindowIsNat DEF Mid, OpenOK, WinOK,
       Chans, Places
  <2>9. OutOK(t.c, t.io, a2)
    BY <1>0, <1>1, <1>3, <1>5, <1>6, <2>1 DEF Mid, OpenOK, OutOK, Chans, Ios
  <2>10. InOK(z, t.c, t.io, b)
    BY <1>0, <1>1, <1>3, <1>5, <1>6, <2>1 DEF Mid, OpenOK, InOK, Chans, Ios
  <2>11. ErrOK(z, t.c, t.io, a2, b)
    BY <1>0, <1>1, <1>3, <1>5, <1>6, <2>1, <1>8 DEF Mid, OpenOK, ErrOK, Chans, Ios,
       Places
  <2>12. SesOK(z, t.c, t.io, a2, b)
    BY <1>0, <1>1, <1>3, <1>5, <1>6, <2>1 DEF Mid, OpenOK, SesOK, Chans, Ios
  <2>13. Honest(z, t.c, t.io, b)
    BY <1>0, <1>1, <1>3, <1>5, <1>6, <2>1 DEF Mid, OpenOK, Honest, Complete, Chans, Ios
  <2>14. Mid(z, d, t, a2, b)
    BY <1>0, <1>1, <1>3, <1>5, <1>6, <2>1, <2>2, <2>3, <2>4, <2>5, <2>6, <2>7, <2>8,
       <2>9, <2>10, <2>11, <2>12, <2>13, <1>2 DEF Mid, OpenOK, Facts
  <2>. QED BY <2>14 DEF t, a2
<1>. QED BY <1>7, <1>8

\* channel_input_window_adjust.
LEMMA InputAdjust ==
  ASSUME NEW z \in Sides, NEW d, NEW s, NEW a, NEW b, Mid(z, d, s, a, b),
         NEW n \in Nat, Due(z, a, b, "ADJUST", n)
  PROVE  Mid(z, d, channel_input_window_adjust(s, n), After(a, "ADJUST", n), b)
<1>. DEFINE t == channel_input_window_adjust(s, n)
            a2 == After(a, "ADJUST", n)
<1>1. s \in States /\ s.c \in Chans /\ s.io \in Ios /\ a \in Places /\ b \in Places
  BY MidTypes
<1>2. a2 \in Places
  BY <1>1, AfterIsPlace DEF Ops
<1>3. /\ a2.st = a.st /\ a2.said = a.said
      /\ a2.data = a.data /\ a2.ext = a.ext /\ a2.adj = a.adj + n
  BY <1>1 DEF After, Adds, Places, Words
<1>4. s.c.rwin \in Nat /\ s.c.rwin + n \in Nat
  BY <1>1 DEF Chans
<1>5. t = [s EXCEPT !.c.rwin = @ + n]
  BY DEF channel_input_window_adjust
<1>. HIDE DEF t, a2
<1>6. /\ t.c = [s.c EXCEPT !.rwin = s.c.rwin + n] /\ t.io = s.io
      /\ t.out = s.out /\ t \in States
  <2>1. t.c = [s.c EXCEPT !.rwin = s.c.rwin + n] /\ t.io = s.io /\ t.out = s.out
    BY <1>1, <1>4, <1>5 DEF States
  <2>2. t.c \in Chans /\ t.io \in Ios /\ t.out \in Seq(Msgs)
    BY <1>1, <1>4, <1>5, <2>1 DEF States, Chans, Ios
  <2>3. t = [c |-> t.c, io |-> t.io, out |-> t.out]
    BY <1>1, <1>4, <1>5 DEF States
  <2>. QED BY <2>1, <2>2, <2>3 DEF States
<1>7. t.c.type = "open" /\ Belongs(z, t.c)
  BY <1>1, <1>3, <1>4, <1>6 DEF Mid, Belongs, Chans, States
<1>8. Kept(d, t.io)
  BY <1>1, <1>3, <1>4, <1>6 DEF Mid, Kept, Ios
<1>9. LedgerOK(z, a2, b)
  BY <1>1, <1>3, <1>4, <1>6, WindowIsNat DEF Mid, Facts, LedgerOK, Places
<1>10. ReaderOK(z, t.io, a2, b)
  BY <1>1, <1>3, <1>4, <1>6 DEF Mid, Facts, ReaderOK, Ios
<1>11. WriterOK(z, t.io, a2, b)
  BY <1>1, <1>3, <1>4, <1>6 DEF Mid, Facts, WriterOK, Ios
<1>12. FlagsOK(t.c, a2, b)
  BY <1>1, <1>3, <1>4, <1>6 DEF Mid, OpenOK, FlagsOK, Chans
<1>13. WinOK(z, t.c, a2, b)
  BY <1>1, <1>3, <1>4, <1>6, WindowIsNat DEF Mid, OpenOK, WinOK, Chans, Places
<1>14. OutOK(t.c, t.io, a2)
  BY <1>1, <1>3, <1>4, <1>6 DEF Mid, OpenOK, OutOK, Chans, Ios
<1>15. InOK(z, t.c, t.io, b)
  BY <1>1, <1>3, <1>4, <1>6 DEF Mid, OpenOK, InOK, Chans, Ios
<1>16. ErrOK(z, t.c, t.io, a2, b)
  BY <1>1, <1>3, <1>4, <1>6 DEF Mid, OpenOK, ErrOK, Chans, Ios
<1>17. SesOK(z, t.c, t.io, a2, b)
  BY <1>1, <1>3, <1>4, <1>6 DEF Mid, OpenOK, SesOK, Chans, Ios
<1>18. Honest(z, t.c, t.io, b)
  BY <1>1, <1>3, <1>4, <1>6 DEF Mid, OpenOK, Honest, Complete, Chans, Ios
<1>19. Mid(z, d, t, a2, b)
  BY <1>1, <1>3, <1>4, <1>6, <1>7, <1>8, <1>9, <1>10, <1>11, <1>12, <1>13, <1>14,
     <1>15, <1>16, <1>17, <1>18, <1>2 DEF Mid, OpenOK, Facts
<1>. QED BY <1>19 DEF t, a2

\* chan_rcvd_eow.
LEMMA InputEow ==
  ASSUME NEW z \in Sides, NEW d, NEW s, NEW a, NEW b, Mid(z, d, s, a, b),
         Due(z, a, b, "eow", 0)
  PROVE  Mid(z, d, chan_rcvd_eow(s), After(a, "eow", 0), b)
<1>. DEFINE t == chan_rcvd_eow(s)
            a2 == After(a, "eow", 0)
            i2 == IF s.c.istate = "open" THEN "closed" ELSE s.c.istate
<1>1. s \in States /\ s.c \in Chans /\ s.io \in Ios /\ a \in Places /\ b \in Places
  BY MidTypes
<1>2. a2 \in Places
  BY <1>1, AfterIsPlace DEF Ops
<1>3. /\ a2.st = a.st /\ a2.said = a.said \cup {"eow"}
      /\ a2.data = a.data /\ a2.ext = a.ext /\ a2.adj = a.adj
  BY <1>1 DEF After, Adds, Places, Words
<1>4. z.peer = "fail"
  BY DEF Due
<1>5. t = [s EXCEPT !.c.istate = i2]
  BY <1>1 DEF chan_rcvd_eow, States, Chans
<1>0. i2 \in {"drain", "closed"} /\ (i2 = "drain" <=> s.c.istate = "drain")
      /\ (s.c.istate = "closed" => i2 = "closed")
  BY <1>1 DEF Chans
<1>. HIDE DEF t, a2, i2
<1>6. /\ t.c = [s.c EXCEPT !.istate = i2] /\ t.io = s.io
      /\ t.out = s.out /\ t \in States
  <2>1. t.c = [s.c EXCEPT !.istate = i2] /\ t.io = s.io /\ t.out = s.out
    BY <1>0, <1>1, <1>5 DEF States
  <2>2. t.c \in Chans /\ t.io \in Ios /\ t.out \in Seq(Msgs)
    BY <1>0, <1>1, <1>5, <2>1 DEF States, Chans, Ios
  <2>3. t = [c |-> t.c, io |-> t.io, out |-> t.out]
    BY <1>0, <1>1, <1>5 DEF States
  <2>. QED BY <2>1, <2>2, <2>3 DEF States
<1>7. t.c.type = "open" /\ Belongs(z, t.c)
  BY <1>0, <1>1, <1>3, <1>6 DEF Mid, Belongs, Chans, States
<1>8. Kept(d, t.io)
  BY <1>0, <1>1, <1>3, <1>6 DEF Mid, Kept, Ios
<1>9. LedgerOK(z, a2, b)
  BY <1>0, <1>1, <1>3, <1>6 DEF Mid, Facts, LedgerOK
<1>10. ReaderOK(z, t.io, a2, b)
  BY <1>0, <1>1, <1>3, <1>6 DEF Mid, Facts, ReaderOK, Ios
<1>11. WriterOK(z, t.io, a2, b)
  BY <1>0, <1>1, <1>3, <1>6 DEF Mid, Facts, WriterOK, Ios
<1>12. FlagsOK(t.c, a2, b)
  BY <1>0, <1>1, <1>3, <1>6 DEF Mid, OpenOK, FlagsOK, Chans
<1>13. WinOK(z, t.c, a2, b)
  BY <1>0, <1>1, <1>3, <1>6 DEF Mid, OpenOK, WinOK, Chans
<1>14. OutOK(t.c, t.io, a2)
  BY <1>0, <1>1, <1>3, <1>6 DEF Mid, OpenOK, OutOK, Chans, Ios
<1>15. InOK(z, t.c, t.io, b)
  BY <1>0, <1>1, <1>3, <1>6 DEF Mid, OpenOK, InOK, Chans, Ios
<1>16. ErrOK(z, t.c, t.io, a2, b)
  BY <1>0, <1>1, <1>3, <1>6 DEF Mid, OpenOK, ErrOK, Chans, Ios
<1>17. SesOK(z, t.c, t.io, a2, b)
  BY <1>0, <1>1, <1>3, <1>6 DEF Mid, OpenOK, SesOK, Chans, Ios
<1>18. Honest(z, t.c, t.io, b)
  BY <1>0, <1>1, <1>3, <1>6, <1>4 DEF Mid, OpenOK, Honest, Complete, Chans, Ios
<1>19. Mid(z, d, t, a2, b)
  BY <1>0, <1>1, <1>3, <1>6, <1>7, <1>8, <1>9, <1>10, <1>11, <1>12, <1>13, <1>14,
     <1>15, <1>16, <1>17, <1>18, <1>2 DEF Mid, OpenOK, Facts
<1>. QED BY <1>19 DEF t, a2

\* client_input_exit_status.
LEMMA InputExitStatus ==
  ASSUME NEW z \in Sides, NEW d, NEW s, NEW a, NEW b, Mid(z, d, s, a, b),
         Due(z, a, b, "exit-status", 0)
  PROVE  Mid(z, d, client_input_exit_status(s, "exit-status"), After(a, "exit-status", 0), b)
<1>. DEFINE t == client_input_exit_status(s, "exit-status")
            a2 == After(a, "exit-status", 0)
<1>1. s \in States /\ s.c \in Chans /\ s.io \in Ios /\ a \in Places /\ b \in Places
  BY MidTypes
<1>2. a2 \in Places
  BY <1>1, AfterIsPlace DEF Ops
<1>3. /\ a2.st = a.st /\ a2.said = a.said \cup {"exit-status"}
      /\ a2.data = a.data /\ a2.ext = a.ext /\ a2.adj = a.adj
  BY <1>1 DEF After, Adds, Places, Words
<1>4. t = [s EXCEPT !.io.status = TRUE]
  BY DEF client_input_exit_status
<1>. HIDE DEF t, a2
<1>6. /\ t.c = s.c /\ t.io = [s.io EXCEPT !.status = TRUE]
      /\ t.out = s.out /\ t \in States
  <2>1. t.c = s.c /\ t.io = [s.io EXCEPT !.status = TRUE] /\ t.out = s.out
    BY <1>1, <1>4 DEF States
  <2>2. t.c \in Chans /\ t.io \in Ios /\ t.out \in Seq(Msgs)
    BY <1>1, <1>4, <2>1 DEF States, Chans, Ios
  <2>3. t = [c |-> t.c, io |-> t.io, out |-> t.out]
    BY <1>1, <1>4 DEF States
  <2>. QED BY <2>1, <2>2, <2>3 DEF States
<1>7. t.c.type = "open" /\ Belongs(z, t.c)
  BY <1>1, <1>3, <1>6 DEF Mid, Belongs, Chans, States
<1>8. Kept(d, t.io)
  BY <1>1, <1>3, <1>6 DEF Mid, Kept, Ios
<1>9. LedgerOK(z, a2, b)
  BY <1>1, <1>3, <1>6 DEF Mid, Facts, LedgerOK
<1>10. ReaderOK(z, t.io, a2, b)
  BY <1>1, <1>3, <1>6 DEF Mid, Facts, ReaderOK, Ios
<1>11. WriterOK(z, t.io, a2, b)
  BY <1>1, <1>3, <1>6 DEF Mid, Facts, WriterOK, Ios
<1>12. FlagsOK(t.c, a2, b)
  BY <1>1, <1>3, <1>6 DEF Mid, OpenOK, FlagsOK, Chans
<1>13. WinOK(z, t.c, a2, b)
  BY <1>1, <1>3, <1>6 DEF Mid, OpenOK, WinOK, Chans
<1>14. OutOK(t.c, t.io, a2)
  BY <1>1, <1>3, <1>6 DEF Mid, OpenOK, OutOK, Chans, Ios
<1>15. InOK(z, t.c, t.io, b)
  BY <1>1, <1>3, <1>6 DEF Mid, OpenOK, InOK, Chans, Ios
<1>16. ErrOK(z, t.c, t.io, a2, b)
  BY <1>1, <1>3, <1>6 DEF Mid, OpenOK, ErrOK, Chans, Ios
<1>17. SesOK(z, t.c, t.io, a2, b)
  BY <1>1, <1>3, <1>6 DEF Mid, OpenOK, SesOK, Chans, Ios
<1>18. Honest(z, t.c, t.io, b)
  BY <1>1, <1>3, <1>6 DEF Mid, OpenOK, Honest, Complete, Chans, Ios
<1>19. Mid(z, d, t, a2, b)
  BY <1>1, <1>3, <1>6, <1>7, <1>8, <1>9, <1>10, <1>11, <1>12, <1>13, <1>14, <1>15,
     <1>16, <1>17, <1>18, <1>2 DEF Mid, OpenOK, Facts
<1>. QED BY <1>19 DEF t, a2

\* The same for a signal.
LEMMA InputExitSignal ==
  ASSUME NEW z \in Sides, NEW d, NEW s, NEW a, NEW b, Mid(z, d, s, a, b),
         Due(z, a, b, "exit-signal", 0)
  PROVE  Mid(z, d, client_input_exit_status(s, "exit-signal"), After(a, "exit-signal", 0), b)
<1>. DEFINE t == client_input_exit_status(s, "exit-signal")
            a2 == After(a, "exit-signal", 0)
<1>1. s \in States /\ s.c \in Chans /\ s.io \in Ios /\ a \in Places /\ b \in Places
  BY MidTypes
<1>2. a2 \in Places
  BY <1>1, AfterIsPlace DEF Ops
<1>3. /\ a2.st = a.st /\ a2.said = a.said \cup {"exit-signal"}
      /\ a2.data = a.data /\ a2.ext = a.ext /\ a2.adj = a.adj
  BY <1>1 DEF After, Adds, Places, Words
<1>4. t = s
  BY DEF client_input_exit_status
<1>. HIDE DEF t, a2
<1>6. /\ t.c = s.c /\ t.io = s.io
      /\ t.out = s.out /\ t \in States
  <2>1. t.c = s.c /\ t.io = s.io /\ t.out = s.out
    BY <1>1, <1>4 DEF States
  <2>2. t.c \in Chans /\ t.io \in Ios /\ t.out \in Seq(Msgs)
    BY <1>1, <1>4, <2>1 DEF States, Chans, Ios
  <2>3. t = [c |-> t.c, io |-> t.io, out |-> t.out]
    BY <1>1, <1>4 DEF States
  <2>. QED BY <2>1, <2>2, <2>3 DEF States
<1>7. t.c.type = "open" /\ Belongs(z, t.c)
  BY <1>1, <1>3, <1>6 DEF Mid, Belongs, Chans, States
<1>8. Kept(d, t.io)
  BY <1>1, <1>3, <1>6 DEF Mid, Kept, Ios
<1>9. LedgerOK(z, a2, b)
  BY <1>1, <1>3, <1>6 DEF Mid, Facts, LedgerOK
<1>10. ReaderOK(z, t.io, a2, b)
  BY <1>1, <1>3, <1>6 DEF Mid, Facts, ReaderOK, Ios
<1>11. WriterOK(z, t.io, a2, b)
  BY <1>1, <1>3, <1>6 DEF Mid, Facts, WriterOK, Ios
<1>12. FlagsOK(t.c, a2, b)
  BY <1>1, <1>3, <1>6 DEF Mid, OpenOK, FlagsOK, Chans
<1>13. WinOK(z, t.c, a2, b)
  BY <1>1, <1>3, <1>6 DEF Mid, OpenOK, WinOK, Chans
<1>14. OutOK(t.c, t.io, a2)
  BY <1>1, <1>3, <1>6 DEF Mid, OpenOK, OutOK, Chans, Ios
<1>15. InOK(z, t.c, t.io, b)
  BY <1>1, <1>3, <1>6 DEF Mid, OpenOK, InOK, Chans, Ios
<1>16. ErrOK(z, t.c, t.io, a2, b)
  BY <1>1, <1>3, <1>6 DEF Mid, OpenOK, ErrOK, Chans, Ios
<1>17. SesOK(z, t.c, t.io, a2, b)
  BY <1>1, <1>3, <1>6 DEF Mid, OpenOK, SesOK, Chans, Ios
<1>18. Honest(z, t.c, t.io, b)
  BY <1>1, <1>3, <1>6 DEF Mid, OpenOK, Honest, Complete, Chans, Ios
<1>19. Mid(z, d, t, a2, b)
  BY <1>1, <1>3, <1>6, <1>7, <1>8, <1>9, <1>10, <1>11, <1>12, <1>13, <1>14, <1>15,
     <1>16, <1>17, <1>18, <1>2 DEF Mid, OpenOK, Facts
<1>. QED BY <1>19 DEF t, a2

\* chan_rcvd_ieof.
LEMMA InputEof ==
  ASSUME NEW z \in Sides, NEW d, NEW s, NEW a, NEW b, Mid(z, d, s, a, b),
         Due(z, a, b, "EOF", 0)
  PROVE  Mid(z, d, chan_rcvd_ieof(s), After(a, "EOF", 0), b)
<1>. DEFINE o2 == IF s.c.ostate = "open" THEN "drain" ELSE s.c.ostate
            t == [s EXCEPT !.c.flags = @ \cup {"EOF_RCVD"}, !.c.ostate = o2]
            a2 == After(a, "EOF", 0)
<1>1. s \in States /\ s.c \in Chans /\ s.io \in Ios /\ a \in Places /\ b \in Places
  BY MidTypes
<1>2. a2 \in Places
  BY <1>1, AfterIsPlace DEF Ops
<1>3. /\ a2.st = a.st /\ a2.said = a.said \cup {"EOF"}
      /\ a2.data = a.data /\ a2.ext = a.ext /\ a2.adj = a.adj
  BY <1>1 DEF After, Adds, Places, Words
<1>4. chan_rcvd_ieof(s) = IF t.c.ostate = "drain" /\ t.c.output = 0 /\ ~EfdOutputActive(t.c)
                          THEN chan_obuf_empty(t) ELSE t
  <2>. DEFINE f == Flag(s, "EOF_RCVD")
              u == IF f.c.ostate = "open" THEN [f EXCEPT !.c.ostate = "drain"] ELSE f
  <2>1. t = u
    BY <1>1 DEF Flag, States, Chans
  <2>2. chan_rcvd_ieof(s) = IF u.c.ostate = "drain" /\ u.c.output = 0 /\ ~EfdOutputActive(u.c)
                            THEN chan_obuf_empty(u) ELSE u
    BY DEF chan_rcvd_ieof
  <2>. HIDE DEF t, u
  <2>. QED BY <2>1, <2>2
<1>5. t = [s EXCEPT !.c.flags = @ \cup {"EOF_RCVD"}, !.c.ostate = o2]
  OBVIOUS
<1>0. /\ o2 \in {"drain", "closed"} /\ (o2 = "closed" <=> s.c.ostate = "closed")
      /\ s.c.flags \cup {"EOF_RCVD"} \in SUBSET Flags
  BY <1>1 DEF Chans, Flags
<1>. HIDE DEF t, a2, o2
<1>6. /\ t.c = [s.c EXCEPT !.flags = s.c.flags \cup {"EOF_RCVD"}, !.ostate = o2] /\ t.io = s.io
      /\ t.out = s.out /\ t \in States
  <2>1. t.c = [s.c EXCEPT !.flags = s.c.flags \cup {"EOF_RCVD"}, !.ostate = o2] /\ t.io = s.io /\ t.out = s.out
    BY <1>0, <1>1, <1>5 DEF States
  <2>2. t.c \in Chans /\ t.io \in Ios /\ t.out \in Seq(Msgs)
    BY <1>0, <1>1, <1>5, <2>1 DEF States, Chans, Ios
  <2>3. t = [c |-> t.c, io |-> t.io, out |-> t.out]
    BY <1>0, <1>1, <1>5 DEF States
  <2>. QED BY <2>1, <2>2, <2>3 DEF States
<1>7. t.c.type = "open" /\ Belongs(z, t.c)
  BY SMTT(60), <1>0, <1>1, <1>3, <1>6 DEF Mid, Belongs, Chans, States
<1>8. Kept(d, t.io)
  BY <1>0, <1>1, <1>3, <1>6 DEF Mid, Kept, Ios
<1>9. LedgerOK(z, a2, b)
  BY <1>0, <1>1, <1>3, <1>6 DEF Mid, Facts, LedgerOK
<1>10. ReaderOK(z, t.io, a2, b)
  BY <1>0, <1>1, <1>3, <1>6 DEF Mid, Facts, ReaderOK, Ios
<1>11. WriterOK(z, t.io, a2, b)
  BY <1>0, <1>1, <1>3, <1>6 DEF Mid, Facts, WriterOK, Ios
<1>12. FlagsOK(t.c, a2, b)
  BY <1>0, <1>1, <1>3, <1>6 DEF Mid, OpenOK, FlagsOK, Chans
<1>13. WinOK(z, t.c, a2, b)
  BY <1>0, <1>1, <1>3, <1>6 DEF Mid, OpenOK, WinOK, Chans
<1>14. OutOK(t.c, t.io, a2)
  BY <1>0, <1>1, <1>3, <1>6 DEF Mid, OpenOK, OutOK, Chans, Ios
<1>15. InOK(z, t.c, t.io, b)
  BY <1>0, <1>1, <1>3, <1>6 DEF Mid, OpenOK, InOK, Chans, Ios
<1>16. ErrOK(z, t.c, t.io, a2, b)
  BY <1>0, <1>1, <1>3, <1>6 DEF Mid, OpenOK, ErrOK, Chans, Ios
<1>17. SesOK(z, t.c, t.io, a2, b)
  BY <1>0, <1>1, <1>3, <1>6 DEF Mid, OpenOK, SesOK, Chans, Ios
<1>18. Honest(z, t.c, t.io, b)
  BY <1>0, <1>1, <1>3, <1>6 DEF Mid, OpenOK, Honest, Complete, Chans, Ios
<1>19. Mid(z, d, t, a2, b)
  BY <1>0, <1>1, <1>3, <1>6, <1>7, <1>8, <1>9, <1>10, <1>11, <1>12, <1>13, <1>14,
     <1>15, <1>16, <1>17, <1>18, <1>2 DEF Mid, OpenOK, Facts
<1>. QED BY <1>4, <1>19, ObufEmpty DEF a2

\* chan_rcvd_oclose of an open channel.
LEMMA InputClose ==
  ASSUME NEW z \in Sides, NEW d, NEW s, NEW a, NEW b, Mid(z, d, s, a, b),
         Due(z, a, b, "CLOSE", 0)
  PROVE  \E b2 \in Places : Mid(z, d, chan_rcvd_oclose(s), After(a, "CLOSE", 0), b2)
<1>. DEFINE t == chan_rcvd_oclose(s)
            o2 == IF s.c.ostate = "open" THEN "drain" ELSE s.c.ostate
            e2 == IF Usage(s.c) = "read" THEN FALSE ELSE s.c.efd
            f2 == s.c.flags \cup {"CLOSE_RCVD"}
            o == [s EXCEPT !.c.flags = f2, !.c.ostate = o2]
            a2 == After(a, "CLOSE", 0)
<1>1. s \in States /\ s.c \in Chans /\ s.io \in Ios /\ a \in Places /\ b \in Places
  BY MidTypes
<1>2. a2 \in Places
  BY <1>1, AfterIsPlace DEF Ops
<1>3. /\ a2.st = "closed" /\ a2.said = a.said
      /\ a2.data = a.data /\ a2.ext = a.ext /\ a2.adj = a.adj
  BY <1>1 DEF After, Adds, Places, Words
<1>4. a.st = "up" /\ ("EOF" \notin b.said /\ b.st # "closed" => z.peer = "fail")
  BY DEF Due, Hears, Allowed
<1>5. /\ s.c.type = "open" /\ s.c.rid = z.to /\ s.c.g = z.g
      /\ s.c.istate \in {"open", "drain", "closed"}
  BY <1>1 DEF Mid, Belongs, Chans
<1>6. /\ o2 \in {"drain", "closed"} /\ (o2 = "closed" <=> s.c.ostate = "closed")
      /\ f2 \in SUBSET Flags /\ "CLOSE_RCVD" \in f2
      /\ \A f \in {"CLOSE_SENT", "EOF_SENT", "EOF_RCVD"} : f \in f2 <=> f \in s.c.flags
  BY <1>1 DEF Chans, Flags
<1>7. e2 \in BOOLEAN
  BY <1>1 DEF Chans
<1>8. ~ExecServer(z) => e2 = s.c.efd
  BY DEF Mid, Usage, IsSession, Belongs, ExecServer
<1>9. o = LET f == Flag(s, "CLOSE_RCVD")
          IN  IF f.c.ostate = "open" THEN [f EXCEPT !.c.ostate = "drain"] ELSE f
  BY <1>1 DEF Flag, States, Chans
<1>10. /\ o.c = [s.c EXCEPT !.flags = f2, !.ostate = o2] /\ o.io = s.io /\ o.out = s.out
       /\ o \in States
  <2>0. o = [s EXCEPT !.c.flags = f2, !.c.ostate = o2]
    OBVIOUS
  <2>. HIDE DEF o, o2, f2
  <2>1. o.c = [s.c EXCEPT !.flags = f2, !.ostate = o2] /\ o.io = s.io /\ o.out = s.out
    BY <1>1, <2>0 DEF States
  <2>2. o = [c |-> o.c, io |-> o.io, out |-> o.out]
    BY <1>1, <2>0 DEF States
  <2>3. o.c \in Chans /\ o.io \in Ios /\ o.out \in Seq(Msgs)
    BY <1>1, <1>6, <2>1 DEF States, Chans
  <2>. QED BY <2>1, <2>2, <2>3 DEF States
<1>11. ASSUME NEW y \in States, NEW f,
              y.c = [s.c EXCEPT !.flags = f, !.ostate = o2, !.istate = "closed"]
       PROVE  /\ ShutdownExtendedRead(y).io = y.io /\ ShutdownExtendedRead(y).out = y.out
              /\ ShutdownExtendedRead(y).c =
                   [s.c EXCEPT !.flags = f, !.ostate = o2, !.istate = "closed", !.efd = e2]
              /\ ShutdownExtendedRead(y) \in States
  <2>. DEFINE q == ShutdownExtendedRead(y)
  <2>. HIDE DEF o2
  <2>1. /\ y.c.kind = s.c.kind /\ y.c.end = s.c.end /\ y.c.efd = s.c.efd
        /\ y.c \in Chans /\ y.io \in Ios /\ y.out \in Seq(Msgs)
    BY <1>1, <1>11 DEF Chans, States
  <2>2. Usage(y.c) = Usage(s.c)
    BY <2>1 DEF Usage, IsSession
  <2>3. q = [y EXCEPT !.c.efd = e2]
    <3>1. CASE Usage(s.c) = "read"
      BY <2>2, <3>1 DEF ShutdownExtendedRead
    <3>2. CASE Usage(s.c) # "read"
      <4>1. q = y /\ e2 = y.c.efd
        BY <2>1, <2>2, <3>2 DEF ShutdownExtendedRead
      <4>. HIDE DEF q, e2
      <4>. QED BY <4>1, <2>1 DEF States, Chans
    <3>. QED BY <3>1, <3>2
  <2>. HIDE DEF q, e2
  <2>4. q.c = [y.c EXCEPT !.efd = e2] /\ q.io = y.io /\ q.out = y.out
    BY <2>1, <2>3 DEF States
  <2>5. q.c = [s.c EXCEPT !.flags = f, !.ostate = o2, !.istate = "closed", !.efd = e2]
    BY <1>11, <2>4
  <2>6. q.c \in Chans
    BY <1>7, <2>1, <2>4 DEF Chans
  <2>7. q = [c |-> q.c, io |-> q.io, out |-> q.out]
    BY <2>1, <2>3 DEF States
  <2>. QED BY <2>1, <2>4, <2>5, <2>6, <2>7 DEF q, States
<1>12. CASE s.c.istate = "closed"
  <2>1. t = o
    BY <1>5, <1>9, <1>12 DEF chan_rcvd_oclose
  <2>. HIDE DEF t, o, o2, e2, f2, a2
  <2>2. t.c.type = "open" /\ Belongs(z, t.c)
    BY ZenonT(90), <1>1, <1>3, <1>6, <1>10, <2>1 DEF Mid, Belongs, Chans, States
  <2>3. Kept(d, t.io)
    BY <1>1, <1>3, <1>6, <1>10, <2>1 DEF Mid, Kept, Ios
  <2>4. LedgerOK(z, a2, b)
    BY <1>1, <1>3, <1>6, <1>10, <2>1 DEF Mid, Facts, LedgerOK
  <2>5. ReaderOK(z, t.io, a2, b)
    BY <1>1, <1>3, <1>6, <1>10, <2>1 DEF Mid, Facts, ReaderOK, Ios
  <2>6. WriterOK(z, t.io, a2, b)
    BY <1>1, <1>3, <1>6, <1>10, <2>1 DEF Mid, Facts, WriterOK, Ios
  <2>7. FlagsOK(t.c, a2, b)
    BY ZenonT(90), <1>1, <1>3, <1>6, <1>10, <2>1 DEF Mid, OpenOK, FlagsOK, Chans
  <2>8. WinOK(z, t.c, a2, b)
    BY <1>1, <1>3, <1>6, <1>10, <2>1 DEF Mid, OpenOK, WinOK, Chans
  <2>9. OutOK(t.c, t.io, a2)
    BY ZenonT(90), <1>1, <1>3, <1>6, <1>10, <2>1 DEF Mid, OpenOK, OutOK, Chans, Ios
  <2>10. InOK(z, t.c, t.io, b)
    BY ZenonT(90), <1>1, <1>3, <1>6, <1>10, <2>1 DEF Mid, OpenOK, InOK, Chans, Ios
  <2>11. ErrOK(z, t.c, t.io, a2, b)
    BY ZenonT(90), <1>1, <1>3, <1>6, <1>10, <2>1 DEF Mid, OpenOK, ErrOK, Chans, Ios
  <2>12. SesOK(z, t.c, t.io, a2, b)
    BY ZenonT(90), <1>1, <1>3, <1>6, <1>10, <2>1 DEF Mid, OpenOK, SesOK, Chans, Ios
  <2>13. Honest(z, t.c, t.io, b)
    BY <1>1, <1>3, <1>6, <1>10, <2>1, <1>12 DEF Mid, OpenOK, Honest, Complete, Chans,
       Ios
  <2>14. Mid(z, d, t, a2, b)
    BY <1>1, <1>3, <1>6, <1>10, <2>1, <2>2, <2>3, <2>4, <2>5, <2>6, <2>7, <2>8, <2>9,
       <2>10, <2>11, <2>12, <2>13, <1>2 DEF Mid, OpenOK, Facts
  <2>. QED BY <1>1, <2>14 DEF a2, t
<1>13. CASE s.c.istate = "open"
  <2>. DEFINE y == [o EXCEPT !.c.istate = "closed"]
  <2>1. t = ShutdownExtendedRead(y)
    BY <1>5, <1>9, <1>13 DEF chan_rcvd_oclose
  <2>. HIDE DEF t, o, o2, e2, f2, a2
  <2>2. /\ y.c = [s.c EXCEPT !.flags = f2, !.ostate = o2, !.istate = "closed"]
        /\ y.io = s.io /\ y.out = s.out /\ y \in States
    <3>1. /\ y.c = [s.c EXCEPT !.flags = f2, !.ostate = o2, !.istate = "closed"]
          /\ y.io = s.io /\ y.out = s.out
      BY <1>1, <1>10 DEF States, Chans
    <3>2. y = [c |-> y.c, io |-> y.io, out |-> y.out]
      BY <1>10 DEF States
    <3>. HIDE DEF y
    <3>3. y.c \in Chans /\ y.io \in Ios /\ y.out \in Seq(Msgs)
      BY ZenonT(90), <1>1, <1>6, <3>1 DEF States, Chans
    <3>. QED BY <3>1, <3>2, <3>3 DEF States
  <2>. HIDE DEF y
  <2>3. /\ t.c = [s.c EXCEPT !.flags = f2, !.ostate = o2, !.istate = "closed", !.efd = e2]
        /\ t.io = s.io /\ t.out = s.out /\ t \in States
    BY <1>11, <2>1, <2>2
  <2>0. "EOF" \notin b.said /\ b.st # "closed"
    BY <1>13 DEF Mid, OpenOK, FlagsOK
  <2>4. t.c.type = "open" /\ Belongs(z, t.c)
    BY <1>1, <1>3, <1>4, <1>6, <1>7, <1>8, <2>0, <2>3 DEF Mid, Belongs, Chans, States
  <2>5. Kept(d, t.io)
    BY <1>1, <1>3, <1>4, <1>6, <1>7, <1>8, <2>0, <2>3 DEF Mid, Kept, Ios
  <2>6. LedgerOK(z, a2, b)
    BY <1>1, <1>3, <1>4, <1>6, <1>7, <1>8, <2>0, <2>3 DEF Mid, Facts, LedgerOK
  <2>7. ReaderOK(z, t.io, a2, b)
    BY <1>1, <1>3, <1>4, <1>6, <1>7, <1>8, <2>0, <2>3 DEF Mid, Facts, ReaderOK, Ios
  <2>8. WriterOK(z, t.io, a2, b)
    BY <1>1, <1>3, <1>4, <1>6, <1>7, <1>8, <2>0, <2>3 DEF Mid, Facts, WriterOK, Ios
  <2>9. FlagsOK(t.c, a2, b)
    BY <1>1, <1>3, <1>4, <1>6, <1>7, <1>8, <2>0, <2>3 DEF Mid, OpenOK, FlagsOK, Chans
  <2>10. WinOK(z, t.c, a2, b)
    BY <1>1, <1>3, <1>4, <1>6, <1>7, <1>8, <2>0, <2>3 DEF Mid, OpenOK, WinOK, Chans,
       ExecServer, SesClient
  <2>11. OutOK(t.c, t.io, a2)
    BY <1>1, <1>3, <1>4, <1>6, <1>7, <1>8, <2>0, <2>3 DEF Mid, OpenOK, OutOK, Chans, Ios
  <2>12. InOK(z, t.c, t.io, b)
    BY <1>1, <1>3, <1>4, <1>6, <1>7, <1>8, <2>0, <2>3 DEF Mid, OpenOK, InOK, Chans, Ios
  <2>13. ErrOK(z, t.c, t.io, a2, b)
    BY <1>1, <1>3, <1>4, <1>6, <1>7, <1>8, <2>0, <2>3 DEF Mid, OpenOK, ErrOK, Chans,
       Ios, ExecServer, ExecClient
  <2>14. SesOK(z, t.c, t.io, a2, b)
    BY <1>1, <1>3, <1>4, <1>6, <1>7, <1>8, <2>0, <2>3 DEF Mid, OpenOK, SesOK, Chans, Ios
  <2>15. Honest(z, t.c, t.io, b)
    BY <1>1, <1>3, <1>4, <1>6, <1>7, <1>8, <2>0, <2>3 DEF Mid, OpenOK, Honest,
       Complete, Chans, Ios
  <2>16. Mid(z, d, t, a2, b)
    BY <1>1, <1>3, <1>4, <1>6, <1>7, <1>8, <2>0, <2>3, <2>4, <2>5, <2>6, <2>7, <2>8,
       <2>9, <2>10, <2>11, <2>12, <2>13, <2>14, <2>15, <1>2 DEF Mid, OpenOK, Facts
  <2>. QED BY <1>1, <2>16 DEF a2, t
<1>14. CASE s.c.istate = "drain"
  <2>. DEFINE w == Enqueue(o, "EOF", 0)
              y == [[w EXCEPT !.c.flags = @ \cup {"EOF_SENT"}] EXCEPT !.c.istate = "closed"]
              f3 == f2 \cup {"EOF_SENT"}
              b2 == After(b, "EOF", 0)
  <2>0. "EOF" \notin b.said /\ b.st # "closed"
    BY <1>14 DEF Mid, OpenOK, FlagsOK
  <2>1. t = ShutdownExtendedRead(y)
    BY <1>5, <1>9, <1>14 DEF chan_rcvd_oclose, chan_send_eof2, Flag
  <2>2. Allowed(Opener(z), SesClient(z), b, "EOF")
    BY <2>0 DEF Allowed, Mid, OpenOK, FlagsOK, SesOK
  <2>3. w \in States /\ w.c = o.c /\ w.io = s.io /\ Sent(z, d.out, w.out, b2)
    <3>. HIDE DEF o, o2, f2, e2
    <3>1. o.c.rid = z.to /\ o.c.g = z.g /\ Sent(z, d.out, o.out, b)
      BY <1>1, <1>5, <1>10 DEF Mid, Chans
    <3>2. "EOF" \in Ops \ {"OPEN", "CONFIRM"}
      BY DEF Ops
    <3>3. /\ Enqueue(o, "EOF", 0) \in States /\ Enqueue(o, "EOF", 0).c = o.c
          /\ Enqueue(o, "EOF", 0).io = o.io
          /\ Sent(z, d.out, Enqueue(o, "EOF", 0).out, After(b, "EOF", 0))
      BY <1>10, <2>2, <3>1, <3>2, Enqueues
    <3>. QED BY <1>10, <3>3
  <2>4. b2 \in Places
    BY <1>1, AfterIsPlace DEF Ops
  <2>5. /\ b2.st = b.st /\ b2.said = b.said \cup {"EOF"}
        /\ b2.data = b.data /\ b2.ext = b.ext /\ b2.adj = b.adj
    BY <1>1 DEF After, Adds, Places, Words
  <2>6. /\ f3 \in SUBSET Flags /\ "CLOSE_RCVD" \in f3 /\ "EOF_SENT" \in f3
        /\ \A f \in {"CLOSE_SENT", "EOF_RCVD"} : f \in f3 <=> f \in s.c.flags
    <3>. HIDE DEF f2
    <3>. QED BY <1>6 DEF Flags
  <2>. HIDE DEF t, o, o2, e2, f2, a2, w, b2
  <2>7. /\ y.c = [s.c EXCEPT !.flags = f3, !.ostate = o2, !.istate = "closed"]
        /\ y.io = s.io /\ y.out = w.out /\ y \in States
    <3>0. w.c = [s.c EXCEPT !.flags = f2, !.ostate = o2] /\ w.c \in Chans
      BY <1>10, <2>3 DEF States
    <3>. DEFINE x == [w EXCEPT !.c.flags = @ \cup {"EOF_SENT"}]
    <3>4. x.c = [w.c EXCEPT !.flags = w.c.flags \cup {"EOF_SENT"}] /\ x.io = w.io /\ x.out = w.out
          /\ DOMAIN x = {"c", "io", "out"}
      BY <2>3 DEF States
    <3>5. y = [x EXCEPT !.c.istate = "closed"] /\ w.c.flags \cup {"EOF_SENT"} = f3
      BY <1>1, <3>0 DEF Chans
    <3>. HIDE DEF x, f3, y
    <3>6. y.c = [x.c EXCEPT !.istate = "closed"] /\ y.io = w.io /\ y.out = w.out
      BY <3>4, <3>5
    <3>1. /\ y.c = [s.c EXCEPT !.flags = f3, !.ostate = o2, !.istate = "closed"]
          /\ y.io = s.io /\ y.out = w.out
      <4>1. x.c = [s.c EXCEPT !.flags = f3, !.ostate = o2]
        <5>1. x.c = [w.c EXCEPT !.flags = f3]
          BY <3>4, <3>5
        <5>. QED BY <1>1, <3>0, <5>1 DEF Chans
      <4>. QED BY <1>1, <2>3, <3>6, <4>1 DEF Chans
    <3>2. y = [c |-> y.c, io |-> y.io, out |-> y.out]
      BY <3>4, <3>5
    <3>3. y.c \in Chans /\ y.io \in Ios /\ y.out \in Seq(Msgs)
      BY ZenonT(90), <1>1, <1>6, <2>3, <2>6, <3>1 DEF States, Chans
    <3>. QED BY <3>1, <3>2, <3>3 DEF States
  <2>. HIDE DEF y
  <2>8. /\ t.c = [s.c EXCEPT !.flags = f3, !.ostate = o2, !.istate = "closed", !.efd = e2]
        /\ t.io = s.io /\ t.out = w.out /\ t \in States
    BY <1>11, <2>1, <2>7
  <2>9. t.c.type = "open" /\ Belongs(z, t.c)
    BY SMTT(60), <1>1, <1>3, <1>4, <1>6, <1>7, <1>8, <2>0, <2>5, <2>8 DEF Mid, Belongs, Chans,
       States
  <2>10. Kept(d, t.io)
    BY <1>1, <1>3, <1>4, <1>6, <1>7, <1>8, <2>0, <2>5, <2>8 DEF Mid, Kept, Ios
  <2>11. LedgerOK(z, a2, b2)
    BY <1>1, <1>3, <1>4, <1>6, <1>7, <1>8, <2>0, <2>5, <2>8 DEF Mid, Facts, LedgerOK
  <2>12. ReaderOK(z, t.io, a2, b2)
    BY <1>1, <1>3, <1>4, <1>6, <1>7, <1>8, <2>0, <2>5, <2>8 DEF Mid, Facts, ReaderOK,
       Ios
  <2>13. WriterOK(z, t.io, a2, b2)
    BY <1>1, <1>3, <1>4, <1>6, <1>7, <1>8, <2>0, <2>5, <2>8 DEF Mid, Facts, WriterOK,
       Ios
  <2>14. FlagsOK(t.c, a2, b2)
    BY <1>1, <1>3, <1>4, <1>6, <1>7, <1>8, <2>0, <2>5, <2>8, <2>6 DEF Mid, OpenOK,
       FlagsOK, Chans
  <2>15. WinOK(z, t.c, a2, b2)
    BY <1>1, <1>3, <1>4, <1>6, <1>7, <1>8, <2>0, <2>5, <2>8 DEF Mid, OpenOK, WinOK,
       Chans, ExecServer, SesClient
  <2>16. OutOK(t.c, t.io, a2)
    BY <1>1, <1>3, <1>4, <1>6, <1>7, <1>8, <2>0, <2>5, <2>8 DEF Mid, OpenOK, OutOK,
       Chans, Ios
  <2>17. InOK(z, t.c, t.io, b2)
    BY <1>1, <1>3, <1>4, <1>6, <1>7, <1>8, <2>0, <2>5, <2>8 DEF Mid, OpenOK, InOK,
       Chans, Ios
  <2>18. ErrOK(z, t.c, t.io, a2, b2)
    BY <1>1, <1>3, <1>4, <1>6, <1>7, <1>8, <2>0, <2>5, <2>8 DEF Mid, OpenOK, ErrOK,
       Chans, Ios, ExecServer, ExecClient
  <2>19. SesOK(z, t.c, t.io, a2, b2)
    BY <1>1, <1>3, <1>4, <1>6, <1>7, <1>8, <2>0, <2>5, <2>8 DEF Mid, OpenOK, SesOK,
       Chans, Ios
  <2>20. Honest(z, t.c, t.io, b2)
    BY <1>1, <1>3, <1>4, <1>6, <1>7, <1>8, <2>0, <2>5, <2>8 DEF Mid, OpenOK, Honest,
       Complete, Chans, Ios
  <2>21. Mid(z, d, t, a2, b2)
    BY <1>1, <1>3, <1>4, <1>6, <1>7, <1>8, <2>0, <2>5, <2>8, <2>9, <2>10, <2>11,
       <2>12, <2>13, <2>14, <2>15, <2>16, <2>17, <2>18, <2>19, <2>20, <1>2, <2>3,
       <2>4 DEF Mid, OpenOK, Facts
  <2>. QED BY <2>4, <2>21 DEF a2, t
<1>. QED BY <1>5, <1>12, <1>13, <1>14

-----------------------------------------------------------------------------
(* The programs behind a channel *)

\* Each step of a program keeps what its channel knows of it.
LEMMA ProgramWrites ==
  ASSUME NEW z \in Sides, NEW d, NEW s, NEW a, NEW b, Mid(z, d, s, a, b), NEW x,
         ~s.io.shut, x = [s.io EXCEPT !.made = @ + 1, !.pend = @ + 1]
  PROVE  Mid(z, d, [s EXCEPT !.io = x], a, b)
<1>. DEFINE t == [s EXCEPT !.io = x]
<1>1. s \in States /\ s.c \in Chans /\ s.io \in Ios /\ a \in Places /\ b \in Places
  BY MidTypes
<1>2. x \in Ios
  <2>1. s.io.made \in Nat /\ s.io.pend \in Nat
    BY <1>1 DEF Ios
  <2>2. s.io.made + 1 \in Nat /\ s.io.pend + 1 \in Nat
    BY <2>1
  <2>3. x = [s.io EXCEPT !.made = s.io.made + 1, !.pend = s.io.pend + 1]
    BY <1>1 DEF Ios
  <2>. QED BY <1>1, <2>2, <2>3 DEF Ios
<1>3. t.c = s.c /\ t.io = x /\ t.out = s.out /\ t \in States
  BY <1>1, <1>2 DEF States
<1>. HIDE DEF t
<1>4. t.c.type = "open" /\ Belongs(z, t.c)
  BY <1>1, <1>3 DEF Mid, Belongs, Chans, States
<1>5. Kept(d, t.io)
  BY <1>1, <1>3 DEF Mid, Kept, Ios
<1>6. LedgerOK(z, a, b)
  BY <1>1, <1>3 DEF Mid, Facts, LedgerOK
<1>7. ReaderOK(z, t.io, a, b)
  BY <1>1, <1>3 DEF Mid, Facts, ReaderOK, Ios
<1>8. WriterOK(z, t.io, a, b)
  BY <1>1, <1>3 DEF Mid, Facts, WriterOK, Ios
<1>9. FlagsOK(t.c, a, b)
  BY <1>1, <1>3 DEF Mid, OpenOK, FlagsOK, Chans
<1>10. WinOK(z, t.c, a, b)
  BY <1>1, <1>3 DEF Mid, OpenOK, WinOK, Chans
<1>11. OutOK(t.c, t.io, a)
  BY <1>1, <1>3 DEF Mid, OpenOK, OutOK, Chans, Ios
<1>12. InOK(z, t.c, t.io, b)
  BY <1>1, <1>3 DEF Mid, OpenOK, InOK, Chans, Ios, Places
<1>13. ErrOK(z, t.c, t.io, a, b)
  BY <1>1, <1>3 DEF Mid, OpenOK, ErrOK, Chans, Ios
<1>14. SesOK(z, t.c, t.io, a, b)
  BY <1>1, <1>3 DEF Mid, OpenOK, SesOK, Chans, Ios
<1>15. Honest(z, t.c, t.io, b)
  BY <1>1, <1>3 DEF Mid, OpenOK, Honest, Complete, Chans, Ios
<1>16. Mid(z, d, t, a, b)
  BY <1>1, <1>3, <1>4, <1>5, <1>6, <1>7, <1>8, <1>9, <1>10, <1>11, <1>12, <1>13,
     <1>14, <1>15 DEF Mid, OpenOK, Facts
<1>. QED BY <1>16 DEF t

\* A program closes its output.
LEMMA ProgramEnds ==
  ASSUME NEW z \in Sides, NEW d, NEW s, NEW a, NEW b, Mid(z, d, s, a, b), NEW x,
         x = [s.io EXCEPT !.shut = TRUE]
  PROVE  Mid(z, d, [s EXCEPT !.io = x], a, b)
<1>. DEFINE t == [s EXCEPT !.io = x]
<1>1. s \in States /\ s.c \in Chans /\ s.io \in Ios /\ a \in Places /\ b \in Places
  BY MidTypes
<1>2. x \in Ios
  BY <1>1 DEF Ios
<1>3. t.c = s.c /\ t.io = x /\ t.out = s.out /\ t \in States
  BY <1>1, <1>2 DEF States
<1>. HIDE DEF t
<1>4. t.c.type = "open" /\ Belongs(z, t.c)
  BY <1>1, <1>3 DEF Mid, Belongs, Chans, States
<1>5. Kept(d, t.io)
  BY <1>1, <1>3 DEF Mid, Kept, Ios
<1>6. LedgerOK(z, a, b)
  BY <1>1, <1>3 DEF Mid, Facts, LedgerOK
<1>7. ReaderOK(z, t.io, a, b)
  BY <1>1, <1>3 DEF Mid, Facts, ReaderOK, Ios
<1>8. WriterOK(z, t.io, a, b)
  BY <1>1, <1>3 DEF Mid, Facts, WriterOK, Ios
<1>9. FlagsOK(t.c, a, b)
  BY <1>1, <1>3 DEF Mid, OpenOK, FlagsOK, Chans
<1>10. WinOK(z, t.c, a, b)
  BY <1>1, <1>3 DEF Mid, OpenOK, WinOK, Chans
<1>11. OutOK(t.c, t.io, a)
  BY <1>1, <1>3 DEF Mid, OpenOK, OutOK, Chans, Ios
<1>12. InOK(z, t.c, t.io, b)
  BY <1>1, <1>3 DEF Mid, OpenOK, InOK, Chans, Ios
<1>13. ErrOK(z, t.c, t.io, a, b)
  BY <1>1, <1>3 DEF Mid, OpenOK, ErrOK, Chans, Ios
<1>14. SesOK(z, t.c, t.io, a, b)
  BY <1>1, <1>3 DEF Mid, OpenOK, SesOK, Chans, Ios
<1>15. Honest(z, t.c, t.io, b)
  BY <1>1, <1>3 DEF Mid, OpenOK, Honest, Complete, Chans, Ios
<1>16. Mid(z, d, t, a, b)
  BY <1>1, <1>3, <1>4, <1>5, <1>6, <1>7, <1>8, <1>9, <1>10, <1>11, <1>12, <1>13,
     <1>14, <1>15 DEF Mid, OpenOK, Facts
<1>. QED BY <1>16 DEF t

\* A program is gone.
LEMMA ProgramLeaves ==
  ASSUME NEW z \in Sides, NEW d, NEW s, NEW a, NEW b, Mid(z, d, s, a, b), NEW x,
         NEW q \in BOOLEAN, x = [s.io EXCEPT !.gone = TRUE, !.shut = @ \/ q]
  PROVE  Mid(z, d, [s EXCEPT !.io = x], a, b)
<1>. DEFINE t == [s EXCEPT !.io = x]
<1>1. s \in States /\ s.c \in Chans /\ s.io \in Ios /\ a \in Places /\ b \in Places
  BY MidTypes
<1>0. PICK u \in BOOLEAN : x = [s.io EXCEPT !.gone = TRUE, !.shut = u] /\ (s.io.shut => u)
  <2>1. (s.io.shut \/ q) \in BOOLEAN /\ x = [s.io EXCEPT !.gone = TRUE, !.shut = s.io.shut \/ q]
    BY <1>1 DEF Ios
  <2>. QED BY <2>1
<1>2. x \in Ios
  BY <1>0, <1>1 DEF Ios
<1>3. t.c = s.c /\ t.io = x /\ t.out = s.out /\ t \in States
  BY <1>1, <1>2 DEF States
<1>. HIDE DEF t
<1>4. t.c.type = "open" /\ Belongs(z, t.c)
  BY <1>0, <1>1, <1>3 DEF Mid, Belongs, Chans, States
<1>5. Kept(d, t.io)
  BY <1>0, <1>1, <1>3 DEF Mid, Kept, Ios
<1>6. LedgerOK(z, a, b)
  BY <1>0, <1>1, <1>3 DEF Mid, Facts, LedgerOK
<1>7. ReaderOK(z, t.io, a, b)
  BY <1>0, <1>1, <1>3 DEF Mid, Facts, ReaderOK, Ios
<1>8. WriterOK(z, t.io, a, b)
  BY <1>0, <1>1, <1>3 DEF Mid, Facts, WriterOK, Ios
<1>9. FlagsOK(t.c, a, b)
  BY <1>0, <1>1, <1>3 DEF Mid, OpenOK, FlagsOK, Chans
<1>10. WinOK(z, t.c, a, b)
  BY <1>0, <1>1, <1>3 DEF Mid, OpenOK, WinOK, Chans
<1>11. OutOK(t.c, t.io, a)
  BY <1>0, <1>1, <1>3 DEF Mid, OpenOK, OutOK, Chans, Ios
<1>12. InOK(z, t.c, t.io, b)
  BY <1>0, <1>1, <1>3 DEF Mid, OpenOK, InOK, Chans, Ios
<1>13. ErrOK(z, t.c, t.io, a, b)
  BY <1>0, <1>1, <1>3 DEF Mid, OpenOK, ErrOK, Chans, Ios
<1>14. SesOK(z, t.c, t.io, a, b)
  BY <1>0, <1>1, <1>3 DEF Mid, OpenOK, SesOK, Chans, Ios
<1>15. Honest(z, t.c, t.io, b)
  BY <1>0, <1>1, <1>3 DEF Mid, OpenOK, Honest, Complete, Chans, Ios
<1>16. Mid(z, d, t, a, b)
  BY <1>1, <1>3, <1>4, <1>5, <1>6, <1>7, <1>8, <1>9, <1>10, <1>11, <1>12, <1>13,
     <1>14, <1>15 DEF Mid, OpenOK, Facts
<1>. QED BY <1>16 DEF t

\* A program writes to its standard error ...
LEMMA ProgramWritesErr ==
  ASSUME NEW z \in Sides, NEW d, NEW s, NEW a, NEW b, Mid(z, d, s, a, b), NEW x,
         ExecServer(z), ~s.io.eshut, x = [s.io EXCEPT !.emade = @ + 1, !.epend = @ + 1]
  PROVE  Mid(z, d, [s EXCEPT !.io = x], a, b)
<1>. DEFINE t == [s EXCEPT !.io = x]
<1>1. s \in States /\ s.c \in Chans /\ s.io \in Ios /\ a \in Places /\ b \in Places
  BY MidTypes
<1>2. x \in Ios
  <2>1. s.io.emade \in Nat /\ s.io.epend \in Nat
    BY <1>1 DEF Ios
  <2>2. s.io.emade + 1 \in Nat /\ s.io.epend + 1 \in Nat
    BY <2>1
  <2>3. x = [s.io EXCEPT !.emade = s.io.emade + 1, !.epend = s.io.epend + 1]
    BY <1>1 DEF Ios
  <2>. QED BY <1>1, <2>2, <2>3 DEF Ios
<1>3. t.c = s.c /\ t.io = x /\ t.out = s.out /\ t \in States
  BY <1>1, <1>2 DEF States
<1>. HIDE DEF t
<1>4. t.c.type = "open" /\ Belongs(z, t.c)
  BY <1>1, <1>3 DEF Mid, Belongs, Chans, States
<1>5. Kept(d, t.io)
  BY <1>1, <1>3 DEF Mid, Kept, Ios
<1>6. LedgerOK(z, a, b)
  BY <1>1, <1>3 DEF Mid, Facts, LedgerOK
<1>7. ReaderOK(z, t.io, a, b)
  BY <1>1, <1>3 DEF Mid, Facts, ReaderOK, Ios
<1>8. WriterOK(z, t.io, a, b)
  BY <1>1, <1>3 DEF Mid, Facts, WriterOK, Ios
<1>9. FlagsOK(t.c, a, b)
  BY <1>1, <1>3 DEF Mid, OpenOK, FlagsOK, Chans
<1>10. WinOK(z, t.c, a, b)
  BY <1>1, <1>3 DEF Mid, OpenOK, WinOK, Chans
<1>11. OutOK(t.c, t.io, a)
  BY <1>1, <1>3 DEF Mid, OpenOK, OutOK, Chans, Ios
<1>12. InOK(z, t.c, t.io, b)
  BY <1>1, <1>3 DEF Mid, OpenOK, InOK, Chans, Ios
<1>13. ErrOK(z, t.c, t.io, a, b)
  BY <1>1, <1>3 DEF Mid, OpenOK, ErrOK, Chans, Ios, Places, ExecServer, ExecClient
<1>14. SesOK(z, t.c, t.io, a, b)
  BY <1>1, <1>3 DEF Mid, OpenOK, SesOK, Chans, Ios
<1>15. Honest(z, t.c, t.io, b)
  BY <1>1, <1>3 DEF Mid, OpenOK, Honest, Complete, Chans, Ios
<1>16. Mid(z, d, t, a, b)
  BY <1>1, <1>3, <1>4, <1>5, <1>6, <1>7, <1>8, <1>9, <1>10, <1>11, <1>12, <1>13,
     <1>14, <1>15 DEF Mid, OpenOK, Facts
<1>. QED BY <1>16 DEF t

\* ... or closes it.
LEMMA ProgramEndsErr ==
  ASSUME NEW z \in Sides, NEW d, NEW s, NEW a, NEW b, Mid(z, d, s, a, b), NEW x,
         x = [s.io EXCEPT !.eshut = TRUE]
  PROVE  Mid(z, d, [s EXCEPT !.io = x], a, b)
<1>. DEFINE t == [s EXCEPT !.io = x]
<1>1. s \in States /\ s.c \in Chans /\ s.io \in Ios /\ a \in Places /\ b \in Places
  BY MidTypes
<1>2. x \in Ios
  BY <1>1 DEF Ios
<1>3. t.c = s.c /\ t.io = x /\ t.out = s.out /\ t \in States
  BY <1>1, <1>2 DEF States
<1>. HIDE DEF t
<1>4. t.c.type = "open" /\ Belongs(z, t.c)
  BY <1>1, <1>3 DEF Mid, Belongs, Chans, States
<1>5. Kept(d, t.io)
  BY <1>1, <1>3 DEF Mid, Kept, Ios
<1>6. LedgerOK(z, a, b)
  BY <1>1, <1>3 DEF Mid, Facts, LedgerOK
<1>7. ReaderOK(z, t.io, a, b)
  BY <1>1, <1>3 DEF Mid, Facts, ReaderOK, Ios
<1>8. WriterOK(z, t.io, a, b)
  BY <1>1, <1>3 DEF Mid, Facts, WriterOK, Ios
<1>9. FlagsOK(t.c, a, b)
  BY <1>1, <1>3 DEF Mid, OpenOK, FlagsOK, Chans
<1>10. WinOK(z, t.c, a, b)
  BY <1>1, <1>3 DEF Mid, OpenOK, WinOK, Chans
<1>11. OutOK(t.c, t.io, a)
  BY <1>1, <1>3 DEF Mid, OpenOK, OutOK, Chans, Ios
<1>12. InOK(z, t.c, t.io, b)
  BY <1>1, <1>3 DEF Mid, OpenOK, InOK, Chans, Ios
<1>13. ErrOK(z, t.c, t.io, a, b)
  BY <1>1, <1>3 DEF Mid, OpenOK, ErrOK, Chans, Ios
<1>14. SesOK(z, t.c, t.io, a, b)
  BY <1>1, <1>3 DEF Mid, OpenOK, SesOK, Chans, Ios
<1>15. Honest(z, t.c, t.io, b)
  BY <1>1, <1>3 DEF Mid, OpenOK, Honest, Complete, Chans, Ios
<1>16. Mid(z, d, t, a, b)
  BY <1>1, <1>3, <1>4, <1>5, <1>6, <1>7, <1>8, <1>9, <1>10, <1>11, <1>12, <1>13,
     <1>14, <1>15 DEF Mid, OpenOK, Facts
<1>. QED BY <1>16 DEF t

\* The client's standard error is closed.
LEMMA ErrIsGone ==
  ASSUME NEW z \in Sides, NEW d, NEW s, NEW a, NEW b, Mid(z, d, s, a, b), NEW x,
         x = [s.io EXCEPT !.egone = TRUE]
  PROVE  Mid(z, d, [s EXCEPT !.io = x], a, b)
<1>. DEFINE t == [s EXCEPT !.io = x]
<1>1. s \in States /\ s.c \in Chans /\ s.io \in Ios /\ a \in Places /\ b \in Places
  BY MidTypes
<1>2. x \in Ios
  BY <1>1 DEF Ios
<1>3. t.c = s.c /\ t.io = x /\ t.out = s.out /\ t \in States
  BY <1>1, <1>2 DEF States
<1>. HIDE DEF t
<1>4. t.c.type = "open" /\ Belongs(z, t.c)
  BY <1>1, <1>3 DEF Mid, Belongs, Chans, States
<1>5. Kept(d, t.io)
  BY <1>1, <1>3 DEF Mid, Kept, Ios
<1>6. LedgerOK(z, a, b)
  BY <1>1, <1>3 DEF Mid, Facts, LedgerOK
<1>7. ReaderOK(z, t.io, a, b)
  BY <1>1, <1>3 DEF Mid, Facts, ReaderOK, Ios
<1>8. WriterOK(z, t.io, a, b)
  BY <1>1, <1>3 DEF Mid, Facts, WriterOK, Ios
<1>9. FlagsOK(t.c, a, b)
  BY <1>1, <1>3 DEF Mid, OpenOK, FlagsOK, Chans
<1>10. WinOK(z, t.c, a, b)
  BY <1>1, <1>3 DEF Mid, OpenOK, WinOK, Chans
<1>11. OutOK(t.c, t.io, a)
  BY <1>1, <1>3 DEF Mid, OpenOK, OutOK, Chans, Ios
<1>12. InOK(z, t.c, t.io, b)
  BY <1>1, <1>3 DEF Mid, OpenOK, InOK, Chans, Ios
<1>13. ErrOK(z, t.c, t.io, a, b)
  BY <1>1, <1>3 DEF Mid, OpenOK, ErrOK, Chans, Ios
<1>14. SesOK(z, t.c, t.io, a, b)
  BY <1>1, <1>3 DEF Mid, OpenOK, SesOK, Chans, Ios
<1>15. Honest(z, t.c, t.io, b)
  BY <1>1, <1>3 DEF Mid, OpenOK, Honest, Complete, Chans, Ios
<1>16. Mid(z, d, t, a, b)
  BY <1>1, <1>3, <1>4, <1>5, <1>6, <1>7, <1>8, <1>9, <1>10, <1>11, <1>12, <1>13,
     <1>14, <1>15 DEF Mid, OpenOK, Facts
<1>. QED BY <1>16 DEF t

\* The child exits.
LEMMA ChildIsGone ==
  ASSUME NEW z \in Sides, NEW d, NEW s, NEW a, NEW b, Mid(z, d, s, a, b), NEW x,
         s.io.child = "running", NEW k \in BOOLEAN,
         x = [s.io EXCEPT !.child = "exited", !.sig = k, !.last = s.io.made, !.elast = s.io.emade]
  PROVE  Mid(z, d, [s EXCEPT !.io = x], a, b)
<1>. DEFINE t == [s EXCEPT !.io = x]
<1>1. s \in States /\ s.c \in Chans /\ s.io \in Ios /\ a \in Places /\ b \in Places
  BY MidTypes
<1>2. x \in Ios
  BY <1>1 DEF Ios
<1>3. t.c = s.c /\ t.io = x /\ t.out = s.out /\ t \in States
  BY <1>1, <1>2 DEF States
<1>. HIDE DEF t
<1>4. t.c.type = "open" /\ Belongs(z, t.c)
  BY <1>1, <1>3 DEF Mid, Belongs, Chans, States
<1>5. Kept(d, t.io)
  BY <1>1, <1>3 DEF Mid, Kept, Ios
<1>6. LedgerOK(z, a, b)
  BY <1>1, <1>3 DEF Mid, Facts, LedgerOK
<1>7. ReaderOK(z, t.io, a, b)
  BY <1>1, <1>3 DEF Mid, Facts, ReaderOK, Ios
<1>8. WriterOK(z, t.io, a, b)
  BY <1>1, <1>3 DEF Mid, Facts, WriterOK, Ios
<1>9. FlagsOK(t.c, a, b)
  BY <1>1, <1>3 DEF Mid, OpenOK, FlagsOK, Chans
<1>10. WinOK(z, t.c, a, b)
  BY <1>1, <1>3 DEF Mid, OpenOK, WinOK, Chans
<1>11. OutOK(t.c, t.io, a)
  BY <1>1, <1>3 DEF Mid, OpenOK, OutOK, Chans, Ios
<1>12. InOK(z, t.c, t.io, b)
  BY <1>1, <1>3 DEF Mid, OpenOK, InOK, Chans, Ios
<1>13. ErrOK(z, t.c, t.io, a, b)
  BY <1>1, <1>3 DEF Mid, OpenOK, ErrOK, Chans, Ios
<1>14. SesOK(z, t.c, t.io, a, b)
  BY <1>1, <1>3 DEF Mid, OpenOK, SesOK, Chans, Ios
<1>15. Honest(z, t.c, t.io, b)
  BY <1>1, <1>3 DEF Mid, OpenOK, Honest, Complete, Chans, Ios
<1>16. Mid(z, d, t, a, b)
  BY <1>1, <1>3, <1>4, <1>5, <1>6, <1>7, <1>8, <1>9, <1>10, <1>11, <1>12, <1>13,
     <1>14, <1>15 DEF Mid, OpenOK, Facts
<1>. QED BY <1>16 DEF t

-----------------------------------------------------------------------------
(* The channel before it is open *)

\* The packets of side z, which is at place i of its end's array.
Carries(z, i, q) ==
    \A k \in 1 .. Len(q) :
       /\ q[k].g = z.g
       /\ q[k].op # "OPEN" => q[k].to = z.to
       /\ q[k].op = "OPEN" => q[k].from = i /\ q[k].n = Window
       /\ q[k].op = "CONFIRM" => q[k].from = i /\ q[k].n = W0(z)

\* What a handler leaves: a channel, or none.
Result(z, i, d, s, a, b) ==
    /\ s.out \in Seq(Msgs) /\ Carries(z, i, s.out) /\ Kept(d, s.io)
    /\ Path(Opener(z), SesClient(z), z.g, s.out, d.out, b)
    /\ s.c = Free \/ Belongs(z, s.c)
    /\ Own(z, s.c, s.io, a, b)

\* What a handler of an open channel enqueues carries the right addresses.
LEMMA SentCarries ==
  ASSUME NEW z, NEW d, NEW q, NEW b, Sent(z, d, q, b), NEW i
  PROVE  Carries(z, i, q) /\ Path(Opener(z), SesClient(z), z.g, q, d, b)
  BY DEF Sent, Carries

\* No channel, not yet or no longer, is not a channel.
LEMMA FreeIsNoChan == Free \notin Chans /\ NotYet \notin Chans /\ Free # NotYet
<1>1. \A c \in Chans : c.type \in Types
  BY DEF Chans
<1>2. Free.type \notin Types /\ NotYet.type \notin Types /\ Free.type # NotYet.type
  BY DEF Free, NotYet, Types
<1>. QED BY <1>1, <1>2

\* A handler may end wherever its middle condition holds ...
LEMMA MidResult ==
  ASSUME NEW z, NEW d, NEW s, NEW a, NEW b, Mid(z, d, s, a, b), NEW i
  PROVE  Result(z, i, d, s, a, b)
<1>1. Stage(z, s.c, s.io, a, b)
  BY DEF Mid, Stage
<1>2. Carries(z, i, s.out) /\ Path(Opener(z), SesClient(z), z.g, s.out, d.out, b)
  BY SentCarries DEF Mid
<1>. QED BY <1>1, <1>2, MidTypes DEF Mid, Result, Own, States

\* ... or with the channel gone.
LEMMA GoneResult ==
  ASSUME NEW z, NEW d, NEW s, NEW a, NEW b, Gone(z, d, s, a, b), NEW i
  PROVE  Result(z, i, d, s, a, b)
<1>1. Stage(z, s.c, s.io, a, b)
  BY DEF Gone, Stage, Free
<1>2. Honest(z, s.c, s.io, b)
  BY DEF Gone
<1>3. Carries(z, i, s.out) /\ Path(Opener(z), SesClient(z), z.g, s.out, d.out, b)
  BY SentCarries DEF Gone
<1>. QED BY <1>1, <1>2, <1>3 DEF Gone, Result, Own

\* Before anything happened.
LEMMA StartTypes == NoIo \in Ios /\ Start \in Places /\ Begun \in Places
  BY DEF NoIo, Ios, Start, Begun, Places

\* Nothing has happened yet: the facts of a channel that is asked for.
LEMMA FirstFacts ==
  ASSUME NEW z \in Sides, NEW a \in Places, NEW b \in Places,
         a.data = 0, a.ext = 0, a.adj = 0, a.said = {}, a.st # "closed",
         b.data = 0, b.ext = 0, b.adj = 0, b.said \subseteq {"shell"}, b.st # "closed"
  PROVE  Facts(z, NoIo, a, b) /\ \A c : (c.type = "open" => c.istate = "open") => Honest(z, c, NoIo, b)
<1>1. LedgerOK(z, a, b)
  BY WindowIsNat DEF LedgerOK
<1>2. ReaderOK(z, NoIo, a, b)
  BY DEF ReaderOK, NoIo
<1>3. WriterOK(z, NoIo, a, b)
  BY DEF WriterOK, NoIo
<1>. QED BY <1>1, <1>2, <1>3 DEF Facts, Honest

\* A channel just opened, in its first state.
LEMMA FreshIsOpen ==
  ASSUME NEW z \in Sides, NEW c \in Chans, NEW b \in Places, ~SesServer(z),
         c.istate = "open", c.ostate = "open", c.flags = {}, c.input = 0, c.output = 0,
         c.extended = 0, c.consumed = 0, c.rwin = PeerW0(z), c.lwin = W0(z),
         c.efd = (z.kind = "exec" \/ (z.kind = "tty" /\ z.end = "client")),
         c.detach = IF z.kind = "tcp" THEN "none" ELSE "keep",
         b.data = 0, b.ext = 0, b.adj = 0, b.st = "up",
         b.said = IF SesClient(z) THEN {"shell"} ELSE {}
  PROVE  Facts(z, NoIo, Begun, b) /\ OpenOK(z, c, NoIo, Begun, b) /\ Honest(z, c, NoIo, b)
<1>0. /\ Begun.data = 0 /\ Begun.ext = 0 /\ Begun.adj = 0 /\ Begun.said = {} /\ Begun.st = "up"
      /\ Begun \in Places
  BY StartTypes DEF Begun
<1>1. Facts(z, NoIo, Begun, b) /\ Honest(z, c, NoIo, b)
  BY <1>0, FirstFacts
<1>2. FlagsOK(c, Begun, b)
  BY <1>0 DEF FlagsOK
<1>3. WinOK(z, c, Begun, b)
  BY <1>0, WindowIsNat DEF WinOK
<1>4. OutOK(c, NoIo, Begun)
  BY <1>0 DEF OutOK, NoIo
<1>5. InOK(z, c, NoIo, b)
  BY <1>0 DEF InOK, NoIo
<1>6. ErrOK(z, c, NoIo, Begun, b)
  <2>1. ExecClient(z) => c.efd
    BY DEF ExecClient
  <2>2. ~ExecServer(z)
    BY DEF ExecServer, SesServer
  <2>. QED BY <1>0, <2>1, <2>2 DEF ErrOK, NoIo
<1>7. SesOK(z, c, NoIo, Begun, b)
  BY DEF SesOK, SesClient
<1>. QED BY <1>1, <1>2, <1>3, <1>4, <1>5, <1>6, <1>7 DEF OpenOK

\* channel_input_open_confirmation.
LEMMA Confirms ==
  ASSUME NEW z \in Sides, NEW s \in States, s.out = <<>>, s.c.type = "opening", NEW a, NEW b,
         Own(z, s.c, s.io, a, b), NEW m, m.from = z.to, m.n = PeerW0(z),
         ~SesServer(z)
  PROVE  /\ a = Start /\ After(a, "CONFIRM", m.n) = Begun
         /\ \E b2 \in Places : Mid(z, [out |-> b, saw |-> s.io.saw],
                                   channel_input_open_confirmation(s, m), Begun, b2)
<1>. DEFINE w == [s EXCEPT !.c.type = "open", !.c.rid = m.from, !.c.rwin = m.n]
            d == [out |-> b, saw |-> s.io.saw]
<1>1. /\ a = Start /\ b = Begun /\ s.io = NoIo /\ Fresh(z, s.c, 0) /\ Opener(z)
      /\ s.c.g = z.g /\ s.c.kind = z.kind /\ s.c.end = z.end
  BY FreeIsNoChan DEF Own, Stage, Belongs, States
<1>2. After(Start, "CONFIRM", m.n) = Begun
  BY DEF After, Start, Begun, Adds, Words
<1>3. PeerW0(z) \in Nat /\ z.to \in Slots
  BY WindowIsNat DEF Sides
<1>4. /\ w.c = [s.c EXCEPT !.type = "open", !.rid = z.to, !.rwin = PeerW0(z)] /\ w.io = s.io
      /\ w.out = s.out /\ w \in States
  <2>0. w = [s EXCEPT !.c.type = "open", !.c.rid = z.to, !.c.rwin = PeerW0(z)]
    OBVIOUS
  <2>. HIDE DEF w
  <2>1. /\ w.c = [s.c EXCEPT !.type = "open", !.rid = z.to, !.rwin = PeerW0(z)] /\ w.io = s.io
        /\ w.out = s.out
    BY <2>0 DEF States
  <2>2. w.c \in Chans
    BY <1>3, <2>1 DEF States, Chans, Types
  <2>3. w = [c |-> w.c, io |-> w.io, out |-> w.out]
    BY <2>0 DEF States
  <2>. QED BY <2>1, <2>2, <2>3 DEF States
<1>5. d.out = Begun /\ d.saw = "open" /\ Kept(d, NoIo)
  BY <1>1 DEF NoIo, Kept
<1>6. Sent(z, d.out, w.out, Begun)
  <2>1. Path(Opener(z), SesClient(z), z.g, <<>>, Begun, Begun)
    BY PathEmpty, StartTypes
  <2>2. Len(<<>>) = 0
    OBVIOUS
  <2>. QED BY <1>4, <1>5, <2>1, <2>2 DEF Sent
<1>7. /\ w.c \in Chans /\ w.c.istate = "open" /\ w.c.ostate = "open" /\ w.c.flags = {}
      /\ w.c.input = 0 /\ w.c.output = 0
      /\ w.c.extended = 0 /\ w.c.consumed = 0 /\ w.c.rwin = PeerW0(z) /\ w.c.lwin = W0(z)
      /\ w.c.efd = (z.kind = "exec" \/ (z.kind = "tty" /\ z.end = "client"))
      /\ w.c.detach = IF z.kind = "tcp" THEN "none" ELSE "keep"
      /\ w.c.type = "open" /\ w.c.rid = z.to /\ w.c.g = z.g /\ w.c.kind = z.kind
      /\ w.c.end = z.end
  <2>. HIDE DEF w
  <2>1. s.c \in Chans /\ w.c \in Chans
    BY <1>4 DEF States
  <2>. QED BY <1>1, <1>4, <2>1 DEF Fresh, Chans
<1>8. CASE ~SesClient(z)
  <2>1. channel_input_open_confirmation(s, m) = w
    BY <1>7, <1>8 DEF channel_input_open_confirmation, IsSession, SesClient, SesServer, Ends, Sides
  <2>2. /\ Begun.data = 0 /\ Begun.ext = 0 /\ Begun.adj = 0 /\ Begun.st = "up" /\ Begun.said = {}
    BY DEF Begun
  <2>. HIDE DEF w, d
  <2>3. Facts(z, NoIo, Begun, Begun) /\ OpenOK(z, w.c, NoIo, Begun, Begun)
        /\ Honest(z, w.c, NoIo, Begun)
    BY <1>7, <1>8, <2>2, FreshIsOpen, StartTypes
  <2>4. Mid(z, d, w, Begun, Begun)
    BY <1>1, <1>4, <1>5, <1>6, <1>7, <2>3, StartTypes DEF Mid, Belongs
  <2>. QED BY <1>1, <1>2, <2>1, <2>4, StartTypes DEF d
<1>9. CASE SesClient(z)
  <2>. DEFINE t == Enqueue(w, "shell", 0)
              b2 == After(Begun, "shell", 0)
  <2>1. channel_input_open_confirmation(s, m) = t
    BY <1>7, <1>9 DEF channel_input_open_confirmation, IsSession, SesClient
  <2>2. /\ b2.data = 0 /\ b2.ext = 0 /\ b2.adj = 0 /\ b2.st = "up" /\ b2.said = {"shell"}
    BY DEF Begun, After, Adds, Words
  <2>3. b2 \in Places
    BY StartTypes, AfterIsPlace DEF Ops
  <2>4. Allowed(Opener(z), SesClient(z), Begun, "shell")
    BY <1>9 DEF Allowed, Begun
  <2>. HIDE DEF w, d
  <2>5. t \in States /\ t.c = w.c /\ t.io = w.io /\ Sent(z, d.out, t.out, b2)
    <3>1. "shell" \in Ops \ {"OPEN", "CONFIRM"}
      BY DEF Ops
    <3>2. 0 \in Nat /\ w \in States /\ w.c.rid = z.to /\ w.c.g = z.g
      BY <1>4, <1>7
    <3>3. /\ Enqueue(w, "shell", 0) \in States /\ Enqueue(w, "shell", 0).c = w.c
          /\ Enqueue(w, "shell", 0).io = w.io
          /\ Sent(z, d.out, Enqueue(w, "shell", 0).out, After(Begun, "shell", 0))
      BY <1>6, <2>4, <3>1, <3>2, Enqueues
    <3>. QED BY <3>3
  <2>. HIDE DEF t, b2
  <2>6. Facts(z, NoIo, Begun, b2) /\ OpenOK(z, w.c, NoIo, Begun, b2) /\ Honest(z, w.c, NoIo, b2)
    BY <1>7, <1>9, <2>2, <2>3, FreshIsOpen
  <2>7. Mid(z, d, t, Begun, b2)
    BY <1>1, <1>4, <1>5, <1>7, <2>3, <2>5, <2>6, StartTypes DEF Mid, Belongs
  <2>. QED BY <1>1, <1>2, <2>1, <2>3, <2>7 DEF d
<1>. QED BY <1>8, <1>9

\* A handler that begins with an open channel.
LEMMA OwnIsMid ==
  ASSUME NEW z \in Sides, NEW s \in States, s.out = <<>>, s.c.type = "open", NEW a, NEW b,
         Own(z, s.c, s.io, a, b)
  PROVE  Mid(z, [out |-> b, saw |-> s.io.saw], s, a, b)
<1>1. s.c \in Chans
  BY DEF States
<1>2. Belongs(z, s.c) /\ OpenOK(z, s.c, s.io, a, b) /\ a \in Places /\ b \in Places
  BY <1>1, FreeIsNoChan DEF Own, Stage
<1>3. Path(Opener(z), SesClient(z), z.g, <<>>, b, b) /\ Len(<<>>) = 0
  BY <1>2, PathEmpty
<1>4. Sent(z, b, s.out, b)
  BY <1>3 DEF Sent
<1>. QED BY <1>2, <1>4 DEF Mid, Own, Kept

\* Nothing is sent and the channel stays.
LEMMA OwnIsResult ==
  ASSUME NEW z \in Sides, NEW s, s.out = <<>>, NEW a, NEW b, Own(z, s.c, s.io, a, b),
         s.c # NotYet, NEW d, d.out = b, Kept(d, s.io), NEW i
  PROVE  Result(z, i, d, s, a, b)
<1>1. Path(Opener(z), SesClient(z), z.g, <<>>, b, b) /\ Len(<<>>) = 0 /\ <<>> \in Seq(Msgs)
  BY PathEmpty DEF Own
<1>2. Carries(z, i, s.out)
  BY <1>1 DEF Carries
<1>. QED BY <1>1, <1>2 DEF Result, Own

\* channel_garbage_collect leaves a channel alone whose input is open.
LEMMA CollectsNothing ==
  ASSUME NEW s, s.c.type # "zombie", s.c.istate = "open"
  PROVE  channel_garbage_collect(s) = s
<1>1. ~BothClosed(s.c)
  BY DEF BothClosed
<1>2. ClosesIfDue(s, TRUE) = s /\ ~chan_is_dead(s, TRUE)
  BY <1>1 DEF ClosesIfDue, chan_is_dead
<1>3. Collected(s) = s
  BY <1>2 DEF Collected
<1>4. ClosesIfDue(s, s.c.detach = "close") = s /\ ~chan_is_dead(s, s.c.detach = "close")
  BY <1>1 DEF ClosesIfDue, chan_is_dead
<1>. QED BY <1>3, <1>4 DEF channel_garbage_collect

\* It frees one whose open was refused.
LEMMA CollectsZombie ==
  ASSUME NEW s \in States, s.c.type = "zombie", Detaches(s)
  PROVE  channel_garbage_collect(s) = [s EXCEPT !.c = Free]
<1>. DEFINE t == [s EXCEPT !.c.detach = "none"]
<1>1. t.c.type = "zombie" /\ t.io = s.io /\ t.out = s.out /\ DOMAIN t = {"c", "io", "out"}
  BY DEF States, Chans
<1>2. [t EXCEPT !.c = Free] = [s EXCEPT !.c = Free]
  BY DEF States
<1>. HIDE DEF t
<1>3. \A q : ClosesIfDue(s, q) = s /\ chan_is_dead(s, q) /\ ClosesIfDue(t, q) = t /\ chan_is_dead(t, q)
  BY <1>1 DEF ClosesIfDue, chan_is_dead
<1>4. Collected(s) = [s EXCEPT !.c = Free] /\ Collected(t) = [s EXCEPT !.c = Free]
  BY <1>2, <1>3 DEF Collected
<1>. QED BY <1>3, <1>4 DEF channel_garbage_collect, t

\* What remains of a channel that was never there.
LEMMA NothingLeft ==
  ASSUME NEW z \in Sides, NEW a \in Places, NEW b \in Places,
         \/ ~Opener(z) /\ a = Begun /\ b = After(Start, "FAILURE", 0)
         \/ Opener(z) /\ a = After(Start, "FAILURE", 0) /\ b = Begun
  PROVE  Own(z, Free, NoIo, a, b)
<1>. DEFINE f == After(Start, "FAILURE", 0)
<1>0. f.data = 0 /\ f.ext = 0 /\ f.adj = 0 /\ f.st = "failed" /\ f.said = {}
  BY DEF After, Start, Adds, Words
<1>1. Begun.data = 0 /\ Begun.ext = 0 /\ Begun.adj = 0 /\ Begun.st = "up" /\ Begun.said = {}
  BY DEF Begun
<1>. HIDE DEF f
<1>2. /\ a.data = 0 /\ a.ext = 0 /\ a.adj = 0 /\ a.said = {} /\ a.st # "closed"
      /\ b.data = 0 /\ b.ext = 0 /\ b.adj = 0 /\ b.said = {} /\ b.st # "closed"
      /\ (~Opener(z) /\ a = Begun /\ b.st = "failed") \/ (Opener(z) /\ a.st = "failed" /\ b = Begun)
  BY <1>0, <1>1 DEF f
<1>3. Facts(z, NoIo, a, b) /\ Honest(z, Free, NoIo, b)
  BY <1>2, FirstFacts DEF Free
<1>4. Stage(z, Free, NoIo, a, b)
  BY <1>2 DEF Stage, Free
<1>. QED BY <1>3, <1>4, StartTypes DEF Own

\* channel_handler before select.
LEMMA PreResult ==
  ASSUME NEW z \in Sides, NEW s \in States, s.out = <<>>, NEW a, NEW b,
         Own(z, s.c, s.io, a, b), s.c.type # "connecting", NEW i
  PROVE  \E b2 \in Places : Result(z, i, [out |-> b, saw |-> s.io.saw],
            channel_garbage_collect(IF s.c.type = "open" THEN channel_pre_open(s) ELSE s), a, b2)
<1>. DEFINE d == [out |-> b, saw |-> s.io.saw]
<1>1. s.c \in Chans /\ b \in Places /\ d.out = b /\ Kept(d, s.io) /\ s.c.type \in Types
  BY DEF States, Own, Kept, Chans
<1>2. CASE s.c.type = "open"
  <2>1. Mid(z, d, channel_pre_open(s), a, b)
    BY <1>2, OwnIsMid, PreOpen
  <2>. DEFINE t == channel_garbage_collect(channel_pre_open(s))
  <2>. HIDE DEF d
  <2>2. PICK b2 \in Places : Mid(z, d, t, a, b2) \/ Gone(z, d, t, a, b2)
    BY <2>1, GarbageCollect
  <2>. HIDE DEF t
  <2>3. Result(z, i, d, t, a, b2)
    BY <2>2, MidResult, GoneResult
  <2>. QED BY <1>2, <2>3 DEF d, t
<1>3. CASE s.c.type \in {"opening", "larval"}
  <2>1. s.c.istate = "open"
    BY <1>3 DEF Own, Stage, Fresh
  <2>2. channel_garbage_collect(s) = s
    BY <1>3, <2>1, CollectsNothing
  <2>. HIDE DEF d
  <2>3. Result(z, i, d, s, a, b)
    BY <1>1, FreeIsNoChan, OwnIsResult
  <2>. QED BY <1>1, <1>3, <2>2, <2>3 DEF d
<1>4. CASE s.c.type = "zombie"
  <2>. DEFINE t == [s EXCEPT !.c = Free]
  <2>1. s.io = NoIo /\ Opener(z) /\ a.st = "failed" /\ b = Begun
    BY <1>4 DEF Own, Stage
  <2>2. Detaches(s)
    BY <2>1 DEF Detaches, NoIo
  <2>3. channel_garbage_collect(s) = t
    BY <1>4, <2>2, CollectsZombie
  <2>4. t.c = Free /\ t.io = s.io /\ t.out = <<>>
    BY DEF States
  <2>5. Honest(z, Free, s.io, b)
    BY DEF Own, Honest, Free
  <2>6. Stage(z, Free, s.io, a, b)
    BY <2>1 DEF Stage, Free
  <2>7. Own(z, Free, s.io, a, b)
    BY <2>5, <2>6 DEF Own
  <2>. HIDE DEF t, d
  <2>8. Result(z, i, d, t, a, b)
    BY <1>1, <2>4, <2>7, FreeIsNoChan, OwnIsResult
  <2>. QED BY <1>1, <1>4, <2>3, <2>8 DEF d
<1>. QED BY <1>1, <1>2, <1>3, <1>4 DEF Types

\* channel_post_open.
LEMMA PostResult ==
  ASSUME NEW z \in Sides, NEW s \in States, s.out = <<>>, NEW a, NEW b,
         Own(z, s.c, s.io, a, b), s.c.type = "open", NEW i,
         NEW r \in channel_handle_rfd(s), NEW w \in channel_handle_wfd(r),
         NEW x \in channel_handle_efd(w)
  PROVE  \E b2 \in Places : Result(z, i, [out |-> b, saw |-> s.io.saw],
            channel_garbage_collect(channel_check_window(x)), a, b2)
<1>. DEFINE d == [out |-> b, saw |-> s.io.saw]
<1>1. Mid(z, d, s, a, b)
  BY OwnIsMid
<1>. HIDE DEF d
<1>2. Mid(z, d, r, a, b)
  BY <1>1, HandleRfd
<1>3. PICK b1 \in Places : Mid(z, d, w, a, b1)
  BY <1>2, HandleWfd
<1>4. Mid(z, d, x, a, b1)
  BY <1>3, HandleEfd
<1>5. PICK b3 \in Places : Mid(z, d, channel_check_window(x), a, b3)
  BY <1>4, CheckWindow
<1>. DEFINE t == channel_garbage_collect(channel_check_window(x))
<1>6. PICK b2 \in Places : Mid(z, d, t, a, b2) \/ Gone(z, d, t, a, b2)
  BY <1>5, GarbageCollect
<1>. HIDE DEF t
<1>7. Result(z, i, d, t, a, b2)
  BY <1>6, MidResult, GoneResult
<1>. QED BY <1>7 DEF t, d

\* channel_output_poll.
LEMMA PollResult ==
  ASSUME NEW z \in Sides, NEW s \in States, s.out = <<>>, NEW a, NEW b,
         Own(z, s.c, s.io, a, b), s.c.type = "open", NEW i
  PROVE  \E b2 \in Places : Result(z, i, [out |-> b, saw |-> s.io.saw], channel_output_poll(s), a, b2)
  BY OwnIsMid, OutputPoll, MidResult

\* session_close_by_pid.
LEMMA ExitResult ==
  ASSUME NEW z \in Sides, NEW s \in States, s.out = <<>>, NEW a, NEW b,
         Own(z, s.c, s.io, a, b), s.c.type = "open", s.io.child = "exited", NEW i
  PROVE  \E b2 \in Places : Result(z, i, [out |-> b, saw |-> s.io.saw], session_exit_message(s), a, b2)
  BY OwnIsMid, ExitMessage, MidResult

\* channel_post_connecting, when the connection is there.
LEMMA ConnectedResult ==
  ASSUME NEW z \in Sides, NEW s \in States, s.out = <<>>, NEW a, NEW b,
         Own(z, s.c, s.io, a, b), s.c.type = "connecting", NEW i \in Slots, NEW m,
         m = [op |-> "CONFIRM", to |-> s.c.rid, from |-> i, n |-> s.c.lwin, g |-> s.c.g]
  PROVE  \E b2 \in Places : Result(z, i, [out |-> b, saw |-> s.io.saw],
            channel_garbage_collect([s EXCEPT !.c.type = "open", !.out = <<m>>]), a, b2)
<1>. DEFINE w == [s EXCEPT !.c.type = "open", !.out = <<m>>]
            d == [out |-> b, saw |-> s.io.saw]
<1>1. /\ ~Opener(z) /\ z.kind = "tcp" /\ a = Begun /\ b = Start /\ s.io = NoIo
      /\ Fresh(z, s.c, Window) /\ s.c.g = z.g /\ s.c.kind = z.kind /\ s.c.end = z.end
      /\ s.c.rid = z.to /\ s.c \in Chans
  BY FreeIsNoChan DEF Own, Stage, Belongs, States
<1>2. ~SesClient(z) /\ ~SesServer(z) /\ W0(z) = Window /\ PeerW0(z) = Window
  BY <1>1 DEF SesClient, SesServer, W0, PeerW0
<1>3. /\ m \in Msgs /\ m.op = "CONFIRM" /\ m.to = z.to /\ m.from = i /\ m.n = W0(z) /\ m.g = z.g
  BY <1>1, <1>2 DEF Msgs, Ops, Sides, Fresh, Chans
<1>. HIDE DEF d
<1>4. /\ w.c = [s.c EXCEPT !.type = "open"] /\ w.io = s.io /\ w.out = <<m>> /\ w \in States
  <2>0. w = [s EXCEPT !.c.type = "open", !.out = <<m>>]
    OBVIOUS
  <2>. HIDE DEF w
  <2>1. w.c = [s.c EXCEPT !.type = "open"] /\ w.io = s.io /\ w.out = <<m>>
    BY <2>0 DEF States
  <2>2. w.c \in Chans /\ <<m>> \in Seq(Msgs)
    BY SMTT(60), <1>1, <1>3, <2>1 DEF Chans, Types
  <2>3. w = [c |-> w.c, io |-> w.io, out |-> w.out]
    BY <2>0 DEF States
  <2>. QED BY <2>1, <2>2, <2>3 DEF States
<1>. HIDE DEF w
<1>5. /\ w.c \in Chans /\ w.c.istate = "open" /\ w.c.ostate = "open" /\ w.c.flags = {}
      /\ w.c.input = 0 /\ w.c.output = 0
      /\ w.c.extended = 0 /\ w.c.consumed = 0 /\ w.c.rwin = PeerW0(z) /\ w.c.lwin = W0(z)
      /\ w.c.efd = (z.kind = "exec" \/ (z.kind = "tty" /\ z.end = "client"))
      /\ w.c.detach = IF z.kind = "tcp" THEN "none" ELSE "keep"
      /\ w.c.type = "open" /\ w.c.rid = z.to /\ w.c.g = z.g /\ w.c.kind = z.kind
      /\ w.c.end = z.end
  <2>1. w.c \in Chans
    BY <1>4 DEF States
  <2>. QED BY <1>1, <1>2, <1>4, <2>1 DEF Fresh, Chans
<1>6. channel_garbage_collect(w) = w
  BY <1>5, CollectsNothing
<1>7. After(Start, m.op, m.n) = Begun
  BY <1>3 DEF After, Start, Begun, Adds, Words
<1>8. Path(Opener(z), SesClient(z), z.g, w.out, Start, Begun)
  <2>1. Allowed(Opener(z), SesClient(z), Start, m.op)
    BY <1>1, <1>3 DEF Allowed, Start
  <2>2. Path(Opener(z), SesClient(z), m.g, <<m>>, Start, After(Start, m.op, m.n))
    BY <1>3, <2>1, PathOne, StartTypes
  <2>. QED BY <1>3, <1>4, <1>7, <2>2
<1>9. Carries(z, i, w.out)
  <2>1. Len(<<m>>) = 1 /\ \A k \in 1 .. 1 : <<m>>[k] = m
    OBVIOUS
  <2>. QED BY <1>3, <1>4, <2>1 DEF Carries
<1>10. Facts(z, NoIo, Begun, Begun) /\ OpenOK(z, w.c, NoIo, Begun, Begun)
       /\ Honest(z, w.c, NoIo, Begun)
  <2>1. /\ Begun.data = 0 /\ Begun.ext = 0 /\ Begun.adj = 0 /\ Begun.st = "up" /\ Begun.said = {}
    BY DEF Begun
  <2>. QED BY <1>2, <1>5, <2>1, FreshIsOpen, StartTypes
<1>11. Belongs(z, w.c)
  BY <1>5 DEF Belongs
<1>12. Stage(z, w.c, NoIo, Begun, Begun)
  BY <1>5, <1>10 DEF Stage
<1>13. Own(z, w.c, NoIo, Begun, Begun)
  BY <1>10, <1>11, <1>12, StartTypes DEF Own
<1>14. d.out = Start /\ Kept(d, NoIo)
  BY <1>1 DEF d, Kept
<1>15. Result(z, i, d, w, Begun, Begun)
  BY <1>1, <1>4, <1>8, <1>9, <1>11, <1>13, <1>14 DEF Result, States
<1>. QED BY <1>1, <1>6, <1>15, StartTypes DEF w, d

\* and when it is not.
LEMMA NotConnectedResult ==
  ASSUME NEW z \in Sides, NEW s \in States, s.out = <<>>, NEW a, NEW b,
         Own(z, s.c, s.io, a, b), s.c.type = "connecting", NEW i \in Slots
  PROVE  \E b2 \in Places : Result(z, i, [out |-> b, saw |-> s.io.saw],
            channel_garbage_collect(chan_mark_dead(Enqueue(s, "FAILURE", 0))), a, b2)
<1>. DEFINE w == Enqueue(s, "FAILURE", 0)
            y == chan_mark_dead(w)
            t == [y EXCEPT !.c = Free]
            d == [out |-> b, saw |-> s.io.saw]
            b2 == After(Start, "FAILURE", 0)
<1>1. /\ ~Opener(z) /\ z.kind = "tcp" /\ a = Begun /\ b = Start /\ s.io = NoIo
      /\ s.c.g = z.g /\ s.c.rid = z.to /\ s.c \in Chans
  BY FreeIsNoChan DEF Own, Stage, Belongs, States
<1>2. d.out = Start /\ Kept(d, NoIo)
  BY <1>1 DEF Kept
<1>. HIDE DEF d
<1>3. Allowed(Opener(z), SesClient(z), Start, "FAILURE")
  BY <1>1 DEF Allowed, Start
<1>4. Sent(z, Start, s.out, Start)
  <2>1. Path(Opener(z), SesClient(z), z.g, <<>>, Start, Start) /\ Len(<<>>) = 0
    BY PathEmpty, StartTypes
  <2>. QED BY <2>1 DEF Sent
<1>5. w \in States /\ w.c = s.c /\ w.io = s.io /\ Sent(z, Start, w.out, b2)
  <2>1. "FAILURE" \in Ops \ {"OPEN", "CONFIRM"} /\ 0 \in Nat
    BY DEF Ops
  <2>2. /\ Enqueue(s, "FAILURE", 0) \in States /\ Enqueue(s, "FAILURE", 0).c = s.c
        /\ Enqueue(s, "FAILURE", 0).io = s.io
        /\ Sent(z, Start, Enqueue(s, "FAILURE", 0).out, After(Start, "FAILURE", 0))
    BY <1>1, <1>3, <1>4, <2>1, Enqueues
  <2>. QED BY <2>2
<1>6. b2 \in Places
  BY StartTypes, AfterIsPlace DEF Ops
<1>. HIDE DEF w
<1>7. /\ y.c = [s.c EXCEPT !.type = "zombie"] /\ y.io = s.io /\ y.out = w.out /\ y \in States
  <2>0. y = [w EXCEPT !.c.type = "zombie"]
    BY DEF chan_mark_dead
  <2>. HIDE DEF y
  <2>1. y.c = [s.c EXCEPT !.type = "zombie"] /\ y.io = s.io /\ y.out = w.out
    BY <1>5, <2>0 DEF States
  <2>2. y.c \in Chans /\ y.io \in Ios /\ y.out \in Seq(Msgs)
    BY <1>1, <1>5, <2>1 DEF Chans, Types, States
  <2>3. y = [c |-> y.c, io |-> y.io, out |-> y.out]
    BY <1>5, <2>0 DEF States
  <2>. QED BY <2>1, <2>2, <2>3 DEF States
<1>. HIDE DEF y
<1>8. channel_garbage_collect(y) = t
  <2>1. y.c.type = "zombie" /\ Detaches(y)
    BY <1>1, <1>7 DEF Detaches, NoIo, Chans
  <2>. QED BY <1>7, <2>1, CollectsZombie
<1>9. t.c = Free /\ t.io = NoIo /\ t.out = w.out /\ t.out \in Seq(Msgs)
  BY <1>1, <1>7 DEF States
<1>. HIDE DEF t, b2
<1>10. Own(z, Free, NoIo, Begun, b2)
  BY <1>1, <1>6, StartTypes, NothingLeft DEF b2
<1>11. Carries(z, i, t.out) /\ Path(Opener(z), SesClient(z), z.g, t.out, Start, b2)
  BY <1>5, <1>9, SentCarries
<1>12. Result(z, i, d, t, Begun, b2)
  BY <1>2, <1>9, <1>10, <1>11 DEF Result
<1>. QED BY <1>1, <1>6, <1>8, <1>12 DEF w, y, d

-----------------------------------------------------------------------------
(* A packet in each state of the channel *)

\* channel_input_open_failure.
LEMMA FailureResult ==
  ASSUME NEW z \in Sides, NEW s \in States, s.out = <<>>, s.c.type = "opening", NEW a, NEW b,
         Own(z, s.c, s.io, a, b), NEW i, NEW n \in Nat
  PROVE  Result(z, i, [out |-> b, saw |-> s.io.saw], chan_mark_dead(s), After(a, "FAILURE", n), b)
<1>. DEFINE t == chan_mark_dead(s)
            d == [out |-> b, saw |-> s.io.saw]
            a2 == After(a, "FAILURE", n)
<1>1. /\ a = Start /\ b = Begun /\ s.io = NoIo /\ Fresh(z, s.c, 0) /\ Opener(z)
      /\ s.c \in Chans /\ s.c.g = z.g /\ s.c.kind = z.kind /\ s.c.end = z.end
  BY FreeIsNoChan DEF Own, Stage, Belongs, States
<1>2. /\ t.c = [s.c EXCEPT !.type = "zombie"] /\ t.io = s.io /\ t.out = s.out
  BY DEF chan_mark_dead, States
<1>3. a2.data = 0 /\ a2.ext = 0 /\ a2.adj = 0 /\ a2.said = {} /\ a2.st = "failed"
  BY <1>1 DEF After, Start, Adds, Words
<1>4. a2 \in Places
  BY <1>1, StartTypes, AfterIsPlace DEF Ops
<1>5. d.out = b /\ Kept(d, t.io)
  BY <1>2 DEF Kept
<1>. HIDE DEF t, d, a2
<1>6. t.c \in Chans /\ t.c.type = "zombie" /\ Fresh(z, t.c, 0) /\ Belongs(z, t.c)
  <2>1. t.c \in Chans /\ t.c.type = "zombie"
    BY <1>1, <1>2 DEF Chans, Types
  <2>2. Fresh(z, t.c, 0)
    BY <1>1, <1>2, <2>1 DEF Fresh, Chans
  <2>. QED BY <1>1, <1>2, <2>1, <2>2 DEF Belongs, Chans
<1>7. Facts(z, NoIo, a2, Begun) /\ Honest(z, t.c, NoIo, Begun)
  <2>1. /\ Begun.data = 0 /\ Begun.ext = 0 /\ Begun.adj = 0 /\ Begun.st = "up" /\ Begun.said = {}
    BY DEF Begun
  <2>. QED BY <1>3, <1>4, <1>6, <2>1, FirstFacts, StartTypes
<1>8. Stage(z, t.c, NoIo, a2, Begun)
  BY <1>1, <1>3, <1>6 DEF Stage
<1>9. Own(z, t.c, t.io, a2, b)
  BY <1>1, <1>2, <1>4, <1>6, <1>7, <1>8, StartTypes DEF Own
<1>10. Result(z, i, d, t, a2, b)
  BY <1>2, <1>5, <1>6, <1>9, FreeIsNoChan, OwnIsResult
<1>. QED BY <1>10 DEF t, d, a2

\* session_shell_req and channel_set_fds: the first window is granted and the child runs.
LEMMA ShellResult ==
  ASSUME NEW z \in Sides, NEW s \in States, s.out = <<>>, s.c.type = "larval", NEW a, NEW b,
         Own(z, s.c, s.io, a, b), NEW i, NEW n \in Nat
  PROVE  \E b2 \in Places : Result(z, i, [out |-> b, saw |-> s.io.saw], channel_set_fds(s),
                                   After(a, "shell", n), b2)
<1>. DEFINE w == Enqueue(s, "ADJUST", Window)
            t == channel_set_fds(s)
            d == [out |-> b, saw |-> s.io.saw]
            a2 == After(a, "shell", n)
            b2 == After(b, "ADJUST", Window)
            x == [NoIo EXCEPT !.child = "running"]
<1>0. Window \in Nat
  BY WindowIsNat
<1>1. /\ a = Begun /\ b = Begun /\ s.io = NoIo /\ Fresh(z, s.c, Window) /\ ~Opener(z) /\ SesServer(z)
      /\ s.c \in Chans /\ s.c.g = z.g /\ s.c.kind = z.kind /\ s.c.end = z.end /\ s.c.rid = z.to
  BY FreeIsNoChan DEF Own, Stage, Belongs, States
<1>2. ~SesClient(z) /\ ~ExecClient(z) /\ W0(z) = 0 /\ PeerW0(z) = Window /\ z.kind # "tcp"
  BY <1>1 DEF SesClient, SesServer, ExecClient, W0, PeerW0
<1>3. /\ a2.data = 0 /\ a2.ext = 0 /\ a2.adj = 0 /\ a2.said = {"shell"} /\ a2.st = "up"
      /\ b2.data = 0 /\ b2.ext = 0 /\ b2.adj = Window /\ b2.said = {} /\ b2.st = "up"
  BY <1>0, <1>1 DEF After, Begun, Adds, Words
<1>4. a2 \in Places /\ b2 \in Places
  BY <1>0, <1>1, StartTypes, AfterIsPlace DEF Ops
<1>5. Sent(z, b, s.out, b)
  <2>1. Path(Opener(z), SesClient(z), z.g, <<>>, b, b) /\ Len(<<>>) = 0
    BY <1>1, PathEmpty, StartTypes
  <2>. QED BY <2>1 DEF Sent
<1>6. w \in States /\ w.c = s.c /\ w.io = s.io /\ Sent(z, b, w.out, b2)
  <2>1. "ADJUST" \in Ops \ {"OPEN", "CONFIRM"}
    BY DEF Ops
  <2>2. Allowed(Opener(z), SesClient(z), b, "ADJUST")
    BY <1>1, <1>2 DEF Allowed, Begun
  <2>3. /\ Enqueue(s, "ADJUST", Window) \in States /\ Enqueue(s, "ADJUST", Window).c = s.c
        /\ Enqueue(s, "ADJUST", Window).io = s.io
        /\ Sent(z, b, Enqueue(s, "ADJUST", Window).out, After(b, "ADJUST", Window))
    BY <1>0, <1>1, <1>5, <2>1, <2>2, Enqueues
  <2>. QED BY <2>3
<1>7. t = [w EXCEPT !.c.type = "open", !.c.lwin = Window, !.io.child = "running"]
  BY DEF channel_set_fds
<1>8. /\ x.made = 0 /\ x.pend = 0 /\ x.emade = 0 /\ x.epend = 0 /\ x.got = 0 /\ x.egot = 0
      /\ x.saw = "open" /\ x.child = "running" /\ x.last = 0 /\ x.elast = 0
      /\ x \in Ios
  BY DEF NoIo, Ios
<1>9. d.out = b /\ Kept(d, x)
  BY <1>1 DEF Kept, NoIo
<1>. HIDE DEF w, t, d, a2, b2
<1>10. /\ t.c = [s.c EXCEPT !.type = "open", !.lwin = Window] /\ t.io = x /\ t.out = w.out /\ t \in States
  <2>1. t.c = [s.c EXCEPT !.type = "open", !.lwin = Window] /\ t.io = x /\ t.out = w.out
    BY <1>1, <1>6, <1>7 DEF States
  <2>. HIDE DEF x
  <2>2. t.c \in Chans /\ t.io \in Ios /\ t.out \in Seq(Msgs)
    BY ZenonT(90), <1>0, <1>1, <1>6, <1>8, <2>1 DEF States, Chans, Types
  <2>3. t = [c |-> t.c, io |-> t.io, out |-> t.out]
    BY <1>6, <1>7 DEF States
  <2>. QED BY <2>1, <2>2, <2>3 DEF States
<1>. HIDE DEF x
<1>11. /\ t.c \in Chans /\ t.c.istate = "open" /\ t.c.ostate = "open" /\ t.c.flags = {}
      /\ t.c.input = 0 /\ t.c.output = 0
      /\ t.c.extended = 0 /\ t.c.consumed = 0 /\ t.c.rwin = Window /\ t.c.lwin = Window
      /\ t.c.efd = (z.kind = "exec" \/ (z.kind = "tty" /\ z.end = "client"))
      /\ t.c.detach = "keep"
      /\ t.c.type = "open" /\ t.c.rid = z.to /\ t.c.g = z.g /\ t.c.kind = z.kind
      /\ t.c.end = z.end
  <2>1. t.c \in Chans
    BY <1>10 DEF States
  <2>. QED BY <1>1, <1>2, <1>10, <2>1 DEF Fresh, Chans
<1>12. LedgerOK(z, a2, b2)
  BY <1>0, <1>2, <1>3 DEF LedgerOK
<1>13. ReaderOK(z, t.io, a2, b2)
  BY <1>3, <1>8, <1>10 DEF ReaderOK
<1>14. WriterOK(z, t.io, a2, b2)
  BY <1>1, <1>2, <1>3, <1>8, <1>10 DEF WriterOK
<1>15. FlagsOK(t.c, a2, b2)
  BY <1>3, <1>11 DEF FlagsOK
<1>16. WinOK(z, t.c, a2, b2)
  BY <1>0, <1>2, <1>3, <1>11 DEF WinOK
<1>17. OutOK(t.c, t.io, a2)
  BY <1>3, <1>8, <1>10, <1>11 DEF OutOK
<1>18. InOK(z, t.c, t.io, b2)
  BY <1>3, <1>8, <1>10, <1>11 DEF InOK
<1>19. ErrOK(z, t.c, t.io, a2, b2)
  <2>1. ExecServer(z) => t.c.efd
    BY <1>11 DEF ExecServer
  <2>. QED BY <1>2, <1>3, <1>8, <1>10, <1>11, <2>1 DEF ErrOK
<1>20. SesOK(z, t.c, t.io, a2, b2)
  BY <1>2, <1>3, <1>8, <1>10, <1>11 DEF SesOK
<1>21. Honest(z, t.c, t.io, b2)
  BY <1>3, <1>11 DEF Honest
<1>22. Belongs(z, t.c)
  BY <1>11 DEF Belongs
<1>23. Kept(d, t.io)
  BY <1>9, <1>10
<1>24. Sent(z, d.out, t.out, b2)
  BY <1>6, <1>9, <1>10
<1>25. Mid(z, d, t, a2, b2)
  BY <1>4, <1>10, <1>11, <1>12, <1>13, <1>14, <1>15, <1>16, <1>17, <1>18, <1>19, <1>20, <1>21,
     <1>22, <1>23, <1>24 DEF Mid, Facts, OpenOK
<1>26. Result(z, i, d, t, a2, b2)
  BY <1>25, MidResult
<1>. QED BY <1>4, <1>26 DEF t, d, a2

\* A packet of no bytes changes nothing.
LEMMA InputNothing ==
  ASSUME NEW z \in Sides, NEW d, NEW s, NEW a, NEW b, Mid(z, d, s, a, b)
  PROVE  Mid(z, d, channel_input_extended_data(s, 0), After(a, "EXTENDED", 0), b)
<1>. DEFINE t == channel_input_extended_data(s, 0)
            a2 == After(a, "EXTENDED", 0)
<1>1. s \in States /\ s.c \in Chans /\ s.io \in Ios /\ a \in Places /\ b \in Places
  BY MidTypes
<1>2. a2 \in Places
  BY <1>1, AfterIsPlace DEF Ops
<1>3. /\ a2.st = a.st /\ a2.said = a.said
      /\ a2.data = a.data /\ a2.ext = a.ext /\ a2.adj = a.adj
  BY <1>1 DEF After, Adds, Places, Words
<1>4. t = s
  <2>1. s.c.lwin \in Nat /\ s.c.extended \in Nat
    BY <1>1 DEF Chans
  <2>2. s.c.lwin - 0 = s.c.lwin /\ s.c.extended + 0 = s.c.extended
    BY <2>1
  <2>. DEFINE y == [s EXCEPT !.c.lwin = @ - 0, !.c.extended = @ + 0]
  <2>3. y = [s EXCEPT !.c.lwin = s.c.lwin, !.c.extended = s.c.extended]
    BY <1>1, <2>2 DEF States, Chans
  <2>4. y = s
    <3>. HIDE DEF y
    <3>. QED BY <1>1, <2>3 DEF States, Chans
  <2>. QED BY <2>4 DEF channel_input_extended_data
<1>. HIDE DEF t, a2
<1>5. t.c.type = "open" /\ Belongs(z, t.c)
  BY <1>1, <1>3, <1>4 DEF Mid, Belongs, Chans, States
<1>6. Kept(d, t.io)
  BY <1>1, <1>3, <1>4 DEF Mid, Kept, Ios
<1>7. LedgerOK(z, a2, b)
  BY <1>1, <1>3, <1>4 DEF Mid, Facts, LedgerOK
<1>8. ReaderOK(z, t.io, a2, b)
  BY <1>1, <1>3, <1>4 DEF Mid, Facts, ReaderOK, Ios
<1>9. WriterOK(z, t.io, a2, b)
  BY <1>1, <1>3, <1>4 DEF Mid, Facts, WriterOK, Ios
<1>10. FlagsOK(t.c, a2, b)
  BY <1>1, <1>3, <1>4 DEF Mid, OpenOK, FlagsOK, Chans
<1>11. WinOK(z, t.c, a2, b)
  BY <1>1, <1>3, <1>4 DEF Mid, OpenOK, WinOK, Chans
<1>12. OutOK(t.c, t.io, a2)
  BY <1>1, <1>3, <1>4 DEF Mid, OpenOK, OutOK, Chans, Ios
<1>13. InOK(z, t.c, t.io, b)
  BY <1>1, <1>3, <1>4 DEF Mid, OpenOK, InOK, Chans, Ios
<1>14. ErrOK(z, t.c, t.io, a2, b)
  BY <1>1, <1>3, <1>4 DEF Mid, OpenOK, ErrOK, Chans, Ios
<1>15. SesOK(z, t.c, t.io, a2, b)
  BY <1>1, <1>3, <1>4 DEF Mid, OpenOK, SesOK, Chans, Ios
<1>16. Honest(z, t.c, t.io, b)
  BY <1>1, <1>3, <1>4 DEF Mid, OpenOK, Honest, Complete, Chans, Ios
<1>17. Mid(z, d, t, a2, b)
  BY <1>1, <1>3, <1>4, <1>5, <1>6, <1>7, <1>8, <1>9, <1>10, <1>11, <1>12, <1>13,
     <1>14, <1>15, <1>16, <1>2 DEF Mid, OpenOK, Facts
<1>. QED BY <1>17 DEF t, a2

\* y is the other side of z's channel.
Mates(z, y) ==
    /\ z.end # y.end /\ z.kind = y.kind /\ z.by = y.by /\ z.g = y.g
    /\ z.kind # "tcp" => z.by = "client"

\* The two sides of a channel have opposite roles.
LEMMA MatesRoles ==
  ASSUME NEW z \in Sides, NEW y \in Sides, Mates(z, y)
  PROVE  /\ Opener(y) <=> ~Opener(z)
         /\ SesClient(y) <=> SesServer(z)
         /\ SesServer(y) <=> SesClient(z)
         /\ ExecServer(y) <=> ExecClient(z)
         /\ PeerW0(y) = W0(z) /\ W0(y) = PeerW0(z)
         /\ SesServer(z) => ~Opener(z)
         /\ SesClient(z) => Opener(z)
<1>1. (z.end = "client" /\ y.end = "server") \/ (z.end = "server" /\ y.end = "client")
  BY DEF Mates, Sides, Ends
<1>2. z.by = "client" \/ z.by = "server"
  BY DEF Sides, Ends
<1>3. /\ Opener(y) <=> ~Opener(z)
      /\ SesClient(y) <=> SesServer(z)
      /\ SesServer(y) <=> SesClient(z)
      /\ ExecServer(y) <=> ExecClient(z)
      /\ SesServer(z) => ~Opener(z)
      /\ SesClient(z) => Opener(z)
  BY <1>1, <1>2 DEF Mates, Opener, SesClient, SesServer, ExecServer, ExecClient
<1>. QED BY <1>3 DEF PeerW0, W0

\* What arrives is due: a channel that is asked for gets an answer, one whose shell is
\* not asked for that request, and no other finds its channel gone.
LEMMA Arrives ==
  ASSUME NEW z \in Sides, NEW y \in Sides, Mates(z, y), NEW c, NEW x, NEW a, NEW b,
         NEW cy, NEW xy, NEW ay, NEW by, Own(z, c, x, a, b), Own(y, cy, xy, ay, by),
         z.peer = xy.saw, NEW op \in Ops \ {"OPEN"}, NEW n \in Nat,
         Hears(z, a, op), Before(After(a, op, n), by), Before(ay, b),
         cy = NotYet \/ cy = Free \/ cy \in Chans, c = NotYet \/ c = Free \/ c \in Chans
  PROVE  /\ op = "EXTENDED" /\ n > 0 => ExecClient(z)
         /\ op # "EXTENDED" \/ n > 0 => Due(z, a, b, op, n)
         /\ c.type \in {"opening", "larval", "open"}
         /\ c.type = "opening" <=> op \in {"CONFIRM", "FAILURE"}
         /\ c.type = "larval" <=> op = "shell"
<1>. DEFINE a2 == After(a, op, n)
<1>1. a \in Places /\ b \in Places /\ ay \in Places /\ by \in Places /\ a2 \in Places
  BY AfterIsPlace DEF Own
<1>2. /\ Opener(y) <=> ~Opener(z)
      /\ PeerW0(y) = W0(z) /\ (ExecServer(y) <=> ExecClient(z))
      /\ SesServer(z) => ~Opener(z)
      /\ W0(z) \in Nat
  BY MatesRoles, WindowIsNat
<1>3. /\ a2.k = a.k + 1 /\ a2.data = a.data + Adds(op, n, "DATA")
      /\ a2.ext = a.ext + Adds(op, n, "EXTENDED") /\ a2.said = a.said \cup ({op} \cap Words)
      /\ op = "CLOSE" => a2.st = "closed"
  BY DEF After
<1>4. a.k \in Nat /\ ay.k \in Nat /\ b.k \in Nat /\ by.k \in Nat /\ a.k + 1 <= by.k
  BY <1>1, <1>3 DEF Places, Before
<1>. HIDE DEF a2
<1>5. \/ a.st = "new" /\ op \in {"CONFIRM", "FAILURE"} /\ Opener(z)
      \/ a.st = "up" /\ op \notin {"CONFIRM", "FAILURE"}
  BY DEF Hears, Allowed
<1>6. SesServer(z) => ("shell" \in a.said <=> op # "shell")
  BY <1>5, <1>2 DEF Hears, Allowed
<1>7. op = "shell" => SesServer(z)
  BY DEF Hears, Allowed
<1>8. /\ Start.st = "new" /\ Start.k = 0 /\ Begun.st = "up" /\ Begun.k = 1 /\ Begun.said = {}
  BY DEF Start, Begun
<1>9. /\ c.type \in {"none", "free", "opening", "connecting", "larval", "open", "zombie"}
      /\ cy.type \in {"none", "free", "opening", "connecting", "larval", "open", "zombie"}
  BY DEF NotYet, Free, Chans, Types
<1>10. /\ by.k > 1 => cy.type \notin {"none", "opening"}
       /\ by.k > 0 => cy.type # "none"
       /\ ay.st = "new" => cy.type \in {"none", "opening", "zombie"} /\ cy.type # "zombie"
       /\ cy.type \in {"opening", "zombie"} => Opener(y)
       /\ ay.st = "failed" => cy.type \in {"zombie", "free"} /\ by = Begun
  <2>1. cy.type = "none" => ay = Start /\ by = Start
    BY DEF Own, Stage
  <2>2. cy.type = "opening" => Opener(y) /\ ay = Start /\ by = Begun
    BY DEF Own, Stage
  <2>3. cy.type \in {"connecting", "larval"} => ay = Begun
    BY DEF Own, Stage
  <2>4. cy.type = "zombie" => Opener(y) /\ ay.st = "failed" /\ by = Begun
    BY DEF Own, Stage
  <2>5. cy.type = "free" => ay = Begun \/ (ay.st = "failed" /\ by = Begun) \/ ay.st = "closed"
    BY DEF Own, Stage
  <2>6. cy.type = "open" => ay.st \in {"up", "closed"}
    BY DEF Own, Stage, OpenOK, FlagsOK
  <2>. QED BY <1>8, <1>9, <2>1, <2>2, <2>3, <2>4, <2>5, <2>6
<1>11. c.type # "none"
  <2>1. SUFFICES ASSUME c.type = "none" PROVE FALSE
    OBVIOUS
  <2>2. a = Start /\ b = Start
    BY <2>1 DEF Own, Stage
  <2>3. ay.st = "new" /\ Opener(z)
    BY <1>5, <1>8, <2>2 DEF Before
  <2>. QED BY <1>2, <1>4, <1>8, <1>10, <2>2, <2>3
<1>12. c.type # "connecting"
  <2>1. SUFFICES ASSUME c.type = "connecting" PROVE FALSE
    OBVIOUS
  <2>2. a = Begun /\ b = Start
    BY <2>1 DEF Own, Stage
  <2>3. ay.st = "new" /\ by.k > 1
    BY <1>4, <1>8, <2>2 DEF Before
  <2>. QED BY <1>10, <2>3
<1>13. c.type # "zombie"
  BY <1>5 DEF Own, Stage
<1>14. c.type # "free"
  <2>1. SUFFICES ASSUME c.type = "free" PROVE FALSE
    OBVIOUS
  <2>2. ~Opener(z) /\ a = Begun /\ b.st = "failed"
    BY <1>5, <2>1 DEF Own, Stage
  <2>3. ay.st \in {"new", "failed"} /\ by.k > 1
    BY <1>4, <1>8, <2>2 DEF Before
  <2>. QED BY <1>8, <1>10, <2>3
<1>15. c.type = "opening" => op \in {"CONFIRM", "FAILURE"}
  <2>1. c.type = "opening" => a = Start
    BY DEF Own, Stage
  <2>. QED BY <1>5, <1>8, <2>1
<1>16. c.type = "larval" => op = "shell"
  <2>1. c.type = "larval" => a = Begun /\ SesServer(z)
    BY DEF Own, Stage
  <2>. QED BY <1>6, <1>8, <2>1
<1>17. c.type = "open" => op \notin {"CONFIRM", "FAILURE", "shell"}
  <2>1. c.type = "open" => a.st # "new" /\ (SesServer(z) => "shell" \in a.said)
    BY DEF Own, Stage, OpenOK, FlagsOK, SesOK
  <2>. QED BY <1>5, <1>6, <1>7, <2>1
<1>18. op = "EXTENDED" /\ n > 0 => ExecClient(z)
  <2>1. by.ext > 0 => ExecServer(y)
    BY DEF Own, Facts, LedgerOK
  <2>2. op = "EXTENDED" /\ n > 0 => a2.ext > 0
    BY <1>1, <1>3 DEF Adds, Places
  <2>3. a2.ext <= by.ext /\ a2.ext \in Nat /\ by.ext \in Nat
    BY <1>1 DEF Before, Places, a2
  <2>. QED BY <1>2, <2>1, <2>2, <2>3
<1>19. a2.data + a2.ext <= W0(z) + b.adj
  <2>1. by.data + by.ext <= W0(z) + ay.adj
    BY <1>2 DEF Own, Facts, LedgerOK
  <2>2. a2.data <= by.data /\ a2.ext <= by.ext /\ ay.adj <= b.adj
    BY DEF Before, a2
  <2>3. /\ a2.data \in Nat /\ a2.ext \in Nat /\ by.data \in Nat /\ by.ext \in Nat
        /\ ay.adj \in Nat /\ b.adj \in Nat
    BY <1>1 DEF Places
  <2>. QED BY <1>2, <2>1, <2>2, <2>3
<1>20. op = "eow" => z.peer = "fail"
  <2>1. op = "eow" => "eow" \in a2.said
    BY <1>3 DEF Words
  <2>2. a2.said \subseteq by.said
    BY DEF Before, a2
  <2>. QED BY <2>1, <2>2 DEF Own, Facts, ReaderOK
<1>21. op = "CLOSE" /\ "EOF" \notin b.said /\ b.st # "closed" => z.peer = "fail"
  <2>1. SUFFICES ASSUME op = "CLOSE", "EOF" \notin b.said, b.st # "closed" PROVE z.peer = "fail"
    OBVIOUS
  <2>2. by = a2 /\ by.st = "closed"
    BY <1>3, <2>1 DEF Before, a2
  <2>3. "EOF" \notin ay.said /\ ay.st # "closed"
    BY <2>1 DEF Before
  <2>4. xy.saw # "open" /\ xy.saw # "eof"
    BY <2>2, <2>3 DEF Own, Facts, ReaderOK
  <2>5. xy.saw \in {"open", "eof", "fail"}
    BY DEF Own, Ios
  <2>. QED BY <2>4, <2>5
<1>22. op # "EXTENDED" \/ n > 0 => Due(z, a, b, op, n)
  BY <1>18, <1>19, <1>20, <1>21 DEF Due, a2
<1>. QED BY <1>9, <1>11, <1>12, <1>13, <1>14, <1>15, <1>16, <1>17, <1>18, <1>22

\* A count matters in three kinds of packet.
LEMMA CountOf ==
  ASSUME NEW a, NEW op, op \notin {"DATA", "EXTENDED", "ADJUST"}, NEW n
  PROVE  After(a, op, n) = After(a, op, 0)
<1>1. \A k \in {"DATA", "EXTENDED", "ADJUST"} : Adds(op, n, k) = 0 /\ Adds(op, 0, k) = 0
  BY DEF Adds
<1>. QED BY <1>1 DEF After

\* The handler of a packet for an open channel.
LEMMA HandlesOpen ==
  ASSUME NEW z \in Sides, NEW d, NEW s, NEW a, NEW b, Mid(z, d, s, a, b), NEW m \in Msgs,
         m.op \notin {"OPEN", "CONFIRM", "FAILURE", "shell"}, Hears(z, a, m.op),
         m.op # "EXTENDED" \/ m.n > 0 => Due(z, a, b, m.op, m.n)
  PROVE  \E b2 \in Places : Mid(z, d, Handle(s, m), After(a, m.op, m.n), b2)
<1>1. m.op \in Ops /\ m.n \in Nat /\ b \in Places
  BY MsgFields, MidTypes
<1>2. CASE m.op = "DATA"
  <2>1. Handle(s, m) = channel_input_data(s, m.n)
    BY <1>2 DEF Handle
  <2>. QED BY <1>1, <1>2, <2>1, InputData
<1>3. CASE m.op = "EXTENDED" /\ m.n > 0
  <2>1. Handle(s, m) = channel_input_extended_data(s, m.n)
    BY <1>3 DEF Handle
  <2>. QED BY <1>1, <1>3, <2>1, InputExtended
<1>4. CASE m.op = "EXTENDED" /\ m.n = 0
  <2>1. Handle(s, m) = channel_input_extended_data(s, 0)
    BY <1>4 DEF Handle
  <2>. QED BY <1>1, <1>4, <2>1, InputNothing
<1>5. CASE m.op = "ADJUST"
  <2>1. Handle(s, m) = channel_input_window_adjust(s, m.n)
    BY <1>5 DEF Handle
  <2>. QED BY <1>1, <1>5, <2>1, InputAdjust
<1>6. ASSUME m.op \in {"EOF", "CLOSE", "eow", "exit-status", "exit-signal"}
      PROVE  Due(z, a, b, m.op, 0) /\ After(a, m.op, m.n) = After(a, m.op, 0)
  <2>1. After(a, m.op, m.n) = After(a, m.op, 0)
    BY <1>6, CountOf
  <2>2. Due(z, a, b, m.op, m.n)
    BY <1>6
  <2>. QED BY <1>6, <2>1, <2>2 DEF Due
<1>7. CASE m.op = "EOF"
  <2>1. Handle(s, m) = chan_rcvd_ieof(s)
    BY <1>7 DEF Handle
  <2>2. Mid(z, d, chan_rcvd_ieof(s), After(a, "EOF", 0), b)
    BY <1>6, <1>7, InputEof
  <2>. QED BY <1>1, <1>6, <1>7, <2>1, <2>2
<1>8. CASE m.op = "CLOSE"
  <2>1. Handle(s, m) = chan_rcvd_oclose(s)
    BY <1>8 DEF Handle
  <2>2. \E b2 \in Places : Mid(z, d, chan_rcvd_oclose(s), After(a, "CLOSE", 0), b2)
    BY <1>6, <1>8, InputClose
  <2>. QED BY <1>1, <1>6, <1>8, <2>1, <2>2
<1>9. CASE m.op = "eow"
  <2>1. Handle(s, m) = chan_rcvd_eow(s)
    BY <1>9 DEF Handle
  <2>2. Mid(z, d, chan_rcvd_eow(s), After(a, "eow", 0), b)
    BY <1>6, <1>9, InputEow
  <2>. QED BY <1>1, <1>6, <1>9, <2>1, <2>2
<1>10. CASE m.op = "exit-status"
  <2>1. Handle(s, m) = client_input_exit_status(s, "exit-status")
    BY <1>10 DEF Handle
  <2>2. Mid(z, d, client_input_exit_status(s, "exit-status"), After(a, "exit-status", 0), b)
    BY <1>6, <1>10, InputExitStatus
  <2>. QED BY <1>1, <1>6, <1>10, <2>1, <2>2
<1>12. CASE m.op = "exit-signal"
  <2>1. Handle(s, m) = client_input_exit_status(s, "exit-signal")
    BY <1>12 DEF Handle
  <2>2. Mid(z, d, client_input_exit_status(s, "exit-signal"), After(a, "exit-signal", 0), b)
    BY <1>6, <1>12, InputExitSignal
  <2>. QED BY <1>1, <1>6, <1>12, <2>1, <2>2
<1>11. m.op = "DATA" \/ (m.op = "EXTENDED" /\ (m.n > 0 \/ m.n = 0)) \/ m.op = "ADJUST" \/ m.op = "EOF"
       \/ m.op = "CLOSE" \/ m.op = "eow" \/ m.op = "exit-status" \/ m.op = "exit-signal"
  BY <1>1 DEF Ops
<1>. QED BY <1>2, <1>3, <1>4, <1>5, <1>7, <1>8, <1>9, <1>10, <1>11, <1>12

\* A packet that finds its channel, in any state.
LEMMA ReceiveResult ==
  ASSUME NEW z \in Sides, NEW y \in Sides, Mates(z, y), NEW s \in States, s.out = <<>>,
         NEW a, NEW b, Own(z, s.c, s.io, a, b), NEW m \in Msgs, m.op # "OPEN", NEW i,
         Hears(z, a, m.op), m.op # "EXTENDED" \/ m.n > 0 => Due(z, a, b, m.op, m.n),
         s.c.type \in {"opening", "larval", "open"},
         s.c.type = "opening" <=> m.op \in {"CONFIRM", "FAILURE"},
         s.c.type = "larval" <=> m.op = "shell",
         m.op = "CONFIRM" => m.from = z.to /\ m.n = PeerW0(z)
  PROVE  /\ ~Refused(s.c, m.op)
         /\ \E b2 \in Places : Result(z, i, [out |-> b, saw |-> s.io.saw], Handle(s, m),
                                      After(a, m.op, m.n), b2)
<1>. DEFINE d == [out |-> b, saw |-> s.io.saw]
<1>1. m.op \in Ops /\ m.n \in Nat /\ b \in Places /\ s.c \in Chans
  BY MsgFields DEF Own, States
<1>2. CASE s.c.type = "open"
  <2>1. Mid(z, d, s, a, b)
    BY <1>2, OwnIsMid
  <2>2. PICK b2 \in Places : Mid(z, d, Handle(s, m), After(a, m.op, m.n), b2)
    <3>. HIDE DEF d
    <3>. QED BY <1>2, <2>1, HandlesOpen
  <2>3. ~Refused(s.c, m.op)
    <3>1. m.op = "EXTENDED" => "EOF" \notin a.said
      BY DEF Hears, Allowed
    <3>2. "EOF_RCVD" \in s.c.flags <=> "EOF" \in a.said
      BY <2>1 DEF Mid, OpenOK, FlagsOK
    <3>. QED BY <1>2, <3>1, <3>2 DEF Refused
  <2>. QED BY <2>2, <2>3, MidResult
<1>3. CASE s.c.type = "larval"
  <2>1. Handle(s, m) = channel_set_fds(s)
    BY <1>3 DEF Handle, session_input_channel_req
  <2>2. m.op = "shell" /\ m.n \in Nat
    BY <1>1, <1>3
  <2>3. \E b2 \in Places : Result(z, i, [out |-> b, saw |-> s.io.saw], channel_set_fds(s),
                                 After(a, "shell", m.n), b2)
    BY <1>3, <2>2, ShellResult
  <2>4. ~Refused(s.c, m.op)
    BY <2>2 DEF Refused
  <2>. QED BY <2>1, <2>2, <2>3, <2>4
<1>4. CASE s.c.type = "opening" /\ m.op = "FAILURE"
  <2>1. Handle(s, m) = chan_mark_dead(s)
    BY <1>4 DEF Handle
  <2>. QED BY <1>1, <1>4, <2>1, FailureResult DEF Refused
<1>5. CASE s.c.type = "opening" /\ m.op = "CONFIRM"
  <2>1. Handle(s, m) = channel_input_open_confirmation(s, m)
    BY <1>5 DEF Handle
  <2>2. Opener(z)
    BY <1>5 DEF Own, Stage
  <2>3. ~SesServer(z)
    BY <2>2, MatesRoles
  <2>4. /\ a = Start /\ After(a, "CONFIRM", m.n) = Begun
        /\ \E b2 \in Places : Mid(z, [out |-> b, saw |-> s.io.saw],
                                   channel_input_open_confirmation(s, m), Begun, b2)
    BY <1>5, <2>3, Confirms
  <2>. QED BY <1>5, <2>1, <2>4, MidResult DEF Refused
<1>. QED BY <1>2, <1>3, <1>4, <1>5

\* What z's side keeps when the other side moves on: its place in the array is settled
\* before it is used, and a program that is gone does not come back.
LEMMA OwnKept ==
  ASSUME NEW z \in Sides, NEW y \in Sides, NEW c, NEW x, NEW a, NEW b, Own(z, c, x, a, b),
         y.end = z.end, y.kind = z.kind, y.by = z.by, y.g = z.g,
         z.peer = "fail" => y.peer = "fail",
         c.type \in {"connecting", "larval", "open"} => y.to = z.to
  PROVE  Own(y, c, x, a, b)
<1>1. /\ Opener(y) <=> Opener(z)
      /\ SesClient(y) <=> SesClient(z)
      /\ SesServer(y) <=> SesServer(z)
      /\ ExecServer(y) <=> ExecServer(z)
      /\ ExecClient(y) <=> ExecClient(z)
  BY DEF Opener, SesClient, SesServer, ExecServer, ExecClient
<1>2. W0(y) = W0(z) /\ PeerW0(y) = PeerW0(z)
  BY <1>1 DEF W0, PeerW0
<1>3. LedgerOK(y, a, b)
  BY <1>1, <1>2 DEF Own, Facts, LedgerOK
<1>4. ReaderOK(y, x, a, b)
  BY <1>1 DEF Own, Facts, ReaderOK
<1>5. WriterOK(y, x, a, b)
  BY <1>1 DEF Own, Facts, WriterOK
<1>6. \A w : Fresh(z, c, w) => Fresh(y, c, w)
  BY <1>2 DEF Fresh
<1>7. OpenOK(z, c, x, a, b) => OpenOK(y, c, x, a, b)
  <2>1. WinOK(z, c, a, b) => WinOK(y, c, a, b)
    BY <1>1, <1>2 DEF WinOK
  <2>2. InOK(z, c, x, b) => InOK(y, c, x, b)
    BY DEF InOK
  <2>3. ErrOK(z, c, x, a, b) => ErrOK(y, c, x, a, b)
    BY <1>1 DEF ErrOK
  <2>4. SesOK(z, c, x, a, b) => SesOK(y, c, x, a, b)
    BY <1>1 DEF SesOK
  <2>. QED BY <2>1, <2>2, <2>3, <2>4 DEF OpenOK
<1>8. Stage(y, c, x, a, b)
  BY <1>1, <1>6, <1>7 DEF Own, Stage
<1>9. Complete(z, x, b) => Complete(y, x, b)
  BY <1>1 DEF Complete
<1>10. Honest(y, c, x, b)
  BY <1>9 DEF Own, Honest
<1>11. c = NotYet \/ c = Free \/ Belongs(y, c)
  BY DEF Own, Belongs
<1>. QED BY <1>3, <1>4, <1>5, <1>8, <1>10, <1>11 DEF Own, Facts

-----------------------------------------------------------------------------
(* The sides of a connection *)

\* What a plan says of its channels.
LEMMA PlanTypes ==
  ASSUME plan \in Plans, NEW g \in Gens
  PROVE  /\ plan[g].kind \in Kinds /\ plan[g].by \in Ends /\ Len(plan) \in Nat /\ g \in Nat
         /\ plan[g].kind # "tcp" => plan[g].by = "client"
<1>. DEFINE R == [kind : {"tcp", "tty", "exec"}, by : Ends, client : Nat, server : Nat, err : Nat]
<1>1. plan \in Seq(R) /\ \A k \in DOMAIN plan : plan[k].kind # "tcp" => plan[k].by = "client"
  BY ChannelAssumption
<1>. HIDE DEF R
<1>2. g \in DOMAIN plan /\ plan[g] \in R /\ Len(plan) \in Nat
  BY <1>1 DEF Gens
<1>. QED BY SMTT(60), <1>1, <1>2 DEF R, Kinds, Gens

\* The other end.
LEMMA PeerOf ==
  ASSUME NEW e \in Ends
  PROVE  Peer(e) \in Ends /\ Peer(e) # e /\ Peer(Peer(e)) = e /\ \A f \in Ends : f = e \/ f = Peer(e)
  BY DEF Ends, Peer

\* The side of channel g at end e.
LEMMA SideFields ==
  ASSUME Shapes, NEW v \in Maps, NEW e \in Ends, NEW g \in Gens
  PROVE  /\ SideOf(v, e, g) \in Sides
         /\ SideOf(v, e, g).end = e /\ SideOf(v, e, g).kind = Kind(g)
         /\ SideOf(v, e, g).by = plan[g].by /\ SideOf(v, e, g).g = g
         /\ SideOf(v, e, g).to = v[Peer(e)][g].at
         /\ SideOf(v, e, g).peer = io[g][Peer(e)].saw
         /\ v[e][g] \in Views
<1>1. Peer(e) \in Ends
  BY PeerOf
<1>2. plan[g].kind \in Kinds /\ plan[g].by \in Ends /\ g \in Nat
  BY PlanTypes DEF Shapes
<1>3. v[Peer(e)][g] \in Views /\ v[e][g] \in Views
  BY <1>1 DEF Maps
<1>4. v[Peer(e)][g].at \in Slots
  BY <1>3 DEF Views
<1>5. io[g][Peer(e)] \in Ios
  BY <1>1 DEF Shapes
<1>6. io[g][Peer(e)].saw \in {"open", "eof", "fail"}
  BY <1>5 DEF Ios
<1>. QED BY <1>2, <1>3, <1>4, <1>6 DEF SideOf, Sides, Kind

\* The two ends' sides of channel g.
LEMMA SidesMate ==
  ASSUME Shapes, NEW v \in Maps, NEW e \in Ends, NEW g \in Gens
  PROVE  Mates(SideOf(v, e, g), SideOf(v, Peer(e), g))
<1>1. Peer(e) \in Ends /\ Peer(e) # e
  BY PeerOf
<1>2. plan[g].kind # "tcp" => plan[g].by = "client"
  BY PlanTypes DEF Shapes
<1>. QED BY <1>1, <1>2, SideFields DEF Mates, Kind

\* Equivalent roles allow the same paths.
LEMMA SamePath ==
  ASSUME NEW o, NEW u, NEW p \in BOOLEAN, NEW r \in BOOLEAN, o \in BOOLEAN, u \in BOOLEAN,
         o <=> p, u <=> r, NEW g, NEW w, NEW a, NEW b
  PROVE  Path(o, u, g, w, a, b) <=> Path(p, r, g, w, a, b)
<1>1. o = p /\ u = r
  OBVIOUS
<1>. QED BY <1>1

\* A side's path is that of its end.
LEMMA SidePath ==
  ASSUME Shapes, NEW v \in Maps, NEW e \in Ends, NEW g \in Gens,
         NEW w, NEW a, NEW b
  PROVE  Path(Opener(SideOf(v, e, g)), SesClient(SideOf(v, e, g)), g, w, a, b)
           <=> Path(Asks(e, g), Shells(e, g), g, w, a, b)
<1>1. Opener(SideOf(v, e, g)) <=> Asks(e, g)
  BY SideFields DEF Opener, Asks
<1>2. SesClient(SideOf(v, e, g)) <=> Shells(e, g)
  BY SideFields DEF SesClient, Shells
<1>3. /\ Opener(SideOf(v, e, g)) \in BOOLEAN /\ SesClient(SideOf(v, e, g)) \in BOOLEAN
      /\ Asks(e, g) \in BOOLEAN /\ Shells(e, g) \in BOOLEAN
  BY DEF Opener, Asks, SesClient, Shells
<1>. QED BY <1>1, <1>2, <1>3, SamePath

\* A step of side e of channel g.  It is at place i and becomes c, its program x; it has
\* heard up to place a, leaving rest to be heard, and sends q, which takes it to b.
Moves(v, e, g, i, c, x, a, b, q, rest) ==
    /\ c = Free \/ c \in Chans
    /\ \/ /\ ch' = [ch EXCEPT ![e] = [ch[e] EXCEPT ![i] = c]]
          /\ ch[e][i] = Free \/ ch[e][i].g = g
          /\ v[e][g].c \in Chans => v[e][g].at = i
       \/ ch' = ch /\ c = Free /\ v[e][g].c \notin Chans
    /\ io' = [io EXCEPT ![g] = [io[g] EXCEPT ![e] = x]]
    /\ net' = [net EXCEPT ![e] = rest, ![Peer(e)] = net[Peer(e)] \o q]
    /\ plan' = plan /\ disc' = disc /\ opened' \in 0 .. Len(plan)
    /\ \A h \in Gens : h > opened' <=> (h > opened /\ ~(h = g /\ e = plan[g].by))
    /\ \A k \in 1 .. Len(rest) : \E j \in 1 .. Len(net[e]) : rest[k] = net[e][j]
    /\ \A h \in Gens : h # g =>
         Path(Asks(Peer(e), h), Shells(Peer(e), h), h, rest, v[e][h].in, v[Peer(e)][h].out)
    /\ Path(Asks(Peer(e), g), Shells(Peer(e), g), g, rest, a, v[Peer(e)][g].out)
    /\ Path(Asks(e, g), Shells(e, g), g, q, v[e][g].out, b)
    /\ Carries(SideOf(v, e, g), i, q)
    /\ Own(SideOf(v, e, g), c, x, a, b)
    /\ io[g][e].saw = "fail" => x.saw = "fail"
    /\ \/ v[e][g].at = i
       \/ /\ \A k \in 1 .. Len(rest) : rest[k].g # g
          /\ \A k \in 1 .. Len(net[Peer(e)]) : net[Peer(e)][k].g # g
          /\ v[Peer(e)][g].c.type \notin {"connecting", "larval", "open"}

\* The views after it.
Turned(v, e, g, i, c, a, b) ==
    [v EXCEPT ![e] = [v[e] EXCEPT ![g] = [at |-> i, c |-> c, in |-> a, out |-> b]]]

\* Only one view changes.
LEMMA TurnedFields ==
  ASSUME NEW v \in Maps, NEW e \in Ends, NEW g \in Gens, NEW i \in Slots,
         NEW c \in Chans \cup {Free}, NEW a \in Places, NEW b \in Places, NEW w,
         w = Turned(v, e, g, i, c, a, b)
  PROVE  /\ w \in Maps
         /\ w[e][g].at = i /\ w[e][g].c = c /\ w[e][g].in = a /\ w[e][g].out = b
         /\ \A f \in Ends : f # e => w[f] = v[f]
         /\ \A h \in Gens : h # g => w[e][h] = v[e][h]
<1>. DEFINE r == [at |-> i, c |-> c, in |-> a, out |-> b]
<1>1. r \in Views /\ r.at = i /\ r.c = c /\ r.in = a /\ r.out = b
  BY DEF Views
<1>2. w = [v EXCEPT ![e] = [v[e] EXCEPT ![g] = r]]
  BY DEF Turned
<1>. HIDE DEF r
<1>3. /\ w \in Maps
      /\ w[e][g] = r
      /\ \A f \in Ends : f # e => w[f] = v[f]
      /\ \A h \in Gens : h # g => w[e][h] = v[e][h]
  BY <1>1, <1>2 DEF Maps
<1>. QED BY <1>1, <1>3

\* The types are kept ...
LEMMA MovesShapes ==
  ASSUME NEW v \in Maps, Inv(v), NEW e \in Ends, NEW g \in Gens,
         NEW i \in Slots, NEW c, NEW x, NEW a, NEW b, NEW q \in Seq(Msgs), NEW rest \in Seq(Msgs),
         Moves(v, e, g, i, c, x, a, b, q, rest)
  PROVE  Shapes' /\ Gens' = Gens /\ a \in Places /\ b \in Places /\ x \in Ios
<1>1. a \in Places /\ b \in Places /\ x \in Ios /\ (c = Free \/ c \in Chans)
  BY DEF Moves, Own
<1>2. Shapes /\ Peer(e) \in Ends /\ Peer(e) # e
  BY PeerOf DEF Inv
<1>3. ch' \in [Ends -> [Slots -> Chans \cup {Free}]]
  <2>1. ch \in [Ends -> [Slots -> Chans \cup {Free}]] /\ c \in Chans \cup {Free}
    BY <1>1, <1>2 DEF Shapes
  <2>2. [ch EXCEPT ![e] = [ch[e] EXCEPT ![i] = c]] \in [Ends -> [Slots -> Chans \cup {Free}]]
    BY <2>1
  <2>. QED BY <2>1, <2>2 DEF Moves
<1>4. io' \in [Gens -> [Ends -> Ios]]
  <2>1. io \in [Gens -> [Ends -> Ios]] /\ io' = [io EXCEPT ![g] = [io[g] EXCEPT ![e] = x]]
    BY <1>2 DEF Shapes, Moves
  <2>. QED BY <1>1, <2>1
<1>5. net' \in [Ends -> Seq(Msgs)]
  <2>1. net \in [Ends -> Seq(Msgs)]
    BY <1>2 DEF Shapes
  <2>2. net[Peer(e)] \o q \in Seq(Msgs)
    <3>1. net[Peer(e)] \in Seq(Msgs)
      BY <1>2, <2>1
    <3>. QED BY <3>1, ConcatProperties, Zenon
  <2>. QED BY <1>2, <2>1, <2>2 DEF Moves
<1>6. plan' = plan /\ disc' = disc /\ opened' \in 0 .. Len(plan)
  BY DEF Moves
<1>7. Gens' = Gens
  BY <1>6 DEF Gens
<1>. QED BY <1>1, <1>2, <1>3, <1>4, <1>5, <1>6, <1>7 DEF Shapes

\* ... the arrays agree with the views ...
LEMMA MovesReps ==
  ASSUME NEW v \in Maps, Inv(v), NEW e \in Ends, NEW g \in Gens,
         NEW i \in Slots, NEW c, NEW x, NEW a, NEW b, NEW q \in Seq(Msgs), NEW rest \in Seq(Msgs),
         Moves(v, e, g, i, c, x, a, b, q, rest)
  PROVE  Reps(Turned(v, e, g, i, c, a, b))'
<1>. DEFINE w == Turned(v, e, g, i, c, a, b)
<1>1. /\ a \in Places /\ b \in Places /\ (c = Free \/ c \in Chans) /\ Gens' = Gens /\ plan' = plan
      /\ Shapes /\ plan \in Plans
  <2>1. a \in Places /\ b \in Places /\ Gens' = Gens
    BY MovesShapes
  <2>. QED BY <2>1 DEF Moves, Inv, Shapes
<1>2. /\ w \in Maps /\ w[e][g].at = i /\ w[e][g].c = c
      /\ \A f \in Ends : \A h \in Gens : f # e \/ h # g => w[f][h] = v[f][h]
  <2>1. a \in Places /\ b \in Places /\ c \in Chans \cup {Free} /\ w = Turned(v, e, g, i, c, a, b)
    BY <1>1
  <2>. HIDE DEF w
  <2>2. w \in Maps
    BY SMTT(60), <2>1, TurnedFields
  <2>3. w[e][g].at = i /\ w[e][g].c = c
    BY SMTT(60), <2>1, TurnedFields
  <2>4. \A f \in Ends : f # e => w[f] = v[f]
    BY SMTT(60), <2>1, TurnedFields
  <2>5. \A h \in Gens : h # g => w[e][h] = v[e][h]
    BY <2>1 DEF Turned, Maps
  <2>. QED BY <2>2, <2>3, <2>4, <2>5
<1>3. c \in Chans => c.g = g
  BY <1>1, FreeIsNoChan, SideFields DEF Moves, Own, Belongs
<1>4. Reps(v) /\ ch \in [Ends -> [Slots -> Chans \cup {Free}]]
  BY DEF Inv, Shapes
<1>5. \A f \in Ends : \A j \in Slots :
         \/ f = e /\ j = i /\ ch'[f][j] = c
         \/ /\ ch'[f][j] = ch[f][j]
            /\ f = e /\ ch[f][j] # Free => ch[f][j].g # g
  <2>. TAKE f \in Ends
  <2>. TAKE j \in Slots
  <2>1. f = e /\ ch[f][j] # Free /\ ch[f][j].g = g => v[e][g].c \in Chans /\ v[e][g].at = j
    BY <1>4 DEF Reps
  <2>2. CASE ch' = ch /\ c = Free /\ v[e][g].c \notin Chans
    BY <2>1, <2>2
  <2>3. CASE /\ ch' = [ch EXCEPT ![e] = [ch[e] EXCEPT ![i] = c]]
             /\ v[e][g].c \in Chans => v[e][g].at = i
    BY <1>4, <2>1, <2>3
  <2>. QED BY <2>2, <2>3 DEF Moves
<1>6. v[e][g].c \in Chans \/ c \in Chans => ch'[e][i] = c
  BY <1>4, FreeIsNoChan DEF Moves
<1>60. \A j \in Slots : j # i => ch'[e][j] = ch[e][j]
  BY <1>4 DEF Moves
<1>61. \A f \in Ends : f # e => ch'[f] = ch[f]
  BY <1>4 DEF Moves
<1>7. \A h \in Gens : h > opened' <=> (h > opened /\ ~(h = g /\ e = plan[g].by))
  BY DEF Moves
<1>8. c # NotYet /\ Free \notin Chans
  BY <1>1, FreeIsNoChan
<1>. HIDE DEF w
<1>9. ASSUME NEW f \in Ends, NEW j \in Slots, ch'[f][j] # Free
      PROVE  /\ ch'[f][j] \in Chans /\ ch'[f][j].g \in Gens
             /\ w[f][ch'[f][j].g].c = ch'[f][j] /\ w[f][ch'[f][j].g].at = j
  <2>1. CASE f = e /\ j = i /\ ch'[f][j] = c
    BY <1>1, <1>2, <1>3, <1>9, <2>1
  <2>2. CASE /\ ch'[f][j] = ch[f][j]
             /\ f = e /\ ch[f][j] # Free => ch[f][j].g # g
    <3>1. /\ ch[f][j] \in Chans /\ ch[f][j].g \in Gens
          /\ v[f][ch[f][j].g].c = ch[f][j] /\ v[f][ch[f][j].g].at = j
      BY <1>4, <1>9, <2>2 DEF Reps
    <3>2. w[f][ch[f][j].g] = v[f][ch[f][j].g]
      BY <1>2, <1>9, <2>2, <3>1
    <3>. QED BY <2>2, <3>1, <3>2
  <2>. QED BY <1>5, <2>1, <2>2
<1>10. ASSUME NEW f \in Ends, NEW h \in Gens, w[f][h].c \in Chans
       PROVE  ch'[f][w[f][h].at] = w[f][h].c
  <2>1. CASE f = e /\ h = g
    BY <1>2, <1>6, <1>10, <2>1
  <2>2. CASE f = e /\ h # g
    <3>1. w[f][h] = v[f][h] /\ v[f][h] \in Views
      BY <1>2, <2>2 DEF Maps
    <3>2. ch[f][v[f][h].at] = v[f][h].c /\ v[f][h].c \in Chans /\ v[f][h].at \in Slots
      BY <1>4, <1>10, <3>1 DEF Reps, Views
    <3>3. v[f][h].c.g = h
      <4>1. Own(SideOf(v, f, h), v[f][h].c, io[h][f], v[f][h].in, v[f][h].out)
        BY DEF Inv, Owns
      <4>. QED BY <1>1, <3>2, <4>1, FreeIsNoChan, SideFields DEF Own, Belongs
    <3>4. v[f][h].at # i \/ ch'[e][i] = ch[e][i]
      <4>1. SUFFICES ASSUME v[f][h].at = i, ch'[e][i] # ch[e][i] PROVE FALSE
        OBVIOUS
      <4>2. ch[e][i] = Free \/ ch[e][i].g = g
        BY <4>1 DEF Moves
      <4>. QED BY <1>8, <2>2, <3>2, <3>3, <4>1, <4>2
    <3>. QED BY <1>60, <2>2, <3>1, <3>2, <3>4
  <2>3. CASE f # e
    <3>1. w[f][h] = v[f][h]
      BY <1>2, <2>3
    <3>. QED BY <1>4, <1>10, <1>61, <2>3, <3>1 DEF Reps
  <2>. QED BY <2>1, <2>2, <2>3
<1>11. ASSUME NEW h \in Gens
       PROVE  w[plan[h].by][h].c = NotYet <=> h > opened'
  <2>1. plan[h].by \in Ends
    BY <1>1, PlanTypes
  <2>2. v[plan[h].by][h].c = NotYet <=> h > opened
    BY <1>4 DEF Reps
  <2>3. CASE plan[h].by = e /\ h = g
    BY <1>2, <1>7, <1>8, <2>3
  <2>4. CASE ~(plan[h].by = e /\ h = g)
    <3>1. w[plan[h].by][h] = v[plan[h].by][h]
      BY <1>2, <2>1, <2>4
    <3>. QED BY <1>7, <2>2, <2>4, <3>1
  <2>. QED BY <2>3, <2>4
<1>. QED BY <1>1, <1>9, <1>10, <1>11 DEF Reps, w

\* ... the packets under way keep their addresses ...
LEMMA MovesMail ==
  ASSUME NEW v \in Maps, Inv(v), NEW e \in Ends, NEW g \in Gens,
         NEW i \in Slots, NEW c, NEW x, NEW a, NEW b, NEW q \in Seq(Msgs), NEW rest \in Seq(Msgs),
         Moves(v, e, g, i, c, x, a, b, q, rest)
  PROVE  Mail(Turned(v, e, g, i, c, a, b))'
<1>. DEFINE w == Turned(v, e, g, i, c, a, b)
            p == Peer(e)
<1>1. /\ a \in Places /\ b \in Places /\ x \in Ios /\ c \in Chans \cup {Free} /\ Gens' = Gens
      /\ plan' = plan /\ Shapes /\ plan \in Plans /\ Shapes'
  <2>1. a \in Places /\ b \in Places /\ Gens' = Gens /\ x \in Ios /\ Shapes'
    BY MovesShapes
  <2>. QED BY <2>1 DEF Moves, Inv, Shapes
<1>2. /\ w \in Maps /\ w[e][g].at = i /\ w[e][g].c = c /\ w[e][g].in = a /\ w[e][g].out = b
      /\ \A f \in Ends : \A h \in Gens : f # e \/ h # g => w[f][h] = v[f][h]
  <2>1. w = Turned(v, e, g, i, c, a, b)
    OBVIOUS
  <2>. HIDE DEF w
  <2>2. w \in Maps
    BY ZenonT(90), <1>1, <2>1, TurnedFields
  <2>3. w[e][g].at = i /\ w[e][g].c = c /\ w[e][g].in = a /\ w[e][g].out = b
    BY <1>1, <2>1, TurnedFields
  <2>4. \A f \in Ends : f # e => w[f] = v[f]
    BY <2>1 DEF Turned, Maps
  <2>5. \A h \in Gens : h # g => w[e][h] = v[e][h]
    BY <2>1 DEF Turned, Maps
  <2>. QED BY <2>2, <2>3, <2>4, <2>5
<1>3. /\ p \in Ends /\ p # e /\ Peer(p) = e /\ \A f \in Ends : f = e \/ f = p
  BY PeerOf
<1>4. /\ net \in [Ends -> Seq(Msgs)] /\ net' \in [Ends -> Seq(Msgs)]
      /\ net'[e] = rest /\ net'[p] = net[p] \o q
  <2>1. net \in [Ends -> Seq(Msgs)] /\ net' \in [Ends -> Seq(Msgs)]
    BY <1>1 DEF Shapes
  <2>2. net' = [net EXCEPT ![e] = rest, ![p] = net[p] \o q]
    BY DEF Moves
  <2>. HIDE DEF p
  <2>. QED BY <1>3, <2>1, <2>2
<1>5. \A f \in Ends : \A h \in Gens : Granted(f, h)' = Granted(f, h)
  BY <1>1 DEF Granted, Kind
<1>6. W0(SideOf(v, e, g)) = Granted(p, g)
  BY <1>1, <1>3, SideFields DEF W0, SesServer, Granted, Ends
<1>7. SideOf(v, e, g).to = v[p][g].at /\ SideOf(v, e, g).g = g
  BY <1>1, SideFields
<1>8. Mail(v) /\ Carries(SideOf(v, e, g), i, q)
  BY DEF Inv, Moves
<1>9. \/ v[e][g].at = i
      \/ /\ \A k \in 1 .. Len(rest) : rest[k].g # g
         /\ \A k \in 1 .. Len(net[p]) : net[p][k].g # g
  BY DEF Moves
<1>. HIDE DEF w, p
<1>. DEFINE Fine(f, m) == /\ m.g \in Gens
                          /\ m.op = "OPEN" => m.from = w[Peer(f)][m.g].at /\ m.n = Window
                          /\ m.op # "OPEN" => m.to = w[f][m.g].at
                          /\ m.op = "CONFIRM" => /\ m.from = w[Peer(f)][m.g].at
                                                 /\ m.n = Granted(f, m.g)
<1>10. ASSUME NEW k \in 1 .. Len(rest)
       PROVE  Fine(e, rest[k])
  <2>1. PICK j \in 1 .. Len(net[e]) : rest[k] = net[e][j]
    BY DEF Moves
  <2>. DEFINE m == rest[k]
  <2>2. /\ m.g \in Gens
        /\ m.op = "OPEN" => m.from = v[p][m.g].at /\ m.n = Window
        /\ m.op # "OPEN" => m.to = v[e][m.g].at
        /\ m.op = "CONFIRM" => m.from = v[p][m.g].at /\ m.n = Granted(e, m.g)
    BY <1>8, <2>1 DEF Mail, p
  <2>3. w[p][m.g] = v[p][m.g]
    BY <1>2, <1>3, <2>2
  <2>4. w[e][m.g].at = v[e][m.g].at
    BY <1>2, <1>9, <2>2
  <2>. QED BY <2>2, <2>3, <2>4 DEF p
<1>11. ASSUME NEW k \in 1 .. Len(net[p])
       PROVE  Fine(p, net[p][k])
  <2>. DEFINE m == net[p][k]
  <2>2. /\ m.g \in Gens
        /\ m.op = "OPEN" => m.from = v[e][m.g].at /\ m.n = Window
        /\ m.op # "OPEN" => m.to = v[p][m.g].at
        /\ m.op = "CONFIRM" => m.from = v[e][m.g].at /\ m.n = Granted(p, m.g)
    BY <1>3, <1>8 DEF Mail
  <2>3. w[p][m.g] = v[p][m.g]
    BY <1>2, <1>3, <2>2
  <2>4. w[e][m.g].at = v[e][m.g].at
    BY <1>2, <1>9, <2>2
  <2>. QED BY <1>3, <2>2, <2>3, <2>4
<1>12. ASSUME NEW k \in 1 .. Len(q)
       PROVE  Fine(p, q[k])
  <2>1. /\ q[k].g = g
        /\ q[k].op # "OPEN" => q[k].to = v[p][g].at
        /\ q[k].op = "OPEN" => q[k].from = i /\ q[k].n = Window
        /\ q[k].op = "CONFIRM" => q[k].from = i /\ q[k].n = Granted(p, g)
    BY <1>6, <1>7, <1>8 DEF Carries
  <2>2. w[p][g] = v[p][g] /\ w[e][g].at = i
    BY <1>2, <1>3
  <2>. QED BY <1>3, <2>1, <2>2
<1>13. ASSUME NEW f \in Ends, NEW k \in 1 .. Len(net'[f])
       PROVE  Fine(f, net'[f][k])
  <2>1. CASE f = e
    BY <1>4, <1>10, <1>13, <2>1
  <2>2. CASE f = p
    <3>1. net[p] \in Seq(Msgs)
      BY <1>3, <1>4
    <3>2. PICK n1 \in Nat : Len(net[p]) = n1
      BY <3>1
    <3>3. PICK n2 \in Nat : Len(q) = n2
      OBVIOUS
    <3>4. /\ Len(net[p] \o q) = Len(net[p]) + Len(q)
          /\ \A j \in 1 .. Len(net[p]) + Len(q) :
               (net[p] \o q)[j] = IF j <= Len(net[p]) THEN net[p][j] ELSE q[j - Len(net[p])]
      BY <3>1, ConcatProperties, Zenon
    <3>5. \/ k \in 1 .. n1 /\ net'[f][k] = net[p][k]
          \/ k - n1 \in 1 .. n2 /\ net'[f][k] = q[k - n1]
      <4>1. k \in 1 .. n1 + n2 /\ net'[f][k] = (net[p] \o q)[k]
        BY <1>4, <1>13, <2>2, <3>2, <3>3, <3>4
      <4>. QED BY <3>2, <3>3, <3>4, <4>1
    <3>. HIDE DEF Fine
    <3>. QED BY <1>11, <1>12, <2>2, <3>2, <3>3, <3>5
  <2>. QED BY <1>3, <2>1, <2>2
<1>. QED BY <1>1, <1>5, <1>13 DEF Mail, w

\* ... and their paths ...
LEMMA MovesWays ==
  ASSUME NEW v \in Maps, Inv(v), NEW e \in Ends, NEW g \in Gens,
         NEW i \in Slots, NEW c, NEW x, NEW a, NEW b, NEW q \in Seq(Msgs), NEW rest \in Seq(Msgs),
         Moves(v, e, g, i, c, x, a, b, q, rest)
  PROVE  Ways(Turned(v, e, g, i, c, a, b))'
<1>. DEFINE w == Turned(v, e, g, i, c, a, b)
            p == Peer(e)
<1>1. /\ a \in Places /\ b \in Places /\ x \in Ios /\ c \in Chans \cup {Free} /\ Gens' = Gens
      /\ plan' = plan /\ Shapes /\ plan \in Plans /\ Shapes'
  <2>1. a \in Places /\ b \in Places /\ Gens' = Gens /\ x \in Ios /\ Shapes'
    BY MovesShapes
  <2>. QED BY <2>1 DEF Moves, Inv, Shapes
<1>2. /\ w \in Maps /\ w[e][g].at = i /\ w[e][g].c = c /\ w[e][g].in = a /\ w[e][g].out = b
      /\ \A f \in Ends : \A h \in Gens : f # e \/ h # g => w[f][h] = v[f][h]
  <2>1. w = Turned(v, e, g, i, c, a, b)
    OBVIOUS
  <2>. HIDE DEF w
  <2>2. w \in Maps
    BY <1>1, <2>1, TurnedFields
  <2>3. w[e][g].at = i /\ w[e][g].c = c /\ w[e][g].in = a /\ w[e][g].out = b
    BY <1>1, <2>1, TurnedFields
  <2>4. \A f \in Ends : f # e => w[f] = v[f]
    BY <2>1 DEF Turned, Maps
  <2>5. \A h \in Gens : h # g => w[e][h] = v[e][h]
    BY <2>1 DEF Turned, Maps
  <2>. QED BY <2>2, <2>3, <2>4, <2>5
<1>3. /\ p \in Ends /\ p # e /\ Peer(p) = e /\ \A f \in Ends : f = e \/ f = p
  BY PeerOf
<1>4. /\ net \in [Ends -> Seq(Msgs)] /\ net' \in [Ends -> Seq(Msgs)]
      /\ net'[e] = rest /\ net'[p] = net[p] \o q
  <2>1. net \in [Ends -> Seq(Msgs)] /\ net' \in [Ends -> Seq(Msgs)]
    BY <1>1 DEF Shapes
  <2>2. net' = [net EXCEPT ![e] = rest, ![p] = net[p] \o q]
    BY DEF Moves
  <2>. HIDE DEF p
  <2>. QED BY <1>3, <2>1, <2>2
<1>5. \A f \in Ends : \A h \in Gens : Asks(f, h)' = Asks(f, h) /\ Shells(f, h)' = Shells(f, h)
  BY <1>1 DEF Asks, Shells, Kind
<1>6. /\ \A h \in Gens : h # g =>
           Path(Asks(p, h), Shells(p, h), h, rest, v[e][h].in, v[p][h].out)
      /\ Path(Asks(p, g), Shells(p, g), g, rest, a, v[p][g].out)
      /\ Path(Asks(e, g), Shells(e, g), g, q, v[e][g].out, b)
  BY DEF Moves
<1>7. \A h \in Gens : Path(Asks(e, h), Shells(e, h), h, net[p], v[p][h].in, v[e][h].out)
  BY <1>3 DEF Inv, Ways
<1>8. \A k \in 1 .. Len(q) : q[k].g = g
  BY <1>1, SideFields DEF Moves, Carries
<1>. HIDE DEF w, p
<1>9. ASSUME NEW h \in Gens
      PROVE  Path(Asks(p, h), Shells(p, h), h, net'[e], w[e][h].in, w[p][h].out)
  <2>1. w[p][h] = v[p][h]
    BY <1>2, <1>3
  <2>2. CASE h = g
    BY <1>2, <1>4, <1>6, <2>1, <2>2
  <2>3. CASE h # g
    <3>1. w[e][h] = v[e][h]
      BY <1>2, <2>3
    <3>. QED BY <1>4, <1>6, <2>1, <2>3, <3>1
  <2>. QED BY <2>2, <2>3
<1>10. ASSUME NEW h \in Gens
       PROVE  Path(Asks(e, h), Shells(e, h), h, net'[p], w[p][h].in, w[e][h].out)
  <2>1. w[p][h] = v[p][h] /\ net[p] \in Seq(Msgs)
    BY <1>2, <1>3, <1>4
  <2>2. Path(Asks(e, h), Shells(e, h), h, net[p], v[p][h].in, v[e][h].out)
    BY <1>7
  <2>3. Path(Asks(e, h), Shells(e, h), h, q, v[e][h].out, w[e][h].out)
    <3>1. CASE h = g
      BY <1>2, <1>6, <3>1
    <3>2. CASE h # g
      <4>1. w[e][h] = v[e][h]
        BY <1>2, <3>2
      <4>2. v[e][h].out \in Places
        BY <2>1, <2>2, PathBefore
      <4>3. \A k \in 1 .. Len(q) : q[k].g # h
        BY <1>8, <3>2
      <4>. QED BY <4>1, <4>2, <4>3, PathOthers
    <3>. QED BY <3>1, <3>2
  <2>4. Path(Asks(e, h), Shells(e, h), h, net[p] \o q, v[p][h].in, w[e][h].out)
    BY <2>1, <2>2, <2>3, PathJoin, Zenon
  <2>. QED BY <1>4, <2>1, <2>4
<1>11. ASSUME NEW f \in Ends, NEW h \in Gens
       PROVE  Path(Asks(Peer(f), h)', Shells(Peer(f), h)', h, net'[f], w[f][h].in, w[Peer(f)][h].out)
  <2>1. CASE f = e
    <3>1. Peer(f) = p /\ Asks(p, h)' = Asks(p, h) /\ Shells(p, h)' = Shells(p, h)
      BY <1>3, <1>5, <2>1 DEF p
    <3>. QED BY <1>9, <2>1, <3>1
  <2>2. CASE f = p
    <3>1. Peer(f) = e /\ Asks(e, h)' = Asks(e, h) /\ Shells(e, h)' = Shells(e, h)
      BY <1>3, <1>5, <2>2
    <3>. QED BY <1>10, <2>2, <3>1
  <2>. QED BY <1>3, <2>1, <2>2
<1>. QED BY <1>1, <1>11 DEF Ways, w

\* ... and each side keeps its own invariant,
LEMMA MovesOwns ==
  ASSUME NEW v \in Maps, Inv(v), NEW e \in Ends, NEW g \in Gens,
         NEW i \in Slots, NEW c, NEW x, NEW a, NEW b, NEW q \in Seq(Msgs), NEW rest \in Seq(Msgs),
         Moves(v, e, g, i, c, x, a, b, q, rest)
  PROVE  Owns(Turned(v, e, g, i, c, a, b))'
<1>. DEFINE w == Turned(v, e, g, i, c, a, b)
            p == Peer(e)
<1>1. /\ a \in Places /\ b \in Places /\ x \in Ios /\ c \in Chans \cup {Free} /\ Gens' = Gens
      /\ plan' = plan /\ Shapes /\ plan \in Plans /\ Shapes'
  <2>1. a \in Places /\ b \in Places /\ Gens' = Gens /\ x \in Ios /\ Shapes'
    BY MovesShapes
  <2>. QED BY <2>1 DEF Moves, Inv, Shapes
<1>2. /\ w \in Maps /\ w[e][g].at = i /\ w[e][g].c = c /\ w[e][g].in = a /\ w[e][g].out = b
      /\ \A f \in Ends : \A h \in Gens : f # e \/ h # g => w[f][h] = v[f][h]
  <2>1. w = Turned(v, e, g, i, c, a, b)
    OBVIOUS
  <2>. HIDE DEF w
  <2>2. w \in Maps
    BY <1>1, <2>1, TurnedFields
  <2>3. w[e][g].at = i /\ w[e][g].c = c /\ w[e][g].in = a /\ w[e][g].out = b
    BY <1>1, <2>1, TurnedFields
  <2>4. \A f \in Ends : f # e => w[f] = v[f]
    BY <2>1 DEF Turned, Maps
  <2>5. \A h \in Gens : h # g => w[e][h] = v[e][h]
    BY <2>1 DEF Turned, Maps
  <2>. QED BY <2>2, <2>3, <2>4, <2>5
<1>3. /\ p \in Ends /\ p # e /\ Peer(p) = e /\ \A f \in Ends : f = e \/ f = p
  BY PeerOf
<1>4. /\ net \in [Ends -> Seq(Msgs)] /\ net' \in [Ends -> Seq(Msgs)]
      /\ net'[e] = rest /\ net'[p] = net[p] \o q
  <2>1. net \in [Ends -> Seq(Msgs)] /\ net' \in [Ends -> Seq(Msgs)]
    BY <1>1 DEF Shapes
  <2>2. net' = [net EXCEPT ![e] = rest, ![p] = net[p] \o q]
    BY DEF Moves
  <2>. HIDE DEF p
  <2>. QED BY <1>3, <2>1, <2>2
<1>5. Owns(v) /\ io \in [Gens -> [Ends -> Ios]] /\ io' \in [Gens -> [Ends -> Ios]]
  BY <1>1 DEF Inv, Shapes
<1>6. /\ io'[g][e] = x /\ io'[g][p] = io[g][p]
      /\ \A h \in Gens : h # g => io'[h] = io[h]
  <2>1. io' = [io EXCEPT ![g] = [io[g] EXCEPT ![e] = x]]
    BY DEF Moves
  <2>. HIDE DEF p
  <2>. QED BY <1>3, <1>5, <2>1
<1>7. Own(SideOf(v, e, g), c, x, a, b) /\ (io[g][e].saw = "fail" => x.saw = "fail")
  BY DEF Moves
<1>8. v[e][g].at = i \/ v[p][g].c.type \notin {"connecting", "larval", "open"}
  BY DEF Moves
<1>9. \A f \in Ends : \A h \in Gens :
        SideOf(w, f, h)' = [end |-> f, kind |-> Kind(h), by |-> plan[h].by, g |-> h,
                            to |-> w[Peer(f)][h].at, peer |-> io'[h][Peer(f)].saw]
  BY <1>1 DEF SideOf, Kind
<1>. HIDE DEF w, p
<1>10. Own(SideOf(w, e, g)', w[e][g].c, io'[g][e], w[e][g].in, w[e][g].out)
  <2>1. w[p][g] = v[p][g] /\ Peer(e) = p
    BY <1>2, <1>3 DEF p
  <2>2. SideOf(w, e, g)' = SideOf(v, e, g)
    BY <1>6, <1>9, <2>1 DEF SideOf
  <2>. QED BY <1>2, <1>6, <1>7, <2>2
<1>11. Own(SideOf(w, p, g)', w[p][g].c, io'[g][p], w[p][g].in, w[p][g].out)
  <2>. DEFINE z == SideOf(v, p, g)
              y == SideOf(w, p, g)'
  <2>1. w[p][g] = v[p][g]
    BY <1>2, <1>3
  <2>2. /\ z \in Sides /\ z.end = p /\ z.kind = Kind(g) /\ z.by = plan[g].by /\ z.g = g
        /\ z.to = v[e][g].at /\ z.peer = io[g][e].saw
    BY <1>1, <1>3, SideFields
  <2>3. y = [end |-> p, kind |-> Kind(g), by |-> plan[g].by, g |-> g, to |-> i, peer |-> x.saw]
    BY <1>2, <1>3, <1>6, <1>9
  <2>. HIDE DEF y
  <2>4. x.saw \in {"open", "eof", "fail"}
    BY <1>1 DEF Ios
  <2>5. y \in Sides
    <3>. HIDE DEF z
    <3>. QED BY <2>2, <2>3, <2>4 DEF Sides
  <2>6. Own(z, v[p][g].c, io[g][p], v[p][g].in, v[p][g].out)
    BY <1>3, <1>5 DEF Owns
  <2>. HIDE DEF z
  <2>7. /\ y.end = z.end /\ y.kind = z.kind /\ y.by = z.by /\ y.g = z.g
        /\ z.peer = "fail" => y.peer = "fail"
        /\ v[p][g].c.type \in {"connecting", "larval", "open"} => y.to = z.to
    BY <1>7, <1>8, <2>2, <2>3
  <2>8. Own(y, v[p][g].c, io[g][p], v[p][g].in, v[p][g].out)
    BY <2>2, <2>5, <2>6, <2>7, OwnKept
  <2>. QED BY <1>6, <2>1, <2>8 DEF y
<1>12. ASSUME NEW f \in Ends, NEW h \in Gens, h # g
       PROVE  Own(SideOf(w, f, h)', w[f][h].c, io'[h][f], w[f][h].in, w[f][h].out)
  <2>1. w[f][h] = v[f][h] /\ w[Peer(f)][h] = v[Peer(f)][h] /\ io'[h] = io[h]
    BY <1>2, <1>6, <1>12, PeerOf
  <2>2. SideOf(w, f, h)' = SideOf(v, f, h)
    BY <1>9, <2>1 DEF SideOf
  <2>. QED BY <1>5, <2>1, <2>2 DEF Owns
<1>13. ASSUME NEW f \in Ends, NEW h \in Gens
       PROVE  Own(SideOf(w, f, h)', w[f][h].c, io'[h][f], w[f][h].in, w[f][h].out)
  BY <1>3, <1>10, <1>11, <1>12
<1>. QED BY <1>1, <1>13 DEF Owns, w

\* so a step of one side keeps the invariant.
LEMMA MovesKeep ==
  ASSUME NEW v \in Maps, Inv(v), NEW e \in Ends, NEW g \in Gens,
         NEW i \in Slots, NEW c, NEW x, NEW a, NEW b, NEW q \in Seq(Msgs), NEW rest \in Seq(Msgs),
         Moves(v, e, g, i, c, x, a, b, q, rest)
  PROVE  CInv'
<1>. DEFINE w == Turned(v, e, g, i, c, a, b)
<1>1. /\ a \in Places /\ b \in Places /\ c \in Chans \cup {Free} /\ Gens' = Gens /\ Shapes'
  <2>1. a \in Places /\ b \in Places /\ Gens' = Gens /\ Shapes'
    BY MovesShapes
  <2>. QED BY <2>1 DEF Moves
<1>2. w \in Maps
  BY <1>1, TurnedFields
<1>3. w \in Maps'
  BY <1>1, <1>2 DEF Maps
<1>4. Reps(w)' /\ Mail(w)' /\ Ways(w)' /\ Owns(w)'
  BY MovesReps, MovesMail, MovesWays, MovesOwns
<1>5. Inv(w)'
  BY SMTT(60), <1>1, <1>4 DEF Inv
<1>. QED BY <1>3, <1>5 DEF CInv

-----------------------------------------------------------------------------
(* The actions *)

\* A channel in the array is its view's.
LEMMA ChannelAt ==
  ASSUME NEW v \in Maps, Inv(v), NEW e \in Ends, NEW i \in Slots, ch[e][i] # Free,
         NEW g, g = ch[e][i].g
  PROVE  /\ g \in Gens /\ ch[e][i] \in Chans /\ v[e][g].c = ch[e][i] /\ v[e][g].at = i
         /\ io[g][e] \in Ios /\ SideOf(v, e, g) \in Sides /\ SideOf(v, e, g).g = g
         /\ Own(SideOf(v, e, g), ch[e][i], io[g][e], v[e][g].in, v[e][g].out)
         /\ v[e][g].in \in Places /\ v[e][g].out \in Places
<1>1. g \in Gens /\ ch[e][i] \in Chans /\ v[e][g].c = ch[e][i] /\ v[e][g].at = i
  BY DEF Inv, Reps
<1>2. Own(SideOf(v, e, g), ch[e][i], io[g][e], v[e][g].in, v[e][g].out)
  BY <1>1 DEF Inv, Owns
<1>3. SideOf(v, e, g) \in Sides /\ SideOf(v, e, g).g = g
  BY <1>1, SideFields DEF Inv
<1>. QED BY ZenonT(90), <1>1, <1>2, <1>3 DEF Own

\* The state a handler begins with.
LEMMA StateFields ==
  ASSUME NEW e \in Ends, NEW i \in Slots, NEW g, g = ch[e][i].g, ch[e][i] \in Chans, io[g][e] \in Ios
  PROVE  /\ State(e, i) \in States /\ State(e, i).c = ch[e][i] /\ State(e, i).io = io[g][e]
         /\ State(e, i).out = <<>>
  BY SMTT(60) DEF State, States

\* A side is that of its channel.
LEMMA SideIndex ==
  ASSUME NEW v, NEW e, NEW g
  PROVE  SideOf(v, e, g).g = g
  BY DEF SideOf

\* A channel in the array does what a handler leaves of it.
LEMMA ActsMove ==
  ASSUME NEW v \in Maps, Inv(v), NEW e \in Ends, NEW i \in Slots, ch[e][i] # Free,
         NEW g, g = ch[e][i].g, NEW t, NEW a, NEW b, NEW rest \in Seq(Msgs),
         Result(SideOf(v, e, g), i, [out |-> v[e][g].out, saw |-> io[g][e].saw], t, a, b),
         ch' = [ch EXCEPT ![e] = [ch[e] EXCEPT ![i] = t.c]],
         io' = [io EXCEPT ![g] = [io[g] EXCEPT ![e] = t.io]],
         net' = [net EXCEPT ![e] = rest, ![Peer(e)] = net[Peer(e)] \o t.out],
         UNCHANGED <<plan, opened, disc>>,
         \A k \in 1 .. Len(rest) : \E j \in 1 .. Len(net[e]) : rest[k] = net[e][j],
         \A h \in Gens : h # g =>
           Path(Asks(Peer(e), h), Shells(Peer(e), h), h, rest, v[e][h].in, v[Peer(e)][h].out),
         Path(Asks(Peer(e), g), Shells(Peer(e), g), g, rest, a, v[Peer(e)][g].out)
  PROVE  CInv'
<1>1. /\ g \in Gens /\ ch[e][i] \in Chans /\ v[e][g].c = ch[e][i] /\ v[e][g].at = i
      /\ SideOf(v, e, g).g = g
  <2>1. g \in Gens /\ ch[e][i] \in Chans /\ v[e][g].c = ch[e][i] /\ v[e][g].at = i
    BY ZenonT(90) DEF Inv, Reps
  <2>2. SideOf(v, e, g).g = g
    BY SMTT(60), SideIndex
  <2>. QED BY SMTT(60), <2>1, <2>2
<1>2. /\ t.out \in Seq(Msgs) /\ Carries(SideOf(v, e, g), i, t.out)
      /\ io[g][e].saw = "fail" => t.io.saw = "fail"
      /\ Path(Opener(SideOf(v, e, g)), SesClient(SideOf(v, e, g)), g, t.out, v[e][g].out, b)
      /\ t.c = Free \/ t.c \in Chans
      /\ Own(SideOf(v, e, g), t.c, t.io, a, b)
  BY ZenonT(90), <1>1 DEF Result, Kept, Belongs
<1>3. Path(Asks(e, g), Shells(e, g), g, t.out, v[e][g].out, b)
  BY ZenonT(90), <1>1, <1>2, SidePath DEF Inv
<1>4. \A h \in Gens : h > opened' <=> (h > opened /\ ~(h = g /\ e = plan[g].by))
  <2>1. v[plan[g].by][g].c = NotYet <=> g > opened
    BY ZenonT(90), <1>1 DEF Inv, Reps
  <2>2. e = plan[g].by => ~(g > opened)
    BY ZenonT(90), <1>1, <2>1, FreeIsNoChan
  <2>. QED BY SMTT(60), <2>2
<1>5. opened' \in 0 .. Len(plan)
  BY SMTT(60) DEF Inv, Shapes
<1>6. Moves(v, e, g, i, t.c, t.io, a, b, t.out, rest)
  BY ZenonT(90), <1>1, <1>2, <1>3, <1>4, <1>5 DEF Moves
<1>. QED BY ZenonT(90), <1>1, <1>2, <1>6, MovesKeep

\* It hears nothing meanwhile.
LEMMA CommitKeeps ==
  ASSUME NEW v \in Maps, Inv(v), NEW e \in Ends, NEW i \in Slots, ch[e][i] # Free,
         NEW g, g = ch[e][i].g, NEW t, NEW b,
         Result(SideOf(v, e, g), i, [out |-> v[e][g].out, saw |-> io[g][e].saw], t, v[e][g].in, b),
         Commit(e, i, t)
  PROVE  CInv'
<1>1. Peer(e) \in Ends /\ Peer(e) # e
  BY PeerOf
<1>2. /\ ch \in [Ends -> [Slots -> Chans \cup {Free}]] /\ io \in [Gens -> [Ends -> Ios]]
      /\ net \in [Ends -> Seq(Msgs)] /\ net[e] \in Seq(Msgs) /\ g \in Gens
  BY ChannelAt DEF Inv, Shapes
<1>3. ch' = [ch EXCEPT ![e] = [ch[e] EXCEPT ![i] = t.c]]
  BY <1>2 DEF Commit
<1>4. io' = [io EXCEPT ![g] = [io[g] EXCEPT ![e] = t.io]]
  BY <1>2 DEF Commit
<1>5. net' = [net EXCEPT ![e] = net[e], ![Peer(e)] = net[Peer(e)] \o t.out]
  <2>1. net' = [net EXCEPT ![Peer(e)] = net[Peer(e)] \o t.out]
    BY <1>1, <1>2 DEF Commit
  <2>. QED BY <1>1, <1>2, <2>1
<1>6. UNCHANGED <<plan, opened, disc>>
  BY DEF Commit
<1>7. \A h \in Gens : Path(Asks(Peer(e), h), Shells(Peer(e), h), h, net[e], v[e][h].in, v[Peer(e)][h].out)
  BY DEF Inv, Ways
<1>8. \A k \in 1 .. Len(net[e]) : \E j \in 1 .. Len(net[e]) : net[e][k] = net[e][j]
  OBVIOUS
<1>. QED BY <1>2, <1>3, <1>4, <1>5, <1>6, <1>7, <1>8, ActsMove

\* channel_pre_open and channel_garbage_collect.
LEMMA PreKeeps ==
  ASSUME CInv, NEW e \in Ends, NEW i \in Slots, Pre(e, i)
  PROVE  CInv'
<1>1. PICK v \in Maps : Inv(v)
  BY DEF CInv
<1>2. ch[e][i] # Free
  BY DEF Pre, Free
<1>. DEFINE g == ch[e][i].g
            s == State(e, i)
            t == channel_garbage_collect(IF s.c.type = "open" THEN channel_pre_open(s) ELSE s)
            z == SideOf(v, e, g)
<1>3. /\ ch[e][i] \in Chans /\ io[g][e] \in Ios /\ z \in Sides
      /\ Own(z, ch[e][i], io[g][e], v[e][g].in, v[e][g].out)
  BY <1>1, <1>2, ChannelAt
<1>4. s \in States /\ s.c = ch[e][i] /\ s.io = io[g][e] /\ s.out = <<>>
  BY <1>3, StateFields
<1>5. Commit(e, i, t) /\ ch[e][i].type # "connecting"
  BY DEF Pre
<1>. HIDE DEF g, s, z
<1>6. PICK b \in Places : Result(z, i, [out |-> v[e][g].out, saw |-> s.io.saw], t, v[e][g].in, b)
  BY <1>3, <1>4, <1>5, PreResult
<1>. HIDE DEF t
<1>. QED BY <1>1, <1>2, <1>4, <1>5, <1>6, CommitKeeps DEF g, z

\* channel_post_open.
LEMMA PostKeeps ==
  ASSUME CInv, NEW e \in Ends, NEW i \in Slots, Post(e, i)
  PROVE  CInv'
<1>1. PICK v \in Maps : Inv(v)
  BY DEF CInv
<1>2. ch[e][i] # Free
  BY DEF Post, Free
<1>. DEFINE g == ch[e][i].g
            s == State(e, i)
            z == SideOf(v, e, g)
<1>3. /\ ch[e][i] \in Chans /\ io[g][e] \in Ios /\ z \in Sides
      /\ Own(z, ch[e][i], io[g][e], v[e][g].in, v[e][g].out)
  BY <1>1, <1>2, ChannelAt
<1>4. s \in States /\ s.c = ch[e][i] /\ s.io = io[g][e] /\ s.out = <<>>
  BY <1>3, StateFields
<1>5. PICK r \in channel_handle_rfd(s) : \E w \in channel_handle_wfd(r) :
      \E x \in channel_handle_efd(w) :
          Commit(e, i, channel_garbage_collect(channel_check_window(x)))
  BY DEF Post
<1>6. PICK w \in channel_handle_wfd(r) : \E x \in channel_handle_efd(w) :
          Commit(e, i, channel_garbage_collect(channel_check_window(x)))
  BY <1>5
<1>7. PICK x \in channel_handle_efd(w) :
          Commit(e, i, channel_garbage_collect(channel_check_window(x)))
  BY <1>6
<1>. DEFINE t == channel_garbage_collect(channel_check_window(x))
<1>8. ch[e][i].type = "open"
  BY DEF Post
<1>. HIDE DEF g, s, z
<1>9. PICK b \in Places : Result(z, i, [out |-> v[e][g].out, saw |-> s.io.saw], t, v[e][g].in, b)
  BY <1>3, <1>4, <1>8, PostResult
<1>10. Commit(e, i, t)
  BY <1>7
<1>. HIDE DEF t
<1>. QED BY <1>1, <1>2, <1>4, <1>9, <1>10, CommitKeeps DEF g, z

\* channel_output_poll.
LEMMA PollKeeps ==
  ASSUME CInv, NEW e \in Ends, NEW i \in Slots, Poll(e, i)
  PROVE  CInv'
<1>1. PICK v \in Maps : Inv(v)
  BY DEF CInv
<1>2. ch[e][i] # Free
  BY DEF Poll, Free
<1>. DEFINE g == ch[e][i].g
            s == State(e, i)
            t == channel_output_poll(s)
            z == SideOf(v, e, g)
<1>3. /\ ch[e][i] \in Chans /\ io[g][e] \in Ios /\ z \in Sides
      /\ Own(z, ch[e][i], io[g][e], v[e][g].in, v[e][g].out)
  BY <1>1, <1>2, ChannelAt
<1>4. s \in States /\ s.c = ch[e][i] /\ s.io = io[g][e] /\ s.out = <<>>
  BY <1>3, StateFields
<1>5. Commit(e, i, t) /\ ch[e][i].type = "open"
  BY DEF Poll
<1>. HIDE DEF g, s, z
<1>6. PICK b \in Places : Result(z, i, [out |-> v[e][g].out, saw |-> s.io.saw], t, v[e][g].in, b)
  BY <1>3, <1>4, <1>5, PollResult
<1>. HIDE DEF t
<1>. QED BY <1>1, <1>2, <1>4, <1>5, <1>6, CommitKeeps DEF g, z

\* collect_children.
LEMMA CollectChildrenKeeps ==
  ASSUME CInv, NEW i \in Slots, CollectChildren(i)
  PROVE  CInv'
<1>. DEFINE e == "server"
<1>0. e \in Ends
  BY DEF Ends
<1>1. PICK v \in Maps : Inv(v)
  BY DEF CInv
<1>2. ch[e][i] # Free
  BY DEF CollectChildren, Free
<1>. DEFINE g == ch[e][i].g
            s == State(e, i)
            t == session_exit_message(s)
            z == SideOf(v, e, g)
<1>3. /\ ch[e][i] \in Chans /\ io[g][e] \in Ios /\ z \in Sides
      /\ Own(z, ch[e][i], io[g][e], v[e][g].in, v[e][g].out)
  BY <1>0, <1>1, <1>2, ChannelAt
<1>4. s \in States /\ s.c = ch[e][i] /\ s.io = io[g][e] /\ s.out = <<>>
  BY <1>0, <1>3, StateFields
<1>5. Commit(e, i, t) /\ ch[e][i].type = "open" /\ io[g][e].child = "exited"
  BY DEF CollectChildren
<1>. HIDE DEF e, g, s, z
<1>6. PICK b \in Places : Result(z, i, [out |-> v[e][g].out, saw |-> s.io.saw], t, v[e][g].in, b)
  BY <1>3, <1>4, <1>5, ExitResult
<1>. HIDE DEF t
<1>. QED BY <1>0, <1>1, <1>2, <1>4, <1>5, <1>6, CommitKeeps DEF g, z

\* channel_post_connecting.
LEMMA ConnectingKeeps ==
  ASSUME CInv, NEW e \in Ends, NEW i \in Slots, Connecting(e, i)
  PROVE  CInv'
<1>1. PICK v \in Maps : Inv(v)
  BY DEF CInv
<1>2. ch[e][i] # Free
  BY DEF Connecting, Free
<1>. DEFINE g == ch[e][i].g
            s == State(e, i)
            m == [op |-> "CONFIRM", to |-> s.c.rid, from |-> i, n |-> s.c.lwin, g |-> s.c.g]
            t == channel_garbage_collect([s EXCEPT !.c.type = "open", !.out = <<m>>])
            u == channel_garbage_collect(chan_mark_dead(Enqueue(s, "FAILURE", 0)))
            z == SideOf(v, e, g)
<1>3. /\ ch[e][i] \in Chans /\ io[g][e] \in Ios /\ z \in Sides
      /\ Own(z, ch[e][i], io[g][e], v[e][g].in, v[e][g].out)
  BY <1>1, <1>2, ChannelAt
<1>4. s \in States /\ s.c = ch[e][i] /\ s.io = io[g][e] /\ s.out = <<>>
  BY <1>3, StateFields
<1>5. (Commit(e, i, t) \/ Commit(e, i, u)) /\ ch[e][i].type = "connecting"
  BY DEF Connecting
<1>. HIDE DEF g, s, z
<1>6. CASE Commit(e, i, t)
  <2>0. m = [op |-> "CONFIRM", to |-> s.c.rid, from |-> i, n |-> s.c.lwin, g |-> s.c.g]
    OBVIOUS
  <2>. HIDE DEF m
  <2>1. PICK b \in Places : Result(z, i, [out |-> v[e][g].out, saw |-> s.io.saw], t, v[e][g].in, b)
    BY <1>3, <1>4, <1>5, <2>0, ConnectedResult
  <2>. HIDE DEF t
  <2>. QED BY <1>1, <1>2, <1>4, <1>6, <2>1, CommitKeeps DEF g, z
<1>7. CASE Commit(e, i, u)
  <2>1. PICK b \in Places : Result(z, i, [out |-> v[e][g].out, saw |-> s.io.saw], u, v[e][g].in, b)
    BY ZenonT(90), <1>3, <1>4, <1>5, NotConnectedResult
  <2>. HIDE DEF u
  <2>. QED BY <1>1, <1>2, <1>4, <1>7, <2>1, CommitKeeps DEF g, z
<1>. QED BY <1>5, <1>6, <1>7

\* A program does something its channel does not notice yet.
LEMMA DoesKeeps ==
  ASSUME NEW v \in Maps, Inv(v), NEW e \in Ends, NEW i \in Slots, ch[e][i] # Free,
         NEW g, g = ch[e][i].g, NEW x,
         Mid(SideOf(v, e, g), [out |-> v[e][g].out, saw |-> io[g][e].saw],
             [State(e, i) EXCEPT !.io = x], v[e][g].in, v[e][g].out),
         io' = [io EXCEPT ![g][e] = x], UNCHANGED <<plan, opened, ch, net, disc>>
  PROVE  CInv'
<1>. DEFINE t == [State(e, i) EXCEPT !.io = x]
            a == v[e][g].in
            b == v[e][g].out
<1>1. Peer(e) \in Ends /\ Peer(e) # e
  BY PeerOf
<1>2. /\ ch \in [Ends -> [Slots -> Chans \cup {Free}]] /\ io \in [Gens -> [Ends -> Ios]]
      /\ net \in [Ends -> Seq(Msgs)] /\ net[e] \in Seq(Msgs) /\ net[Peer(e)] \in Seq(Msgs)
  BY SMTT(60), <1>1 DEF Inv, Shapes
<1>20. g \in Gens
  BY ZenonT(90) DEF Inv, Reps
<1>3. t.c = ch[e][i] /\ t.io = x /\ t.out = <<>>
  BY SMTT(60) DEF State
<1>4. Result(SideOf(v, e, g), i, [out |-> v[e][g].out, saw |-> io[g][e].saw], t, a, b)
  BY MidResult
<1>. HIDE DEF t
<1>5. ch' = [ch EXCEPT ![e][i] = t.c]
  BY <1>2, <1>3
<1>6. io' = [io EXCEPT ![ch[e][i].g][e] = t.io]
  BY <1>2, <1>20, <1>3
<1>7. net' = [net EXCEPT ![Peer(e)] = @ \o t.out]
  <2>1. net[Peer(e)] \o t.out = net[Peer(e)]
    BY SMTT(60), <1>2, <1>3, ConcatEmptySeq
  <2>. QED BY <1>1, <1>2, <2>1
<1>8. Commit(e, i, t)
  BY ZenonT(90), <1>5, <1>6, <1>7 DEF Commit
<1>9. Result(SideOf(v, e, g), i, [out |-> v[e][g].out, saw |-> io[g][e].saw], t, v[e][g].in, b)
  BY ZenonT(90), <1>4
<1>. HIDE DEF b
<1>. QED BY ZenonT(90), <1>8, <1>9, CommitKeeps

\* The programs behind the descriptors.
LEMMA ProgramsKeep ==
  ASSUME CInv, Programs
  PROVE  CInv'
<1>1. PICK v \in Maps : Inv(v)
  BY DEF CInv
<1>2. PICK g \in Gens :
       \/ \E e \in Ends : Writes(e, g) \/ EndsOutput(e, g) \/ Leaves(e, g)
       \/ WritesErr(g) \/ EndsErr(g) \/ ErrLeaves(g) \/ ChildExits(g)
  BY DEF Programs
<1>3. ASSUME NEW e \in Ends, NEW x, Does(e, g, x),
             \A z \in Sides : \A d, s, a, b :
                 Mid(z, d, s, a, b) /\ s.io = io[g][e] /\ z.end = e /\ z.kind = Kind(g)
                    => Mid(z, d, [s EXCEPT !.io = x], a, b)
      PROVE  CInv'
  <2>1. PICK i \in Slots : ch[e][i].type = "open" /\ ch[e][i].g = g
    BY <1>3 DEF Does, Runs
  <2>2. ch[e][i] # Free
    BY <2>1 DEF Free
  <2>. DEFINE s == State(e, i)
              z == SideOf(v, e, g)
              d == [out |-> v[e][g].out, saw |-> s.io.saw]
  <2>3. /\ ch[e][i] \in Chans /\ io[g][e] \in Ios /\ z \in Sides
        /\ Own(z, ch[e][i], io[g][e], v[e][g].in, v[e][g].out)
    BY <1>1, <2>1, <2>2, ChannelAt
  <2>4. s \in States /\ s.c = ch[e][i] /\ s.io = io[g][e] /\ s.out = <<>>
    BY <2>1, <2>3, StateFields
  <2>5. z.end = e /\ z.kind = Kind(g)
    BY <1>1, SideFields DEF Inv
  <2>. HIDE DEF s, z
  <2>6. Mid(z, d, s, v[e][g].in, v[e][g].out)
    BY <2>1, <2>3, <2>4, OwnIsMid
  <2>7. Mid(z, d, [s EXCEPT !.io = x], v[e][g].in, v[e][g].out)
    BY <1>3, <2>3, <2>4, <2>5, <2>6
  <2>8. io' = [io EXCEPT ![g][e] = x] /\ UNCHANGED <<plan, opened, ch, net, disc>>
    BY <1>3 DEF Does
  <2>. QED BY <1>1, <2>1, <2>2, <2>4, <2>7, <2>8, DoesKeeps DEF s, z
<1>4. "client" \in Ends /\ "server" \in Ends
  BY DEF Ends
<1>5. ASSUME NEW e \in Ends, Writes(e, g) PROVE CInv'
  <2>. DEFINE x == [io[g][e] EXCEPT !.made = @ + 1, !.pend = @ + 1]
  <2>1. Does(e, g, x) /\ ~io[g][e].shut
    BY <1>5 DEF Writes
  <2>2. ASSUME NEW z \in Sides, NEW d, NEW s, NEW a, NEW b, Mid(z, d, s, a, b), s.io = io[g][e]
        PROVE  Mid(z, d, [s EXCEPT !.io = x], a, b)
    <3>1. x = [s.io EXCEPT !.made = @ + 1, !.pend = @ + 1]
      BY <2>2
    <3>. HIDE DEF x
    <3>. QED BY <2>1, <2>2, <3>1, ProgramWrites
  <2>. HIDE DEF x
  <2>. QED BY <1>3, <2>1, <2>2
<1>6. ASSUME NEW e \in Ends, EndsOutput(e, g) PROVE CInv'
  <2>. DEFINE x == [io[g][e] EXCEPT !.shut = TRUE]
  <2>1. Does(e, g, x)
    BY <1>6 DEF EndsOutput
  <2>2. ASSUME NEW z \in Sides, NEW d, NEW s, NEW a, NEW b, Mid(z, d, s, a, b), s.io = io[g][e]
        PROVE  Mid(z, d, [s EXCEPT !.io = x], a, b)
    <3>1. x = [s.io EXCEPT !.shut = TRUE]
      BY <2>2
    <3>. HIDE DEF x
    <3>. QED BY <2>2, <3>1, ProgramEnds
  <2>. HIDE DEF x
  <2>. QED BY <1>3, <2>1, <2>2
<1>7. ASSUME NEW e \in Ends, Leaves(e, g) PROVE CInv'
  <2>. DEFINE q == ~(e = "server" /\ Kind(g) = "exec")
              x == [io[g][e] EXCEPT !.gone = TRUE, !.shut = @ \/ q]
  <2>1. Does(e, g, x)
    BY <1>7 DEF Leaves
  <2>2. ASSUME NEW z \in Sides, NEW d, NEW s, NEW a, NEW b, Mid(z, d, s, a, b), s.io = io[g][e]
        PROVE  Mid(z, d, [s EXCEPT !.io = x], a, b)
    <3>1. x = [s.io EXCEPT !.gone = TRUE, !.shut = @ \/ q] /\ q \in BOOLEAN
      BY <2>2
    <3>. HIDE DEF x, q
    <3>. QED BY <2>2, <3>1, ProgramLeaves
  <2>. HIDE DEF x
  <2>. QED BY <1>3, <2>1, <2>2
<1>8. CASE WritesErr(g)
  <2>. DEFINE x == [io[g]["server"] EXCEPT !.emade = @ + 1, !.epend = @ + 1]
  <2>1. Does("server", g, x) /\ ~io[g]["server"].eshut /\ Kind(g) = "exec"
    BY <1>8 DEF WritesErr
  <2>2. ASSUME NEW z \in Sides, NEW d, NEW s, NEW a, NEW b, Mid(z, d, s, a, b),
               s.io = io[g]["server"], z.end = "server", z.kind = Kind(g)
        PROVE  Mid(z, d, [s EXCEPT !.io = x], a, b)
    <3>1. x = [s.io EXCEPT !.emade = @ + 1, !.epend = @ + 1] /\ ExecServer(z)
      BY <2>1, <2>2 DEF ExecServer
    <3>. HIDE DEF x
    <3>. QED BY <2>1, <2>2, <3>1, ProgramWritesErr
  <2>. HIDE DEF x
  <2>. QED BY <1>3, <1>4, <2>1, <2>2
<1>9. CASE EndsErr(g)
  <2>. DEFINE x == [io[g]["server"] EXCEPT !.eshut = TRUE]
  <2>1. Does("server", g, x)
    BY <1>9 DEF EndsErr
  <2>2. ASSUME NEW z \in Sides, NEW d, NEW s, NEW a, NEW b, Mid(z, d, s, a, b),
               s.io = io[g]["server"]
        PROVE  Mid(z, d, [s EXCEPT !.io = x], a, b)
    <3>1. x = [s.io EXCEPT !.eshut = TRUE]
      BY <2>2
    <3>. HIDE DEF x
    <3>. QED BY <2>2, <3>1, ProgramEndsErr
  <2>. HIDE DEF x
  <2>. QED BY <1>3, <1>4, <2>1, <2>2
<1>10. CASE ErrLeaves(g)
  <2>. DEFINE x == [io[g]["client"] EXCEPT !.egone = TRUE]
  <2>1. Does("client", g, x)
    BY <1>10 DEF ErrLeaves
  <2>2. ASSUME NEW z \in Sides, NEW d, NEW s, NEW a, NEW b, Mid(z, d, s, a, b),
               s.io = io[g]["client"]
        PROVE  Mid(z, d, [s EXCEPT !.io = x], a, b)
    <3>1. x = [s.io EXCEPT !.egone = TRUE]
      BY <2>2
    <3>. HIDE DEF x
    <3>. QED BY <2>2, <3>1, ErrIsGone
  <2>. HIDE DEF x
  <2>. QED BY <1>3, <1>4, <2>1, <2>2
<1>11. CASE ChildExits(g)
  <2>0. PICK k \in BOOLEAN :
          /\ io[g]["server"].child = "running"
          /\ Does("server", g, [io[g]["server"] EXCEPT !.child = "exited", !.sig = k,
                !.last = io[g]["server"].made, !.elast = io[g]["server"].emade])
    BY <1>11 DEF ChildExits
  <2>. DEFINE x == [io[g]["server"] EXCEPT !.child = "exited", !.sig = k,
                      !.last = io[g]["server"].made, !.elast = io[g]["server"].emade]
  <2>1. Does("server", g, x) /\ io[g]["server"].child = "running"
    BY <2>0
  <2>2. ASSUME NEW z \in Sides, NEW d, NEW s, NEW a, NEW b, Mid(z, d, s, a, b),
               s.io = io[g]["server"]
        PROVE  Mid(z, d, [s EXCEPT !.io = x], a, b)
    <3>1. x = [s.io EXCEPT !.child = "exited", !.sig = k, !.last = s.io.made, !.elast = s.io.emade]
      BY SMTT(60), <2>2
    <3>. HIDE DEF x
    <3>. QED BY <2>1, <2>2, <3>1, ChildIsGone
  <2>. HIDE DEF x
  <2>. QED BY <1>3, <1>4, <2>1, <2>2
<1>. QED BY <1>2, <1>5, <1>6, <1>7, <1>8, <1>9, <1>10, <1>11

\* The packet an end takes next, and what it leaves.
LEMMA TakesHead ==
  ASSUME NEW v \in Maps, Inv(v), NEW e \in Ends, net[e] # <<>>, NEW m, m = Head(net[e]), NEW g, g = m.g
  PROVE  /\ m \in Msgs /\ g \in Gens /\ Tail(net[e]) \in Seq(Msgs)
         /\ m.op = "OPEN" => m.from = v[Peer(e)][g].at /\ m.n = Window
         /\ m.op # "OPEN" => m.to = v[e][g].at
         /\ m.op = "CONFIRM" => m.from = v[Peer(e)][g].at /\ m.n = Granted(e, g)
         /\ \A k \in 1 .. Len(Tail(net[e])) : \E j \in 1 .. Len(net[e]) : Tail(net[e])[k] = net[e][j]
         /\ \A h \in Gens : h # g =>
              Path(Asks(Peer(e), h), Shells(Peer(e), h), h, Tail(net[e]), v[e][h].in, v[Peer(e)][h].out)
         /\ Allowed(Asks(Peer(e), g), Shells(Peer(e), g), v[e][g].in, m.op)
         /\ Path(Asks(Peer(e), g), Shells(Peer(e), g), g, Tail(net[e]),
                 After(v[e][g].in, m.op, m.n), v[Peer(e)][g].out)
<1>. DEFINE w == net[e]
<1>1. w \in Seq(Msgs) /\ w # <<>> /\ m = w[1] /\ 1 \in 1 .. Len(w)
  BY DEF Inv, Shapes
<1>2. m \in Msgs /\ Tail(w) \in Seq(Msgs)
  BY <1>1
<1>3. /\ g \in Gens
      /\ m.op = "OPEN" => m.from = v[Peer(e)][g].at /\ m.n = Window
      /\ m.op # "OPEN" => m.to = v[e][g].at
      /\ m.op = "CONFIRM" => m.from = v[Peer(e)][g].at /\ m.n = Granted(e, g)
  BY <1>1 DEF Inv, Mail
<1>4. \A k \in 1 .. Len(Tail(w)) : \E j \in 1 .. Len(w) : Tail(w)[k] = w[j]
  <2>1. TAKE k \in 1 .. Len(Tail(w))
  <2>2. k + 1 \in 1 .. Len(w) /\ Tail(w)[k] = w[k + 1]
    BY <1>1
  <2>. QED BY <2>2
<1>5. \A h \in Gens : Path(Asks(Peer(e), h), Shells(Peer(e), h), h, w, v[e][h].in, v[Peer(e)][h].out)
  BY DEF Inv, Ways
<1>. HIDE DEF w
<1>6. \A h \in Gens : h # g =>
        Path(Asks(Peer(e), h), Shells(Peer(e), h), h, Tail(w), v[e][h].in, v[Peer(e)][h].out)
  <2>1. TAKE h \in Gens
  <2>2. HAVE h # g
  <2>3. Path(Asks(Peer(e), h), Shells(Peer(e), h), h, w, v[e][h].in, v[Peer(e)][h].out)
    BY <1>5
  <2>4. Head(w).g # h
    BY SMTT(60), <2>2 DEF w
  <2>. QED BY <1>1, <2>3, <2>4, PathHead
<1>7. /\ Allowed(Asks(Peer(e), g), Shells(Peer(e), g), v[e][g].in, m.op)
      /\ Path(Asks(Peer(e), g), Shells(Peer(e), g), g, Tail(w),
              After(v[e][g].in, m.op, m.n), v[Peer(e)][g].out)
  <2>1. Path(Asks(Peer(e), g), Shells(Peer(e), g), g, w, v[e][g].in, v[Peer(e)][g].out)
    BY <1>3, <1>5
  <2>2. Head(w) = m /\ Head(w).g = g
    BY DEF w
  <2>. QED BY <1>1, <2>1, <2>2, PathHead
<1>. QED BY ZenonT(90), <1>2, <1>3, <1>4, <1>6, <1>7 DEF w

\* What the other end may say, as this one sees it.
LEMMA HearsPeer ==
  ASSUME Shapes, NEW v \in Maps, NEW e \in Ends, NEW g \in Gens, NEW a, NEW op
  PROVE  Hears(SideOf(v, e, g), a, op) <=> Allowed(Asks(Peer(e), g), Shells(Peer(e), g), a, op)
<1>. DEFINE z == SideOf(v, e, g)
<1>1. z.end = e /\ z.kind = Kind(g) /\ z.by = plan[g].by
  BY SideFields
<1>2. plan[g].by \in Ends /\ \A f \in Ends : f = e \/ f = Peer(e)
  BY PlanTypes, PeerOf DEF Shapes
<1>3. Peer(e) # e /\ Peer(e) \in Ends
  BY PeerOf
<1>4. ~Opener(z) <=> Asks(Peer(e), g)
  BY <1>1, <1>2, <1>3 DEF Opener, Asks
<1>5. SesServer(z) <=> Shells(Peer(e), g)
  BY <1>1, <1>3 DEF SesServer, Shells, Ends, Peer
<1>. HIDE DEF z
<1>. QED BY <1>4, <1>5 DEF Hears, Allowed, z

\* The window a CONFIRM grants is the one the other side begins with.
LEMMA GrantedIsPeers ==
  ASSUME Shapes, NEW v \in Maps, NEW e \in Ends, NEW g \in Gens
  PROVE  Granted(e, g) = PeerW0(SideOf(v, e, g))
  BY SideFields DEF Granted, PeerW0, SesClient

\* A packet for a channel is handled.
LEMMA ReceiveKeeps ==
  ASSUME NEW v \in Maps, Inv(v), NEW e \in Ends, Receive(e), Head(net[e]).op # "OPEN"
  PROVE  CInv'
<1>. DEFINE m == Head(net[e])
            g == m.g
            i == m.to
            p == Peer(e)
            z == SideOf(v, e, g)
            y == SideOf(v, p, g)
            a == v[e][g].in
            b == v[e][g].out
            s == State(e, i)
            t == Handle(s, m)
            a2 == After(a, m.op, m.n)
<1>1. net[e] # <<>> /\ m.op # "OPEN"
  BY ZenonT(90) DEF Receive
<1>2. /\ m \in Msgs /\ g \in Gens /\ Tail(net[e]) \in Seq(Msgs)
      /\ i = v[e][g].at
      /\ m.op = "CONFIRM" => m.from = v[p][g].at /\ m.n = Granted(e, g)
      /\ \A k \in 1 .. Len(Tail(net[e])) : \E j \in 1 .. Len(net[e]) : Tail(net[e])[k] = net[e][j]
      /\ \A h \in Gens : h # g =>
           Path(Asks(p, h), Shells(p, h), h, Tail(net[e]), v[e][h].in, v[p][h].out)
      /\ Allowed(Asks(p, g), Shells(p, g), a, m.op)
      /\ Path(Asks(p, g), Shells(p, g), g, Tail(net[e]), a2, v[p][g].out)
  BY <1>1, TakesHead
<1>3. p \in Ends /\ p # e /\ Peer(p) = e /\ Shapes
  BY SMTT(60), PeerOf DEF Inv
<1>4. /\ z \in Sides /\ y \in Sides /\ Mates(z, y)
      /\ z.peer = io[g][p].saw /\ z.to = v[p][g].at /\ v[e][g] \in Views /\ v[p][g] \in Views
  BY SMTT(60), <1>2, <1>3, SideFields, SidesMate
<1>5. /\ Own(z, v[e][g].c, io[g][e], a, b)
      /\ Own(y, v[p][g].c, io[g][p], v[p][g].in, v[p][g].out)
  BY ZenonT(90), <1>2, <1>3 DEF Inv, Owns
<1>6. Hears(z, a, m.op)
  BY SMTT(60), <1>2, <1>3, HearsPeer
<1>7. Before(a2, v[p][g].out)
  BY <1>2, PathBefore
<1>8. Before(v[p][g].in, b)
  <2>1. Path(Asks(e, g), Shells(e, g), g, net[p], v[p][g].in, b)
    BY <1>2, <1>3 DEF Inv, Ways
  <2>2. net[p] \in Seq(Msgs)
    BY SMTT(60), <1>3 DEF Shapes
  <2>. QED BY <2>1, <2>2, PathBefore
<1>9. m.op \in Ops \ {"OPEN"} /\ m.n \in Nat
  BY <1>1, <1>2, MsgFields
<1>10. /\ v[e][g].c = NotYet \/ v[e][g].c = Free \/ v[e][g].c \in Chans
       /\ v[p][g].c = NotYet \/ v[p][g].c = Free \/ v[p][g].c \in Chans
  BY <1>4 DEF Views
<1>11. /\ m.op # "EXTENDED" \/ m.n > 0 => Due(z, a, b, m.op, m.n)
       /\ v[e][g].c.type \in {"opening", "larval", "open"}
       /\ v[e][g].c.type = "opening" <=> m.op \in {"CONFIRM", "FAILURE"}
       /\ v[e][g].c.type = "larval" <=> m.op = "shell"
  <2>. HIDE DEF m, g, z, y, a, b, a2, p
  <2>. QED BY SMTT(60), <1>4, <1>5, <1>6, <1>7, <1>8, <1>9, <1>10, Arrives DEF a2
<1>12. v[e][g].c \in Chans
  BY SMTT(60), <1>10, <1>11 DEF NotYet, Free
<1>13. ch[e][i] = v[e][g].c /\ ch[e][i] # Free /\ i \in Slots /\ ch[e][i].g = g
  <2>5. z.g = g
    BY <1>2, <1>3, SideFields
  <2>. HIDE DEF m, g, i, z, a, b
  <2>1. ch[e][i] = v[e][g].c
    BY <1>2, <1>12 DEF Inv, Reps
  <2>2. ch[e][i] # Free
    BY <2>1, <1>11 DEF Free
  <2>3. i \in Slots
    BY <1>2, <1>4 DEF Views
  <2>4. ch[e][i].g = z.g
    <3>1. Belongs(z, v[e][g].c)
      BY SMTT(60), <1>5, <1>12, FreeIsNoChan DEF Own
    <3>. QED BY <2>1, <3>1 DEF Belongs
  <2>. QED BY <2>1, <2>2, <2>3, <2>4, <2>5
<1>14. io[g][e] \in Ios
  BY ZenonT(90), <1>5 DEF Own
<1>15. s \in States /\ s.c = v[e][g].c /\ s.io = io[g][e] /\ s.out = <<>>
  BY SMTT(60), <1>12, <1>13, <1>14, StateFields
<1>16. m.op = "CONFIRM" => m.from = z.to /\ m.n = PeerW0(z)
  BY ZenonT(90), <1>2, <1>3, <1>4, GrantedIsPeers
<1>17. /\ ~Refused(s.c, m.op)
       /\ \E b2 \in Places : Result(z, i, [out |-> b, saw |-> s.io.saw], t, a2, b2)
  <2>. HIDE DEF m, g, z, y, a, b, p, s, i
  <2>. QED BY ZenonT(90), <1>2, <1>4, <1>5, <1>6, <1>9, <1>11, <1>15, <1>16, ReceiveResult
<1>18. PICK b2 \in Places : Result(z, i, [out |-> b, saw |-> io[g][e].saw], t, a2, b2)
  BY <1>15, <1>17
<1>19. ch[e][i].type \notin {"free", "zombie"} /\ ~Refused(ch[e][i], m.op)
  BY ZenonT(90), <1>11, <1>13, <1>15, <1>17
<1>20. /\ ch' = [ch EXCEPT ![e][i] = t.c]
       /\ io' = [io EXCEPT ![ch[e][i].g][e] = t.io]
       /\ net' = [net EXCEPT ![e] = Tail(@), ![p] = @ \o t.out]
       /\ UNCHANGED <<plan, opened, disc>>
  BY ZenonT(90), <1>1, <1>19 DEF Receive
<1>. HIDE DEF m, g, i, z, y, a, b, s, t, a2
<1>21. /\ ch \in [Ends -> [Slots -> Chans \cup {Free}]] /\ io \in [Gens -> [Ends -> Ios]]
       /\ net \in [Ends -> Seq(Msgs)]
  BY <1>3 DEF Shapes
<1>22. ch' = [ch EXCEPT ![e] = [ch[e] EXCEPT ![i] = t.c]]
  BY <1>20, <1>21
<1>23. io' = [io EXCEPT ![g] = [io[g] EXCEPT ![e] = t.io]]
  BY <1>2, <1>13, <1>20, <1>21
<1>24. net' = [net EXCEPT ![e] = Tail(net[e]), ![Peer(e)] = net[Peer(e)] \o t.out]
  BY <1>3, <1>20, <1>21
<1>25. UNCHANGED <<plan, opened, disc>>
  BY <1>20
<1>26. g = ch[e][i].g
  BY <1>13
<1>27. Result(SideOf(v, e, g), i, [out |-> v[e][g].out, saw |-> io[g][e].saw], t, a2, b2)
  BY <1>18 DEF z, b
<1>28. /\ \A h \in Gens : h # g =>
            Path(Asks(Peer(e), h), Shells(Peer(e), h), h, Tail(net[e]), v[e][h].in, v[Peer(e)][h].out)
       /\ Path(Asks(Peer(e), g), Shells(Peer(e), g), g, Tail(net[e]), a2, v[Peer(e)][g].out)
  BY <1>2
<1>. QED BY ZenonT(90), <1>2, <1>13, <1>22, <1>23, <1>24, <1>25, <1>26, <1>27, <1>28, ActsMove

-----------------------------------------------------------------------------
(* Channels are opened *)

\* No packet of the channel between two equal places.
LEMMA NoneBetween ==
  ASSUME NEW o, NEW u, NEW g, NEW w \in Seq(Msgs), NEW a, NEW b, Path(o, u, g, w, a, b), a.k = b.k
  PROVE  \A k \in 1 .. Len(w) : w[k].g # g
<1>1. SUFFICES ASSUME NEW k \in 1 .. Len(w), w[k].g = g PROVE FALSE
  OBVIOUS
<1>2. PICK c \in Places : /\ Before(a, c) /\ Allowed(o, u, c, w[k].op)
                          /\ After(c, w[k].op, w[k].n) \in Places
                          /\ Before(After(c, w[k].op, w[k].n), b)
  BY <1>1, PathFinds
<1>3. a \in Places /\ b \in Places
  BY PathBefore
<1>4. After(c, w[k].op, w[k].n).k = c.k + 1
  BY DEF After
<1>5. a.k <= c.k /\ c.k + 1 <= b.k
  BY <1>2, <1>4 DEF Before
<1>6. a.k \in Nat /\ c.k \in Nat /\ b.k \in Nat
  BY <1>2, <1>3 DEF Places
<1>. QED BY <1>5, <1>6

\* Nothing comes before the start.
LEMMA BeforeStart ==
  ASSUME NEW a \in Places, Before(a, Start)
  PROVE  a = Start
<1>1. a.k \in Nat /\ a.k <= 0
  BY DEF Places, Before, Start
<1>2. Start.k = 0
  BY DEF Start
<1>3. a.k = Start.k
  BY <1>1, <1>2
<1>. QED BY <1>3 DEF Before

\* A side that has heard nothing has not begun, or has asked and waits.
LEMMA HeardNothing ==
  ASSUME NEW z, NEW c, NEW x, NEW a, NEW b, Own(z, c, x, a, b), a.st = "new"
  PROVE  \/ c = NotYet /\ x = NoIo /\ a = Start /\ b = Start
         \/ c.type = "opening" /\ Opener(z) /\ a = Start /\ b = Begun
<1>1. CASE c = NotYet
  <2>1. c.type = "none"
    BY <1>1 DEF NotYet
  <2>. QED BY <1>1, <2>1 DEF Own, Stage
<1>2. CASE c = Free
  <2>1. c.type = "free" /\ Begun.st = "up"
    BY <1>2 DEF Free, Begun
  <2>. QED BY <2>1 DEF Own, Stage
<1>3. CASE Belongs(z, c)
  <2>1. c.type \in Types /\ Begun.st = "up"
    BY <1>3 DEF Belongs, Chans, Begun
  <2>2. c.type = "open" => a.st # "new"
    BY DEF Own, Stage, OpenOK, FlagsOK
  <2>. QED BY <2>1, <2>2 DEF Own, Stage, Types
<1>. QED BY <1>1, <1>2, <1>3 DEF Own

\* A channel as channel_new makes it.
LEMMA NewOwn ==
  ASSUME Shapes, NEW v \in Maps, NEW e \in Ends, NEW g \in Gens, NEW z, z = SideOf(v, e, g),
         NEW type, NEW w, NEW r \in Slots, NEW n \in Nat, NEW c, NEW a \in Places, NEW b \in Places,
         c = [NewChannel(e, g, type, w) EXCEPT !.rid = r, !.rwin = n], w = W0(z),
         \/ type = "opening" /\ Opener(z) /\ n = 0 /\ a = Start /\ b = Begun
         \/ /\ type = "connecting" /\ ~Opener(z) /\ z.kind = "tcp" /\ n = Window /\ r = z.to
            /\ a = Begun /\ b = Start
         \/ /\ type = "larval" /\ ~Opener(z) /\ SesServer(z) /\ n = Window /\ r = z.to
            /\ a = Begun /\ b = Begun
  PROVE  c \in Chans /\ Own(z, c, NoIo, a, b)
<1>1. z \in Sides /\ z.end = e /\ z.kind = Kind(g) /\ z.g = g
  BY SideFields
<1>2. w \in Nat /\ 0 \in Nat
  BY <1>1, WindowIsNat
<1>3. /\ c.type = type /\ c.g = g /\ c.kind = Kind(g) /\ c.end = e /\ c.rid = r
      /\ c.istate = "open" /\ c.ostate = "open" /\ c.flags = {}
      /\ c.input = 0 /\ c.output = 0 /\ c.extended = 0 /\ c.consumed = 0
      /\ c.rwin = n /\ c.lwin = w
      /\ c.efd = (Kind(g) = "exec" \/ (Kind(g) = "tty" /\ e = "client"))
      /\ c.detach = IF Kind(g) = "tcp" THEN "none" ELSE "keep"
  BY DEF NewChannel
<1>4. c \in Chans
  <2>1. Kind(g) \in Kinds /\ g \in Nat
    BY PlanTypes DEF Shapes, Kind
  <2>. DEFINE f == Kind(g) = "exec" \/ (Kind(g) = "tty" /\ e = "client")
              d == IF Kind(g) = "tcp" THEN "none" ELSE "keep"
  <2>2. {} \in SUBSET Flags /\ type \in Types /\ f \in BOOLEAN /\ d \in {"none", "keep", "close"}
    BY DEF Types
  <2>3. c = [type |-> type, g |-> g, kind |-> Kind(g), end |-> e, rid |-> r,
             istate |-> "open", ostate |-> "open", flags |-> {},
             input |-> 0, output |-> 0, extended |-> 0, rwin |-> n, lwin |-> w, consumed |-> 0,
             efd |-> f, detach |-> d]
    BY DEF NewChannel
  <2>. HIDE DEF f, d
  <2>. QED BY <1>2, <2>1, <2>2, <2>3 DEF Chans
<1>5. Fresh(z, c, n)
  BY <1>1, <1>3 DEF Fresh
<1>6. Belongs(z, c)
  BY <1>1, <1>3, <1>4 DEF Belongs
<1>7. Stage(z, c, NoIo, a, b)
  BY <1>3, <1>5 DEF Stage
<1>8. /\ a.data = 0 /\ a.ext = 0 /\ a.adj = 0 /\ a.said = {} /\ a.st # "closed"
      /\ b.data = 0 /\ b.ext = 0 /\ b.adj = 0 /\ b.said = {} /\ b.st # "closed"
  BY DEF Start, Begun
<1>9. Facts(z, NoIo, a, b) /\ Honest(z, c, NoIo, b)
  BY <1>1, <1>3, <1>8, FirstFacts
<1>. QED BY <1>4, <1>6, <1>7, <1>9, StartTypes DEF Own

\* What is known of a channel between its two ends.
LEMMA BothEnds ==
  ASSUME NEW v \in Maps, Inv(v), NEW e \in Ends, NEW g \in Gens, NEW p, p = Peer(e)
  PROVE  /\ p \in Ends /\ Shapes /\ net[e] \in Seq(Msgs) /\ net[p] \in Seq(Msgs)
         /\ SideOf(v, e, g) \in Sides /\ SideOf(v, p, g) \in Sides
         /\ Mates(SideOf(v, e, g), SideOf(v, p, g))
         /\ SideOf(v, e, g).peer = io[g][p].saw /\ SideOf(v, e, g).to = v[p][g].at
         /\ v[e][g] \in Views /\ v[p][g] \in Views
         /\ Own(SideOf(v, e, g), v[e][g].c, io[g][e], v[e][g].in, v[e][g].out)
         /\ Own(SideOf(v, p, g), v[p][g].c, io[g][p], v[p][g].in, v[p][g].out)
         /\ Path(Asks(p, g), Shells(p, g), g, net[e], v[e][g].in, v[p][g].out)
         /\ Path(Asks(e, g), Shells(e, g), g, net[p], v[p][g].in, v[e][g].out)
         /\ Before(v[e][g].in, v[p][g].out) /\ Before(v[p][g].in, v[e][g].out)
         /\ v[e][g].in \in Places /\ v[e][g].out \in Places
         /\ v[p][g].in \in Places /\ v[p][g].out \in Places
<1>1. p \in Ends /\ p # e /\ Peer(p) = e /\ Shapes
  BY PeerOf DEF Inv
<1>2. /\ SideOf(v, e, g) \in Sides /\ SideOf(v, p, g) \in Sides
      /\ Mates(SideOf(v, e, g), SideOf(v, p, g))
      /\ SideOf(v, e, g).peer = io[g][p].saw /\ SideOf(v, e, g).to = v[p][g].at
      /\ v[e][g] \in Views /\ v[p][g] \in Views
  BY <1>1, SideFields, SidesMate
<1>3. /\ Own(SideOf(v, e, g), v[e][g].c, io[g][e], v[e][g].in, v[e][g].out)
      /\ Own(SideOf(v, p, g), v[p][g].c, io[g][p], v[p][g].in, v[p][g].out)
  BY <1>1 DEF Inv, Owns
<1>4. /\ Path(Asks(p, g), Shells(p, g), g, net[e], v[e][g].in, v[p][g].out)
      /\ Path(Asks(e, g), Shells(e, g), g, net[p], v[p][g].in, v[e][g].out)
  BY <1>1 DEF Inv, Ways
<1>5. net[e] \in Seq(Msgs) /\ net[p] \in Seq(Msgs)
  BY <1>1 DEF Shapes
<1>6. /\ Before(v[e][g].in, v[p][g].out) /\ v[e][g].in \in Places /\ v[p][g].out \in Places
  BY <1>4, <1>5, PathBefore
<1>7. /\ Before(v[p][g].in, v[e][g].out) /\ v[p][g].in \in Places /\ v[e][g].out \in Places
  BY <1>4, <1>5, PathBefore
<1>. QED BY <1>1, <1>2, <1>3, <1>4, <1>5, <1>6, <1>7

\* OPEN and CONFIRM lead to the first place of an open channel.
LEMMA FirstWords ==
  ASSUME NEW n
  PROVE  After(Start, "OPEN", n) = Begun /\ After(Start, "CONFIRM", n) = Begun
<1>1. \A op \in {"OPEN", "CONFIRM"} : /\ Adds(op, n, "DATA") = 0 /\ Adds(op, n, "EXTENDED") = 0
                                      /\ Adds(op, n, "ADJUST") = 0 /\ {op} \cap Words = {}
  BY DEF Adds, Words
<1>. QED BY <1>1 DEF After, Start, Begun

\* A packet by itself.
LEMMA OnePacket ==
  ASSUME Shapes, NEW v \in Maps, NEW e \in Ends, NEW g \in Gens, NEW m \in Msgs, m.g = g,
         NEW a \in Places, NEW i,
         Allowed(Asks(e, g), Shells(e, g), a, m.op),
         m.op # "OPEN" => m.to = SideOf(v, e, g).to,
         m.op = "OPEN" => m.from = i /\ m.n = Window,
         m.op = "CONFIRM" => m.from = i /\ m.n = W0(SideOf(v, e, g))
  PROVE  /\ <<m>> \in Seq(Msgs) /\ Carries(SideOf(v, e, g), i, <<m>>)
         /\ Path(Asks(e, g), Shells(e, g), g, <<m>>, a, After(a, m.op, m.n))
<1>1. SideOf(v, e, g).g = g
  BY SideFields
<1>2. <<m>> \in Seq(Msgs) /\ Len(<<m>>) = 1 /\ <<m>>[1] = m
  OBVIOUS
<1>3. \A k \in 1 .. Len(<<m>>) : <<m>>[k] = m
  BY <1>2
<1>4. Carries(SideOf(v, e, g), i, <<m>>)
  BY <1>1, <1>3 DEF Carries
<1>5. Path(Asks(e, g), Shells(e, g), m.g, <<m>>, a, After(a, m.op, m.n))
  BY PathOne
<1>. QED BY <1>2, <1>4, <1>5

\* Appending joins a sequence of one.
LEMMA AppendJoins ==
  ASSUME NEW w \in Seq(Msgs), NEW m \in Msgs
  PROVE  Append(w, m) = w \o <<m>>
  OBVIOUS

\* Fields set to what they are.
LEMMA SameChannel ==
  ASSUME NEW c \in Chans
  PROVE  [c EXCEPT !.rid = c.rid, !.rwin = c.rwin] = c
  BY DEF Chans

\* A channel is asked for.
LEMMA OpenKeeps ==
  ASSUME NEW v \in Maps, Inv(v), NEW e \in Ends, Open(e)
  PROVE  CInv'
<1>. DEFINE g == opened + 1
            p == Peer(e)
            z == SideOf(v, e, g)
<1>1. PICK i \in Slots :
        /\ FreeSlot(e, i)
        /\ ch' = [ch EXCEPT ![e][i] = NewChannel(e, opened + 1, "opening", Window)]
        /\ net' = [net EXCEPT ![Peer(e)] = Append(@,
             [op |-> "OPEN", to |-> 0, from |-> i, n |-> Window, g |-> opened + 1])]
  BY DEF Open
<1>2. /\ opened < Len(plan) /\ plan[g].by = e /\ opened' = g /\ UNCHANGED <<plan, io, disc>>
  BY DEF Open
<1>3. g \in Gens /\ g \in 0 .. Len(plan) /\ g > opened /\ opened \in Nat /\ g \in Nat
  <2>1. opened \in 0 .. Len(plan) /\ Len(plan) \in Nat
    <3>1. opened \in 0 .. Len(plan)
      BY DEF Inv, Shapes
    <3>2. \E R : plan \in Seq(R)
      BY ChannelAssumption DEF Inv, Shapes
    <3>. QED BY <3>1, <3>2
  <2>. QED BY <1>2, <2>1 DEF Gens
<1>. DEFINE m == [op |-> "OPEN", to |-> 0, from |-> i, n |-> Window, g |-> g]
            c == NewChannel(e, g, "opening", Window)
<1>4. /\ ch' = [ch EXCEPT ![e][i] = c] /\ net' = [net EXCEPT ![p] = Append(@, m)]
      /\ ch[e][i] = Free
  BY <1>1 DEF FreeSlot
<1>5. m \in Msgs /\ m.op = "OPEN" /\ m.g = g /\ m.from = i /\ m.n = Window
  BY <1>3, WindowIsNat, ChannelAssumption DEF Msgs, Ops
<1>6. c = [NewChannel(e, g, "opening", Window) EXCEPT !.rid = 0, !.rwin = 0]
  <2>. DEFINE f == Kind(g) = "exec" \/ (Kind(g) = "tty" /\ e = "client")
              d == IF Kind(g) = "tcp" THEN "none" ELSE "keep"
  <2>1. c = [type |-> "opening", g |-> g, kind |-> Kind(g), end |-> e, rid |-> 0,
             istate |-> "open", ostate |-> "open", flags |-> {},
             input |-> 0, output |-> 0, extended |-> 0, rwin |-> 0, lwin |-> Window, consumed |-> 0,
             efd |-> f, detach |-> d]
    BY DEF NewChannel
  <2>2. c = NewChannel(e, g, "opening", Window)
    OBVIOUS
  <2>3. /\ {} \in SUBSET Flags /\ f \in BOOLEAN /\ d \in {"none", "keep", "close"}
        /\ "opening" \in Types /\ 0 \in Nat /\ 0 \in Slots /\ Window \in Nat
    BY WindowIsNat, ChannelAssumption DEF Types
  <2>4. Kind(g) \in Kinds /\ g \in Nat
    BY <1>3, PlanTypes DEF Inv, Shapes, Kind
  <2>. HIDE DEF f, d, c, g
  <2>5. c \in Chans
    BY <2>1, <2>3, <2>4 DEF Chans
  <2>6. c.rid = 0 /\ c.rwin = 0
    BY <2>1
  <2>. QED BY <2>2, <2>5, <2>6, SameChannel
<1>. HIDE DEF g, m, c
<1>7. /\ p \in Ends /\ Shapes /\ net[e] \in Seq(Msgs) /\ net[p] \in Seq(Msgs)
      /\ z \in Sides /\ SideOf(v, p, g) \in Sides /\ Mates(z, SideOf(v, p, g))
      /\ Own(z, v[e][g].c, io[g][e], v[e][g].in, v[e][g].out)
      /\ Own(SideOf(v, p, g), v[p][g].c, io[g][p], v[p][g].in, v[p][g].out)
      /\ Path(Asks(p, g), Shells(p, g), g, net[e], v[e][g].in, v[p][g].out)
      /\ Path(Asks(e, g), Shells(e, g), g, net[p], v[p][g].in, v[e][g].out)
      /\ Before(v[p][g].in, v[e][g].out)
      /\ v[p][g].in \in Places /\ v[p][g].out \in Places
  BY <1>3, BothEnds
<1>8. v[e][g].c = NotYet
  BY SMTT(60), <1>2, <1>3 DEF Inv, Reps
<1>9. v[e][g].in = Start /\ v[e][g].out = Start /\ io[g][e] = NoIo
  <2>1. v[e][g].c.type = "none"
    BY <1>8 DEF NotYet
  <2>. QED BY <1>7, <2>1 DEF Own, Stage
<1>10. Opener(z) /\ ~Opener(SideOf(v, p, g)) /\ ~SesServer(z)
  <2>1. Opener(z)
    BY <1>2, <1>3, <1>7, SideFields DEF Opener
  <2>. QED BY <1>7, <2>1, MatesRoles
<1>11. v[p][g].in = Start
  BY <1>7, <1>9, BeforeStart
<1>12. v[p][g].c = NotYet /\ v[p][g].out = Start
  <2>1. v[p][g].in.st = "new"
    BY <1>11 DEF Start
  <2>. QED BY <1>7, <1>10, <2>1, HeardNothing
<1>13. /\ \A k \in 1 .. Len(net[e]) : net[e][k].g # g
       /\ \A k \in 1 .. Len(net[p]) : net[p][k].g # g
  <2>1. \A k \in 1 .. Len(net[e]) : net[e][k].g # g
    BY <1>7, <1>9, <1>12, NoneBetween
  <2>2. \A k \in 1 .. Len(net[p]) : net[p][k].g # g
    BY <1>7, <1>9, <1>11, NoneBetween
  <2>. QED BY <2>1, <2>2
<1>14. c \in Chans /\ Own(z, c, NoIo, Start, Begun)
  <2>1. Window = W0(z) /\ 0 \in Nat /\ 0 \in Slots
    BY <1>10, ChannelAssumption DEF W0
  <2>2. z = SideOf(v, e, g) /\ Start \in Places /\ Begun \in Places
    BY StartTypes
  <2>. HIDE DEF z
  <2>. QED BY <1>3, <1>6, <1>7, <1>10, <2>1, <2>2, NewOwn
<1>15. /\ <<m>> \in Seq(Msgs) /\ Carries(z, i, <<m>>)
       /\ Path(Asks(e, g), Shells(e, g), g, <<m>>, Start, Begun)
  <2>1. Allowed(Asks(e, g), Shells(e, g), Start, "OPEN")
    BY <1>2 DEF Allowed, Start, Asks
  <2>2. After(Start, m.op, m.n) = Begun
    BY <1>5, FirstWords
  <2>. QED BY <1>3, <1>5, <1>7, <2>1, <2>2, OnePacket, StartTypes
<1>16. ch' = [ch EXCEPT ![e] = [ch[e] EXCEPT ![i] = c]]
  BY <1>4, <1>7 DEF Shapes
<1>17. io' = [io EXCEPT ![g] = [io[g] EXCEPT ![e] = NoIo]]
  BY <1>2, <1>3, <1>7, <1>9 DEF Shapes
<1>18. net' = [net EXCEPT ![e] = net[e], ![Peer(e)] = net[Peer(e)] \o <<m>>]
  <2>1. Append(net[p], m) = net[p] \o <<m>>
    BY <1>5, <1>7, AppendJoins
  <2>2. net' = [net EXCEPT ![p] = Append(net[p], m)] /\ net \in [Ends -> Seq(Msgs)]
    BY <1>4, <1>7 DEF Shapes
  <2>. QED BY <2>1, <2>2, PeerOf
<1>19. \A h \in Gens : h > opened' <=> (h > opened /\ ~(h = g /\ e = plan[g].by))
  <2>1. \A h \in Gens : h \in Nat
    BY DEF Gens
  <2>2. g = opened + 1
    BY DEF g
  <2>. QED BY <1>2, <1>3, <2>1, <2>2
<1>20. \A h \in Gens : Path(Asks(p, h), Shells(p, h), h, net[e], v[e][h].in, v[p][h].out)
  BY DEF Inv, Ways
<1>21. Path(Asks(p, g), Shells(p, g), g, net[e], Start, v[p][g].out)
  BY <1>7, <1>9
<1>22. Path(Asks(e, g), Shells(e, g), g, <<m>>, v[e][g].out, Begun)
  BY <1>9, <1>15
<1>23. v[p][g].c.type \notin {"connecting", "larval", "open"}
  BY <1>12 DEF NotYet
<1>24. v[e][g].c \notin Chans
  BY <1>8, FreeIsNoChan
<1>25. io[g][e].saw = "fail" => NoIo.saw = "fail"
  BY <1>9
<1>26. \A k \in 1 .. Len(net[e]) : \E j \in 1 .. Len(net[e]) : net[e][k] = net[e][j]
  OBVIOUS
<1>27. opened' \in 0 .. Len(plan) /\ plan' = plan /\ disc' = disc
  BY <1>2, <1>3
<1>28. Moves(v, e, g, i, c, NoIo, Start, Begun, <<m>>, net[e])
  <2>. HIDE DEF p, z
  <2>. QED BY <1>4, <1>13, <1>14, <1>15, <1>16, <1>17, <1>18, <1>19, <1>20, <1>21, <1>22, <1>23,
             <1>24, <1>25, <1>26, <1>27 DEF Moves, p, z
<1>. QED BY <1>1, <1>3, <1>7, <1>15, <1>28, MovesKeep

\* The end that is asked for a channel knew nothing of it, and the other one waits.
LEMMA AskedFirst ==
  ASSUME NEW v \in Maps, Inv(v), NEW e \in Ends, net[e] # <<>>, NEW m, m = Head(net[e]),
         m.op = "OPEN", NEW g, g = m.g, NEW p, p = Peer(e)
  PROVE  /\ v[e][g].c = NotYet /\ v[e][g].in = Start /\ v[e][g].out = Start /\ io[g][e] = NoIo
         /\ v[p][g].c.type = "opening" /\ v[p][g].out = Begun
         /\ ~Opener(SideOf(v, e, g)) /\ ~Asks(e, g)
         /\ Path(Asks(p, g), Shells(p, g), g, Tail(net[e]), Begun, v[p][g].out)
         /\ \A k \in 1 .. Len(Tail(net[e])) : Tail(net[e])[k].g # g
         /\ \A k \in 1 .. Len(net[p]) : net[p][k].g # g
<1>. DEFINE z == SideOf(v, e, g)
            y == SideOf(v, p, g)
<1>1. /\ m \in Msgs /\ g \in Gens /\ Tail(net[e]) \in Seq(Msgs)
      /\ Allowed(Asks(p, g), Shells(p, g), v[e][g].in, "OPEN")
      /\ Path(Asks(p, g), Shells(p, g), g, Tail(net[e]),
              After(v[e][g].in, "OPEN", m.n), v[p][g].out)
  BY SMTT(60), TakesHead
<1>2. /\ p \in Ends /\ Shapes /\ net[p] \in Seq(Msgs)
      /\ z \in Sides /\ y \in Sides /\ Mates(z, y)
      /\ Own(z, v[e][g].c, io[g][e], v[e][g].in, v[e][g].out)
      /\ Own(y, v[p][g].c, io[g][p], v[p][g].in, v[p][g].out)
      /\ Path(Asks(e, g), Shells(e, g), g, net[p], v[p][g].in, v[e][g].out)
      /\ Before(v[p][g].in, v[e][g].out) /\ v[p][g].in \in Places
  BY ZenonT(90), <1>1, BothEnds
<1>3. Asks(p, g) /\ v[e][g].in.st = "new"
  BY <1>1 DEF Allowed
<1>4. ~Opener(z) /\ ~Asks(e, g)
  <2>1. p # e
    BY PeerOf
  <2>2. plan[g].by = p /\ z.by = plan[g].by /\ z.end = e
    BY ZenonT(90), <1>1, <1>2, <1>3, SideFields DEF Asks
  <2>. QED BY <2>1, <2>2 DEF Opener, Asks
<1>. HIDE DEF z, y
<1>5. v[e][g].c = NotYet /\ v[e][g].in = Start /\ v[e][g].out = Start /\ io[g][e] = NoIo
  BY ZenonT(90), <1>2, <1>3, <1>4, HeardNothing
<1>6. Path(Asks(p, g), Shells(p, g), g, Tail(net[e]), Begun, v[p][g].out)
  BY SMTT(60), <1>1, <1>5, FirstWords
<1>7. v[p][g].in = Start
  BY ZenonT(90), <1>2, <1>5, BeforeStart
<1>8. v[p][g].c.type = "opening" /\ v[p][g].out = Begun
  <2>1. v[p][g].in.st = "new"
    BY SMTT(60), <1>7 DEF Start
  <2>2. Before(Begun, v[p][g].out)
    BY <1>1, <1>6, PathBefore
  <2>3. v[p][g].out # Start
    BY <2>2 DEF Before, Begun, Start
  <2>4. \/ v[p][g].out = Start
        \/ v[p][g].c.type = "opening" /\ v[p][g].out = Begun
    <3>1. Own(y, v[p][g].c, io[g][p], v[p][g].in, v[p][g].out)
      BY ZenonT(90), <1>2
    <3>. QED BY SMTT(60), <3>1, <2>1, HeardNothing
  <2>. QED BY <2>3, <2>4
<1>9. \A k \in 1 .. Len(Tail(net[e])) : Tail(net[e])[k].g # g
  BY ZenonT(90), <1>1, <1>6, <1>8, NoneBetween
<1>10. \A k \in 1 .. Len(net[p]) : net[p][k].g # g
  BY <1>2, <1>5, <1>7, NoneBetween
<1>. QED BY <1>4, <1>5, <1>6, <1>8, <1>9, <1>10 DEF z

\* It makes a channel, or refuses.
LEMMA AskedMoves ==
  ASSUME NEW v \in Maps, Inv(v), NEW e \in Ends, net[e] # <<>>, NEW m, m = Head(net[e]),
         m.op = "OPEN", NEW g, g = m.g, NEW i \in Slots, NEW c, NEW b, NEW q \in Seq(Msgs),
         c = Free \/ c \in Chans,
         Own(SideOf(v, e, g), c, NoIo, Begun, b), Carries(SideOf(v, e, g), i, q),
         Path(Asks(e, g), Shells(e, g), g, q, Start, b),
         \/ ch' = [ch EXCEPT ![e] = [ch[e] EXCEPT ![i] = c]] /\ ch[e][i] = Free
         \/ ch' = ch /\ c = Free,
         net' = [net EXCEPT ![e] = Tail(net[e]), ![Peer(e)] = net[Peer(e)] \o q],
         UNCHANGED <<plan, opened, io, disc>>
  PROVE  CInv'
<1>. DEFINE p == Peer(e)
<1>1. /\ v[e][g].c = NotYet /\ v[e][g].in = Start /\ v[e][g].out = Start /\ io[g][e] = NoIo
      /\ v[p][g].c.type = "opening"
      /\ ~Asks(e, g)
      /\ Path(Asks(p, g), Shells(p, g), g, Tail(net[e]), Begun, v[p][g].out)
      /\ \A k \in 1 .. Len(Tail(net[e])) : Tail(net[e])[k].g # g
      /\ \A k \in 1 .. Len(net[p]) : net[p][k].g # g
  BY SMTT(60), AskedFirst
<1>2. /\ g \in Gens /\ Tail(net[e]) \in Seq(Msgs)
      /\ \A k \in 1 .. Len(Tail(net[e])) : \E j \in 1 .. Len(net[e]) : Tail(net[e])[k] = net[e][j]
      /\ \A h \in Gens : h # g =>
           Path(Asks(p, h), Shells(p, h), h, Tail(net[e]), v[e][h].in, v[p][h].out)
  BY TakesHead
<1>3. io' = [io EXCEPT ![g] = [io[g] EXCEPT ![e] = NoIo]]
  <2>1. io \in [Gens -> [Ends -> Ios]]
    BY DEF Inv, Shapes
  <2>. QED BY <1>1, <1>2, <2>1
<1>4. opened' \in 0 .. Len(plan) /\ plan' = plan /\ disc' = disc
  BY DEF Inv, Shapes
<1>5. \A h \in Gens : h > opened' <=> (h > opened /\ ~(h = g /\ e = plan[g].by))
  BY ZenonT(90), <1>1 DEF Asks
<1>6. v[e][g].c \notin Chans
  BY SMTT(60), <1>1, FreeIsNoChan
<1>7. io[g][e].saw = "fail" => NoIo.saw = "fail"
  BY SMTT(60), <1>1
<1>8. Path(Asks(e, g), Shells(e, g), g, q, v[e][g].out, b)
  BY SMTT(60), <1>1
<1>9. v[p][g].c.type \notin {"connecting", "larval", "open"}
  BY SMTT(60), <1>1
<1>10. Moves(v, e, g, i, c, NoIo, Begun, b, q, Tail(net[e]))
  <2>. HIDE DEF p
  <2>. QED BY ZenonT(90), <1>1, <1>2, <1>3, <1>4, <1>5, <1>6, <1>7, <1>8, <1>9 DEF Moves, p
<1>. QED BY <1>2, <1>10, MovesKeep

\* server_input_channel_open and client_input_channel_open.
LEMMA ReceiveOpenKeeps ==
  ASSUME NEW v \in Maps, Inv(v), NEW e \in Ends, Receive(e), Head(net[e]).op = "OPEN"
  PROVE  CInv'
<1>. DEFINE m == Head(net[e])
            g == m.g
            p == Peer(e)
            z == SideOf(v, e, g)
<1>1. net[e] # <<>> /\ ReceiveOpen(e, m) /\ UNCHANGED <<plan, opened, io, disc>>
  BY DEF Receive
<1>2. /\ m \in Msgs /\ g \in Gens /\ m.from = v[p][g].at /\ m.n = Window
  BY <1>1, TakesHead
<1>3. ~Opener(z) /\ ~Asks(e, g)
  BY <1>1, AskedFirst
<1>4. /\ p \in Ends /\ p # e /\ Shapes /\ net[e] \in Seq(Msgs) /\ net[p] \in Seq(Msgs)
      /\ z \in Sides /\ z.to = v[p][g].at /\ v[p][g] \in Views
  BY <1>2, BothEnds, PeerOf
<1>5. z.end = e /\ z.kind = Kind(g) /\ z.by = plan[g].by
  BY <1>2, <1>4, SideFields
<1>6. m.from \in Slots /\ m.from = z.to /\ g \in Nat
  BY <1>2, <1>4, PlanTypes DEF Views, Shapes
<1>7. /\ ch \in [Ends -> [Slots -> Chans \cup {Free}]] /\ net \in [Ends -> Seq(Msgs)]
  BY <1>4 DEF Shapes
<1>8. Start \in Places /\ Begun \in Places /\ Window \in Nat /\ 0 \in Nat
  BY StartTypes, WindowIsNat
<1>9. z.kind # "tcp" => SesServer(z)
  <2>1. z.kind # "tcp" => z.by = "client"
    BY <1>2, <1>4, <1>5, PlanTypes DEF Shapes, Kind
  <2>. QED BY <1>3, <1>5, <2>1 DEF SesServer, Opener, Ends
<1>10. ASSUME NEW i \in Slots, FreeSlot(e, i),
              LET session == Kind(m.g) # "tcp"
                  new == IF session THEN NewChannel(e, m.g, "larval", 0)
                         ELSE NewChannel(e, m.g, "connecting", Window)
              IN  /\ ch' = [ch EXCEPT ![e][i] = [new EXCEPT !.rid = m.from, !.rwin = m.n]]
                  /\ net' = [net EXCEPT ![e] = Tail(@), ![Peer(e)] =
                       IF session
                       THEN Append(@, [op |-> "CONFIRM", to |-> m.from, from |-> i,
                                       n |-> 0, g |-> m.g])
                       ELSE @]
       PROVE  CInv'
  <2>1. ch[e][i] = Free
    BY <1>10 DEF FreeSlot
  <2>2. CASE Kind(g) = "tcp"
    <3>. DEFINE c == [NewChannel(e, g, "connecting", Window) EXCEPT !.rid = m.from, !.rwin = m.n]
    <3>1. ch' = [ch EXCEPT ![e][i] = c] /\ net' = [net EXCEPT ![e] = Tail(@), ![p] = @]
      BY <1>10, <2>2
    <3>2. z.kind = "tcp" /\ W0(z) = Window
      BY <1>5, <2>2 DEF W0, SesServer
    <3>. HIDE DEF m, g, z
    <3>3. c \in Chans /\ Own(z, c, NoIo, Begun, Start)
      <4>1. z = SideOf(v, e, g)
        BY DEF z
      <4>2. c = [NewChannel(e, g, "connecting", Window) EXCEPT !.rid = m.from, !.rwin = Window]
        BY <1>2
      <4>3. /\ ~Opener(z) /\ z.kind = "tcp" /\ m.from = z.to /\ Window = W0(z) /\ m.from \in Slots
            /\ Window \in Nat /\ g \in Gens /\ Shapes /\ Start \in Places /\ Begun \in Places
        BY <1>2, <1>3, <1>4, <1>6, <1>8, <3>2
      <4>. HIDE DEF c
      <4>. QED BY ZenonT(90), <4>1, <4>2, <4>3, NewOwn
    <3>. HIDE DEF c
    <3>4. ch' = [ch EXCEPT ![e] = [ch[e] EXCEPT ![i] = c]]
      BY <1>7, <3>1
    <3>5. net' = [net EXCEPT ![e] = Tail(net[e]), ![Peer(e)] = net[Peer(e)] \o <<>>]
      <4>1. net[p] \o <<>> = net[p]
        BY <1>4, ConcatEmptySeq
      <4>2. net' = [net EXCEPT ![e] = Tail(net[e]), ![p] = net[p]]
        BY <1>4, <1>7, <3>1
      <4>. QED BY <4>1, <4>2
    <3>6. Path(Asks(e, g), Shells(e, g), g, <<>>, Start, Start)
      BY <1>8, PathEmpty
    <3>7. Carries(z, i, <<>>) /\ <<>> \in Seq(Msgs)
      BY DEF Carries
    <3>8. m = Head(net[e]) /\ g = m.g /\ z = SideOf(v, e, g) /\ m.op = "OPEN"
      BY DEF m, g, z
    <3>. QED BY <1>1, <2>1, <3>3, <3>4, <3>5, <3>6, <3>7, <3>8, AskedMoves
  <2>3. CASE Kind(g) # "tcp"
    <3>. DEFINE c == [NewChannel(e, g, "larval", 0) EXCEPT !.rid = m.from, !.rwin = m.n]
                r == [op |-> "CONFIRM", to |-> m.from, from |-> i, n |-> 0, g |-> m.g]
    <3>1. ch' = [ch EXCEPT ![e][i] = c] /\ net' = [net EXCEPT ![e] = Tail(@), ![p] = Append(@, r)]
      BY <1>10, <2>3
    <3>2. SesServer(z) /\ W0(z) = 0
      BY <1>5, <1>9, <2>3 DEF W0
    <3>3. r \in Msgs /\ r.op = "CONFIRM" /\ r.to = z.to /\ r.from = i /\ r.n = W0(z) /\ r.g = g
      BY <1>6, <3>2 DEF Msgs, Ops
    <3>. HIDE DEF m, g, z, r
    <3>4. c \in Chans /\ Own(z, c, NoIo, Begun, Begun)
      <4>1. z = SideOf(v, e, g)
        BY DEF z
      <4>. QED BY ZenonT(90), <1>2, <1>3, <1>4, <1>6, <1>8, <3>2, <4>1, NewOwn
    <3>. HIDE DEF c
    <3>5. ch' = [ch EXCEPT ![e] = [ch[e] EXCEPT ![i] = c]]
      BY <1>7, <3>1
    <3>6. net' = [net EXCEPT ![e] = Tail(net[e]), ![Peer(e)] = net[Peer(e)] \o <<r>>]
      <4>1. Append(net[p], r) = net[p] \o <<r>>
        BY <1>4, <3>3, AppendJoins
      <4>2. net' = [net EXCEPT ![e] = Tail(net[e]), ![p] = Append(net[p], r)]
        BY <1>4, <1>7, <3>1
      <4>. QED BY <4>1, <4>2
    <3>7. /\ <<r>> \in Seq(Msgs) /\ Carries(z, i, <<r>>)
          /\ Path(Asks(e, g), Shells(e, g), g, <<r>>, Start, Begun)
      <4>1. Allowed(Asks(e, g), Shells(e, g), Start, r.op)
        BY <1>3, <3>3 DEF Allowed, Start
      <4>2. After(Start, r.op, r.n) = Begun
        BY <3>3, FirstWords
      <4>3. z = SideOf(v, e, g)
        BY DEF z
      <4>. QED BY <1>2, <1>4, <1>8, <3>3, <4>1, <4>2, <4>3, OnePacket
    <3>8. m = Head(net[e]) /\ g = m.g /\ z = SideOf(v, e, g) /\ m.op = "OPEN"
      BY DEF m, g, z
    <3>. QED BY <1>1, <2>1, <3>4, <3>5, <3>6, <3>7, <3>8, AskedMoves
  <2>. QED BY <2>2, <2>3
<1>11. ASSUME ch' = ch,
              net' = [net EXCEPT ![e] = Tail(@), ![Peer(e)] =
                Append(@, [op |-> "FAILURE", to |-> m.from, n |-> 0, g |-> m.g])]
       PROVE  CInv'
  <2>. DEFINE r == [op |-> "FAILURE", to |-> m.from, n |-> 0, g |-> m.g]
              i == v[e][g].at
              b == After(Start, "FAILURE", 0)
  <2>1. net' = [net EXCEPT ![e] = Tail(@), ![p] = Append(@, r)]
    BY <1>11
  <2>2. r \in Msgs /\ r.op = "FAILURE" /\ r.to = z.to /\ r.n = 0 /\ r.g = g
    BY <1>6 DEF Msgs, Ops
  <2>3. i \in Slots
    <3>1. v[e][g] \in Views
      BY <1>2, <1>4, SideFields
    <3>. QED BY <3>1 DEF Views
  <2>. HIDE DEF m, g, z, r, i
  <2>4. b \in Places
    BY <1>8, AfterIsPlace DEF Ops
  <2>5. Own(z, Free, NoIo, Begun, b)
    BY <1>3, <1>4, <1>8, <2>4, NothingLeft
  <2>6. net' = [net EXCEPT ![e] = Tail(net[e]), ![Peer(e)] = net[Peer(e)] \o <<r>>]
    <3>1. Append(net[p], r) = net[p] \o <<r>>
      BY <1>4, <2>2, AppendJoins
    <3>2. net' = [net EXCEPT ![e] = Tail(net[e]), ![p] = Append(net[p], r)]
      BY <1>4, <1>7, <2>1
    <3>. QED BY <3>1, <3>2
  <2>7. /\ <<r>> \in Seq(Msgs) /\ Carries(z, i, <<r>>)
        /\ Path(Asks(e, g), Shells(e, g), g, <<r>>, Start, b)
    <3>1. Allowed(Asks(e, g), Shells(e, g), Start, r.op)
      BY <1>3, <2>2 DEF Allowed, Start
    <3>2. After(Start, r.op, r.n) = b
      BY <2>2
    <3>3. z = SideOf(v, e, g)
      BY DEF z
    <3>. HIDE DEF b
    <3>. QED BY <1>2, <1>4, <1>8, <2>2, <3>1, <3>2, <3>3, OnePacket
  <2>8. m = Head(net[e]) /\ g = m.g /\ z = SideOf(v, e, g) /\ m.op = "OPEN"
    BY DEF m, g, z
  <2>. HIDE DEF b
  <2>. QED BY <1>1, <1>11, <2>3, <2>5, <2>6, <2>7, <2>8, AskedMoves
<1>. QED BY <1>1, <1>10, <1>11 DEF ReceiveOpen

-----------------------------------------------------------------------------
(* The inductive invariant *)

\* The invariant holds at first,
LEMMA InitHolds ==
  ASSUME Init
  PROVE  CInv
<1>. DEFINE r == [at |-> 0, c |-> NotYet, in |-> Start, out |-> Start]
            v == [e \in Ends |-> [g \in Gens |-> r]]
<1>1. r \in Views /\ r.at = 0 /\ r.c = NotYet /\ r.in = Start /\ r.out = Start
  BY StartTypes, ChannelAssumption DEF Views
<1>. HIDE DEF r
<1>2. v \in Maps /\ \A e \in Ends : \A g \in Gens : v[e][g] = r
  BY <1>1 DEF Maps
<1>. HIDE DEF v
<1>3. /\ plan \in Plans /\ opened = 0 /\ ch = [e \in Ends |-> [i \in Slots |-> Free]]
      /\ net = [e \in Ends |-> <<>>] /\ disc = FALSE
      /\ io = [g \in Gens |-> [e \in Ends |-> NoIo]]
  BY DEF Init, NewIo, NoIo
<1>4. \E R : plan \in Seq(R)
  BY <1>3, ChannelAssumption
<1>5. Len(plan) \in Nat /\ opened \in 0 .. Len(plan)
  BY <1>3, <1>4
<1>6. Shapes
  <2>1. ch \in [Ends -> [Slots -> Chans \cup {Free}]]
    BY <1>3
  <2>2. io \in [Gens -> [Ends -> Ios]]
    BY <1>3, StartTypes
  <2>3. net \in [Ends -> Seq(Msgs)]
    BY <1>3
  <2>. QED BY <1>3, <1>5, <2>1, <2>2, <2>3 DEF Shapes
<1>7. Reps(v)
  <2>1. \A e \in Ends : \A i \in Slots : ch[e][i] = Free
    BY <1>3
  <2>2. \A e \in Ends : \A g \in Gens : v[e][g].c = NotYet /\ v[e][g].c \notin Chans
    BY <1>1, <1>2, FreeIsNoChan
  <2>3. \A g \in Gens : g > opened
    BY <1>3 DEF Gens
  <2>4. \A g \in Gens : plan[g].by \in Ends
    BY <1>3, PlanTypes
  <2>. QED BY <2>1, <2>2, <2>3, <2>4 DEF Reps
<1>8. Mail(v)
  <2>1. \A e \in Ends : net[e] = <<>> /\ Len(net[e]) = 0
    BY <1>3
  <2>2. \A e \in Ends : 1 .. Len(net[e]) = {}
    BY <2>1
  <2>. QED BY <2>2 DEF Mail
<1>9. Ways(v)
  <2>1. \A e \in Ends : net[e] = <<>>
    BY <1>3
  <2>2. \A e \in Ends : \A g \in Gens : v[e][g].in = Start /\ v[Peer(e)][g].out = Start
    BY <1>1, <1>2, PeerOf
  <2>3. ASSUME NEW e \in Ends, NEW g \in Gens
        PROVE  Path(Asks(Peer(e), g), Shells(Peer(e), g), g, net[e], v[e][g].in, v[Peer(e)][g].out)
    BY <2>1, <2>2, PathEmpty, StartTypes
  <2>. QED BY <2>3 DEF Ways
<1>10. Owns(v)
  <2>1. SUFFICES ASSUME NEW e \in Ends, NEW g \in Gens
                 PROVE  Own(SideOf(v, e, g), v[e][g].c, io[g][e], v[e][g].in, v[e][g].out)
    BY DEF Owns
  <2>. DEFINE z == SideOf(v, e, g)
  <2>2. z \in Sides
    BY <1>2, <1>6, SideFields
  <2>3. v[e][g].c = NotYet /\ io[g][e] = NoIo /\ v[e][g].in = Start /\ v[e][g].out = Start
    BY <1>1, <1>2, <1>3
  <2>. HIDE DEF z
  <2>4. /\ Start.data = 0 /\ Start.ext = 0 /\ Start.adj = 0 /\ Start.said = {} /\ Start.st = "new"
        /\ Start \in Places /\ NoIo \in Ios
    BY StartTypes DEF Start
  <2>5. NotYet.type = "none"
    BY DEF NotYet
  <2>6. Facts(z, NoIo, Start, Start) /\ Honest(z, NotYet, NoIo, Start)
    BY <2>2, <2>4, <2>5, FirstFacts
  <2>7. Stage(z, NotYet, NoIo, Start, Start)
    BY <2>5 DEF Stage
  <2>8. Own(z, NotYet, NoIo, Start, Start)
    BY <2>4, <2>6, <2>7 DEF Own
  <2>. QED BY <2>3, <2>8 DEF z
<1>. QED BY <1>2, <1>6, <1>7, <1>8, <1>9, <1>10 DEF CInv, Inv

\* is kept when nothing happens,
LEMMA StutterKeeps ==
  ASSUME CInv, UNCHANGED vars
  PROVE  CInv'
<1>1. /\ plan' = plan /\ opened' = opened /\ ch' = ch /\ io' = io /\ net' = net /\ disc' = disc
  BY DEF vars
<1>2. PICK v \in Maps : Inv(v)
  BY DEF CInv
<1>3. Gens' = Gens /\ Maps' = Maps
  BY <1>1 DEF Gens, Maps
<1>4. Shapes'
  BY <1>1, <1>2, <1>3 DEF Inv, Shapes
<1>5. Reps(v)'
  BY <1>1, <1>2, <1>3 DEF Inv, Reps
<1>6. Mail(v)'
  BY <1>1, <1>2, <1>3 DEF Inv, Mail, Granted, Kind
<1>7. Ways(v)'
  BY <1>1, <1>2, <1>3 DEF Inv, Ways, Asks, Shells, Kind
<1>8. Owns(v)'
  BY <1>1, <1>2, <1>3 DEF Inv, Owns, SideOf, Kind
<1>. QED BY <1>2, <1>3, <1>4, <1>5, <1>6, <1>7, <1>8 DEF CInv, Inv

\* and by every step.
LEMMA NextHolds ==
  ASSUME CInv, [Next]_vars
  PROVE  CInv'
<1>1. PICK v \in Maps : Inv(v)
  BY DEF CInv
<1>2. ASSUME NEW e \in Ends, Open(e) PROVE CInv'
  BY <1>1, <1>2, OpenKeeps
<1>3. ASSUME NEW e \in Ends, Receive(e) PROVE CInv'
  BY <1>1, <1>3, ReceiveKeeps, ReceiveOpenKeeps
<1>4. ASSUME NEW e \in Ends, NEW i \in Slots, Connecting(e, i) PROVE CInv'
  BY <1>4, ConnectingKeeps
<1>5. ASSUME NEW e \in Ends, NEW i \in Slots, Pre(e, i) PROVE CInv'
  BY <1>5, PreKeeps
<1>6. ASSUME NEW e \in Ends, NEW i \in Slots, Post(e, i) PROVE CInv'
  BY <1>6, PostKeeps
<1>7. ASSUME NEW e \in Ends, NEW i \in Slots, Poll(e, i) PROVE CInv'
  BY <1>7, PollKeeps
<1>8. ASSUME NEW i \in Slots, CollectChildren(i) PROVE CInv'
  BY <1>8, CollectChildrenKeeps
<1>9. CASE Programs
  BY <1>9, ProgramsKeep
<1>10. CASE UNCHANGED vars
  BY <1>10, StutterKeeps
<1>. QED BY <1>2, <1>3, <1>4, <1>5, <1>6, <1>7, <1>8, <1>9, <1>10 DEF Next, System

\* The invariant the theorems below follow from.
THEOREM ChannelsHold == Spec => []CInv
<1>1. Init => CInv
  BY InitHolds
<1>2. CInv /\ [Next]_vars => CInv'
  BY NextHolds
<1>. QED BY <1>1, <1>2, PTL DEF Spec

-----------------------------------------------------------------------------
(* The theorems *)

\* A channel of the array, at both ends.
LEMMA LiveChannel ==
  ASSUME NEW v \in Maps, Inv(v), NEW e \in Ends, NEW i \in Live(e), NEW g, g = ch[e][i].g
  PROVE  /\ i \in Slots /\ ch[e][i] # Free /\ g \in Gens /\ ch[e][i] \in Chans /\ v[e][g].c = ch[e][i]
         /\ Own(SideOf(v, e, g), ch[e][i], io[g][e], v[e][g].in, v[e][g].out)
<1>1. i \in Slots /\ ch[e][i] # Free
  BY DEF Live
<1>. QED BY <1>1, ChannelAt

\* What a side may still send fits the other side's window.
LEMMA RoomToSend ==
  ASSUME NEW z \in Sides, NEW y \in Sides, Mates(z, y), NEW c, NEW x, NEW a, NEW b,
         NEW cy, NEW xy, NEW ay, NEW by, Own(z, c, x, a, b), Own(y, cy, xy, ay, by),
         Before(a, by), Before(ay, b), c \in Chans
  PROVE  c.rwin <= Window /\ c.lwin <= Window /\ c.consumed <= Window
<1>1. Window \in Nat /\ W0(z) \in 0 .. Window /\ PeerW0(z) \in 0 .. Window
  BY WindowIsNat
<1>2. a \in Places /\ b \in Places /\ ay \in Places /\ by \in Places
  BY DEF Own
<1>3. /\ c.rwin \in Nat /\ c.lwin \in Nat /\ c.consumed \in Nat /\ c.output \in Nat
      /\ c.type \in {"opening", "connecting", "larval", "open", "zombie"}
  BY DEF Chans, Types
<1>4. CASE c.type # "open"
  <2>1. Fresh(z, c, 0) \/ Fresh(z, c, Window)
    BY <1>3, <1>4 DEF Own, Stage
  <2>. QED BY <1>1, <2>1 DEF Fresh
<1>5. CASE c.type = "open"
  <2>1. WinOK(z, c, a, b)
    BY <1>5 DEF Own, Stage, OpenOK
  <2>2. c.lwin + c.consumed + c.output <= Window /\ c.rwin + b.data + b.ext = PeerW0(z) + a.adj
    BY <2>1 DEF WinOK
  <2>3. PeerW0(z) + by.adj <= Window + ay.data + ay.ext
    <3>1. LedgerOK(y, ay, by)
      BY DEF Own, Facts
    <3>2. W0(y) = PeerW0(z)
      BY MatesRoles
    <3>. QED BY <3>1, <3>2 DEF LedgerOK
  <2>4. a.adj <= by.adj /\ ay.data <= b.data /\ ay.ext <= b.ext
    BY DEF Before
  <2>5. /\ a.adj \in Nat /\ by.adj \in Nat /\ ay.data \in Nat /\ ay.ext \in Nat
        /\ b.data \in Nat /\ b.ext \in Nat /\ PeerW0(z) \in Nat
    BY <1>1, <1>2 DEF Places
  <2>6. c.rwin <= Window
    BY <1>1, <1>3, <2>2, <2>3, <2>4, <2>5
  <2>. QED BY <1>1, <1>3, <2>2, <2>6
<1>. QED BY <1>4, <1>5

\* Every channel of the array has its fields' types, and no window or count of consumed
\* bytes passes the default window that channel_new was given.
THEOREM TypesHold == Spec => []ChannelTypeOK
<1>1. ASSUME CInv PROVE ChannelTypeOK
  <2>1. PICK v \in Maps : Inv(v)
    BY <1>1 DEF CInv
  <2>2. plan \in Plans /\ opened \in 0 .. Len(plan) /\ disc \in BOOLEAN
    BY <2>1 DEF Inv, Shapes
  <2>3. ASSUME NEW e \in Ends, NEW i \in Live(e), NEW c, c = ch[e][i]
        PROVE  /\ c.type \in {"opening", "connecting", "larval", "open", "zombie"}
               /\ c.istate \in {"open", "drain", "closed"}
               /\ c.ostate \in {"open", "drain", "closed"}
               /\ c.rid \in Slots /\ c.detach \in {"none", "keep", "close"}
               /\ c.input \in Nat /\ c.output \in Nat /\ c.extended \in Nat
               /\ c.rwin \in 0 .. Window /\ c.lwin \in 0 .. Window /\ c.consumed \in 0 .. Window
    <3>. DEFINE g == c.g
                p == Peer(e)
                z == SideOf(v, e, g)
                y == SideOf(v, p, g)
    <3>1. g \in Gens /\ c \in Chans /\ Own(z, c, io[g][e], v[e][g].in, v[e][g].out)
      BY <2>1, <2>3, LiveChannel
    <3>2. /\ z \in Sides /\ y \in Sides /\ Mates(z, y)
          /\ Own(y, v[p][g].c, io[g][p], v[p][g].in, v[p][g].out)
          /\ Before(v[e][g].in, v[p][g].out) /\ Before(v[p][g].in, v[e][g].out)
      BY <2>1, <3>1, BothEnds
    <3>. HIDE DEF g, p, z, y
    <3>3. c.rwin <= Window /\ c.lwin <= Window /\ c.consumed <= Window
      BY <3>1, <3>2, RoomToSend
    <3>4. c.rwin \in Nat /\ c.lwin \in Nat /\ c.consumed \in Nat /\ Window \in Nat
      BY <3>1, WindowIsNat DEF Chans
    <3>5. c.rwin \in 0 .. Window /\ c.lwin \in 0 .. Window /\ c.consumed \in 0 .. Window
      BY <3>3, <3>4
    <3>. QED BY <3>1, <3>5 DEF Chans, Types
  <2>. QED BY <2>2, <2>3 DEF ChannelTypeOK
<1>2. CInv => ChannelTypeOK
  BY <1>1
<1>. QED BY <1>2, ChannelsHold, PTL

\* A packet under way that opens no channel finds the channel it is for.
LEMMA FindsChannel ==
  ASSUME NEW z \in Sides, NEW y \in Sides, Mates(z, y), NEW c, NEW x, NEW a, NEW b,
         NEW cy, NEW xy, NEW ay, NEW by, Own(z, c, x, a, b), Own(y, cy, xy, ay, by),
         NEW op \in Ops \ {"OPEN"}, NEW n \in Nat, NEW h \in Places, Before(a, h),
         Hears(z, h, op), Before(After(h, op, n), by), Before(ay, b)
  PROVE  c \in Chans /\ c.type # "zombie"
<1>1. a \in Places /\ b \in Places /\ ay \in Places /\ by \in Places
  BY DEF Own
<1>2. a.k \in Nat /\ h.k \in Nat /\ by.k \in Nat /\ a.k <= h.k /\ h.k + 1 <= by.k
  <2>1. After(h, op, n).k = h.k + 1
    BY DEF After
  <2>. QED BY <1>1, <2>1 DEF Places, Before
<1>3. h.st \in {"new", "up"} /\ (h.st = "new" => Opener(z))
  BY DEF Hears, Allowed
<1>4. a.st \notin {"failed", "closed"}
  BY <1>3 DEF Before
<1>5. Opener(y) <=> ~Opener(z)
  BY MatesRoles
<1>6. /\ Start.st = "new" /\ Start.k = 0 /\ Begun.st = "up" /\ Begun.k = 1
  BY DEF Start, Begun
<1>7. ay.st = "new" => by = Start \/ (Opener(y) /\ by = Begun)
  <2>1. ay.st = "new" => \/ cy = NotYet /\ xy = NoIo /\ ay = Start /\ by = Start
                         \/ cy.type = "opening" /\ Opener(y) /\ ay = Start /\ by = Begun
    BY HeardNothing
  <2>. QED BY <2>1
<1>8. c # NotYet
  <2>1. SUFFICES ASSUME c = NotYet PROVE FALSE
    OBVIOUS
  <2>2. a = Start /\ b = Start
    BY <2>1 DEF Own, Stage, NotYet
  <2>3. ay = Start
    BY <1>1, <2>2, BeforeStart
  <2>4. Opener(y) /\ by = Begun
    BY <1>2, <1>6, <1>7, <2>3
  <2>5. h.k = a.k
    BY <1>2, <1>6, <2>2, <2>4
  <2>6. h = Start
    BY <2>2, <2>5 DEF Before
  <2>. QED BY <1>3, <1>5, <1>6, <2>4, <2>6
<1>9. c # Free
  <2>1. SUFFICES ASSUME c = Free PROVE FALSE
    OBVIOUS
  <2>2. c.type = "free"
    BY <2>1 DEF Free
  <2>3. ~Opener(z) /\ a = Begun /\ b.st = "failed"
    BY <1>4, <2>2 DEF Own, Stage
  <2>4. ay.st \in {"new", "failed"}
    BY <2>3 DEF Before
  <2>5. by.k > 1
    BY <1>2, <1>6, <2>3
  <2>6. ay.st = "failed"
    BY <1>6, <1>7, <2>4, <2>5
  <2>7. by = Begun
    <3>1. cy = NotYet \/ cy = Free \/ Belongs(y, cy)
      BY DEF Own
    <3>2. cy.type \in {"none", "free", "opening", "connecting", "larval", "open", "zombie"}
      BY <3>1 DEF NotYet, Free, Belongs, Chans, Types
    <3>3. cy.type = "open" => ay.st # "failed"
      BY DEF Own, Stage, OpenOK, FlagsOK
    <3>4. cy.type \in {"zombie", "free"}
      BY <1>6, <2>6, <3>2, <3>3 DEF Own, Stage
    <3>. QED BY <1>6, <2>6, <3>4 DEF Own, Stage
  <2>. QED BY <1>6, <2>5, <2>7
<1>10. c.type # "zombie"
  BY <1>4 DEF Own, Stage
<1>. QED BY <1>8, <1>9, <1>10 DEF Own, Belongs

\* No end disconnects over a packet it cannot place, and every packet under way except an
\* OPEN is for the channel that is at the place it names: channel_lookup finds it, and
\* the place was not given to another channel meanwhile.
THEOREM PacketsFindTheirChannel == Spec => []ReachesItsChannel
<1>1. ASSUME CInv PROVE ReachesItsChannel
  <2>1. PICK v \in Maps : Inv(v)
    BY <1>1 DEF CInv
  <2>2. ~disc
    BY <2>1 DEF Inv, Shapes
  <2>3. ASSUME NEW e \in Ends, NEW k \in DOMAIN net[e], NEW m, m = net[e][k], m.op # "OPEN"
        PROVE  ch[e][m.to].type \notin {"free", "zombie"} /\ ch[e][m.to].g = m.g
    <3>. DEFINE g == m.g
                p == Peer(e)
                z == SideOf(v, e, g)
                y == SideOf(v, p, g)
                c == v[e][g].c
    <3>1. net[e] \in Seq(Msgs)
      BY <2>1 DEF Inv, Shapes
    <3>2. k \in 1 .. Len(net[e]) /\ m \in Msgs
      BY <2>3, <3>1
    <3>3. g \in Gens /\ m.to = v[e][g].at
      BY <2>1, <2>3, <3>2 DEF Inv, Mail
    <3>4. /\ z \in Sides /\ y \in Sides /\ Mates(z, y) /\ Shapes
          /\ Own(z, c, io[g][e], v[e][g].in, v[e][g].out)
          /\ Own(y, v[p][g].c, io[g][p], v[p][g].in, v[p][g].out)
          /\ Path(Asks(p, g), Shells(p, g), g, net[e], v[e][g].in, v[p][g].out)
          /\ Before(v[p][g].in, v[e][g].out)
      BY <2>1, <3>3, BothEnds
    <3>5. PICK h \in Places :
             /\ Before(v[e][g].in, h) /\ Allowed(Asks(p, g), Shells(p, g), h, net[e][k].op)
             /\ Before(After(h, net[e][k].op, net[e][k].n), v[p][g].out)
      <4>1. net[e][k].g = g
        BY <2>3
      <4>. HIDE DEF g
      <4>. QED BY <3>1, <3>2, <3>4, <4>1, PathFinds
    <3>6. /\ Before(v[e][g].in, h) /\ Before(After(h, m.op, m.n), v[p][g].out)
          /\ Hears(z, h, m.op)
      <4>1. Hears(z, h, m.op) <=> Allowed(Asks(Peer(e), g), Shells(Peer(e), g), h, m.op)
        BY <2>1, <3>3, <3>4, HearsPeer
      <4>. QED BY <2>3, <3>5, <4>1
    <3>7. m.op \in Ops \ {"OPEN"} /\ m.n \in Nat
      BY <2>3, <3>2, MsgFields
    <3>. HIDE DEF p, z, y, c
    <3>8. c \in Chans /\ c.type # "zombie"
      BY <3>4, <3>5, <3>6, <3>7, FindsChannel
    <3>9. ch[e][m.to] = c
      BY <2>1, <3>3, <3>8 DEF Inv, Reps, c
    <3>10. c.g = g
      <4>1. c.g = z.g
        BY <3>4, <3>8, FreeIsNoChan DEF Own, Belongs
      <4>2. z.g = g
        BY <3>3, <3>4, SideFields DEF z
      <4>. QED BY SMTT(60), <4>1, <4>2
    <3>11. c.type # "free"
      BY <3>8 DEF Chans, Types
    <3>. QED BY <3>8, <3>9, <3>10, <3>11
  <2>. QED BY <2>2, <2>3 DEF ReachesItsChannel
<1>2. CInv => ReachesItsChannel
  BY <1>1
<1>. QED BY <1>2, ChannelsHold, PTL

\* What the program behind a closed output got.
LEMMA GotEverything ==
  ASSUME NEW z \in Sides, NEW y \in Sides, Mates(z, y), NEW c, NEW x, NEW a, NEW b,
         NEW cy, NEW xy, NEW ay, NEW by, Own(z, c, x, a, b), Own(y, cy, xy, ay, by),
         y.peer = x.saw, Before(a, by), x.saw = "eof"
  PROVE  /\ \/ xy.shut /\ x.got = xy.made
            \/ z.kind = "tty" /\ xy.child = "reaped" /\ x.got >= xy.last
         /\ x.egone \/ x.egot >= xy.elast
<1>1. /\ "EOF" \in a.said \/ a.st = "closed"
      /\ x.got = a.data
      /\ ExecClient(z) => x.egone \/ x.egot = a.ext
  BY DEF Own, Facts, ReaderOK
<1>2. "EOF" \in by.said /\ by.data = a.data /\ by.ext = a.ext
  <2>1. CASE "EOF" \in a.said
    BY <2>1 DEF Before
  <2>2. CASE a.st = "closed"
    <3>1. by = a
      BY <2>2 DEF Before
    <3>2. "EOF" \in by.said
      BY <2>2, <3>1 DEF Own, Honest
    <3>. QED BY <3>1, <3>2
  <2>. QED BY <1>1, <2>1, <2>2
<1>3. Complete(y, xy, by)
  BY <1>2 DEF Own, Honest
<1>4. z.kind = y.kind /\ (ExecServer(y) <=> ExecClient(z))
  BY MatesRoles DEF Mates
<1>5. \/ xy.shut /\ x.got = xy.made
      \/ z.kind = "tty" /\ xy.child = "reaped" /\ x.got >= xy.last
  BY <1>1, <1>2, <1>3, <1>4 DEF Complete
<1>6. xy.elast <= xy.emade /\ (xy.emade > 0 => ExecServer(y))
  BY DEF Own, Facts, WriterOK
<1>7. xy.elast \in Nat /\ xy.emade \in Nat /\ x.egot \in Nat /\ by.ext \in Nat
  BY DEF Own, Ios, Places
<1>8. CASE ExecServer(y)
  <2>1. by.ext >= xy.elast
    BY <1>3, <1>6, <1>7, <1>8 DEF Complete
  <2>. QED BY <1>1, <1>2, <1>4, <1>5, <1>8, <2>1
<1>9. CASE ~ExecServer(y)
  <2>1. xy.elast = 0
    BY <1>6, <1>7, <1>9
  <2>. QED BY <1>5, <1>7, <2>1
<1>. QED BY <1>8, <1>9

\* An output that was closed because the other end said EOF or CLOSE was closed over all
\* that the other program wrote, or wrote before its exit from a terminal.
THEOREM EofIsComplete == Spec => []CompleteAtEof
<1>1. ASSUME CInv PROVE CompleteAtEof
  <2>1. PICK v \in Maps : Inv(v)
    BY <1>1 DEF CInv
  <2>2. ASSUME NEW g \in Gens, NEW e \in Ends, NEW r, r = io[g][e], NEW w, w = io[g][Peer(e)],
               r.saw = "eof"
        PROVE  /\ \/ w.shut /\ r.got = w.made
                  \/ Kind(g) = "tty" /\ w.child = "reaped" /\ r.got >= w.last
               /\ r.egone \/ r.egot >= w.elast
    <3>. DEFINE p == Peer(e)
                z == SideOf(v, e, g)
                y == SideOf(v, p, g)
    <3>1. /\ z \in Sides /\ y \in Sides /\ Mates(z, y) /\ Shapes /\ p \in Ends
          /\ Own(z, v[e][g].c, r, v[e][g].in, v[e][g].out)
          /\ Own(y, v[p][g].c, w, v[p][g].in, v[p][g].out)
          /\ Before(v[e][g].in, v[p][g].out)
      BY <2>1, <2>2, BothEnds
    <3>2. z.kind = Kind(g) /\ y.peer = r.saw
      <4>1. Peer(p) = e
        BY PeerOf
      <4>. QED BY <2>1, <2>2, <3>1, <4>1, SideFields
    <3>. HIDE DEF p, z, y
    <3>3. /\ \/ w.shut /\ r.got = w.made
             \/ z.kind = "tty" /\ w.child = "reaped" /\ r.got >= w.last
          /\ r.egone \/ r.egot >= w.elast
      BY <2>2, <3>1, <3>2, GotEverything
    <3>. QED BY <3>2, <3>3
  <2>. QED BY <2>2 DEF CompleteAtEof
<1>2. CInv => CompleteAtEof
  BY <1>1
<1>. QED BY <1>2, ChannelsHold, PTL

\* A session is gone from the client, whose program had its output closed, only after
\* the end of the child was reported: the server's CLOSE follows its exit-status or
\* exit-signal, and the client closes only in answer.  The client has a status just
\* when the child was not killed.
THEOREM StatusComesFirst == Spec => []StatusBeforeClose
<1>1. ASSUME CInv PROVE StatusBeforeClose
  <2>1. PICK v \in Maps : Inv(v)
    BY <1>1 DEF CInv
  <2>2. ASSUME NEW g \in Gens, Kind(g) # "tcp", g <= opened, ~Has("client", g),
               io[g]["client"].saw # "open"
        PROVE  /\ io[g]["server"].child = "reaped"
               /\ io[g]["client"].status <=> ~io[g]["server"].sig
    <3>. DEFINE e == "client"
                p == Peer(e)
                z == SideOf(v, e, g)
                y == SideOf(v, p, g)
                c == v[e][g].c
                a == v[e][g].in
                x == io[g][e]
    <3>0. e \in Ends /\ p = "server"
      BY DEF Ends, Peer
    <3>1. /\ z \in Sides /\ y \in Sides /\ Mates(z, y) /\ Shapes /\ p \in Ends
          /\ Own(z, c, x, a, v[e][g].out)
          /\ Own(y, v[p][g].c, io[g][p], v[p][g].in, v[p][g].out)
          /\ Before(a, v[p][g].out) /\ v[e][g] \in Views
      BY <2>1, <2>2, <3>0, BothEnds
    <3>2. SesClient(z) /\ SesServer(y)
      <4>1. z.kind = Kind(g) /\ z.end = "client"
        BY <3>0, <3>1, SideFields
      <4>. HIDE DEF z, y
      <4>2. SesClient(z)
        BY <2>2, <4>1 DEF SesClient
      <4>. QED BY <3>1, <4>2, MatesRoles
    <3>3. c # NotYet
      <4>1. plan[g].by = "client" /\ Len(plan) \in Nat /\ g \in Nat
        BY <2>2, <3>1, PlanTypes DEF Shapes, Kind
      <4>2. opened \in Nat
        BY <3>1, <4>1 DEF Shapes
      <4>3. v[plan[g].by][g].c = NotYet <=> g > opened
        BY <2>1 DEF Inv, Reps
      <4>4. ~(g > opened)
        BY <2>2, <4>1, <4>2
      <4>. QED BY <4>1, <4>3, <4>4
    <3>4. c \notin Chans
      <4>1. SUFFICES ASSUME c \in Chans PROVE FALSE
        OBVIOUS
      <4>2. ch[e][v[e][g].at] = c /\ v[e][g].at \in Slots
        BY <2>1, <3>0, <3>1, <4>1 DEF Inv, Reps, Views
      <4>3. c.g = g
        <5>1. z.g = g
          BY <3>0, <3>1, SideFields
        <5>2. Belongs(z, c)
          BY <3>1, <4>1, FreeIsNoChan DEF Own
        <5>. QED BY <5>1, <5>2 DEF Belongs
      <4>4. c # Free
        BY <4>1, FreeIsNoChan
      <4>. QED BY <2>2, <4>2, <4>3, <4>4 DEF Has, Live
    <3>. HIDE DEF p, z, y, c, a, x
    <3>5. c = Free
      BY <3>1, <3>3, <3>4 DEF Own, Belongs
    <3>6. a.st = "closed"
      <4>1. x.saw # "open"
        BY <2>2 DEF x
      <4>2. c.type = "free"
        BY <3>5 DEF Free
      <4>3. NoIo.saw = "open"
        BY DEF NoIo
      <4>. QED BY <3>1, <4>1, <4>2, <4>3 DEF Own, Stage
    <3>7. v[p][g].out = a
      BY <3>1, <3>6 DEF Before
    <3>8. "exit-status" \in a.said \/ "exit-signal" \in a.said
      BY <3>1, <3>2, <3>6, <3>7 DEF Own, Facts, WriterOK
    <3>9. /\ "exit-status" \in a.said => io[g]["server"].child = "reaped" /\ ~io[g]["server"].sig
          /\ "exit-signal" \in a.said => io[g]["server"].child = "reaped" /\ io[g]["server"].sig
      BY <3>0, <3>1, <3>2, <3>7 DEF Own, Facts, WriterOK
    <3>10. io[g]["client"].status <=> "exit-status" \in a.said
      BY <3>1, <3>2 DEF Own, Facts, WriterOK, x
    <3>. QED BY <3>8, <3>9, <3>10
  <2>. QED BY <2>2 DEF StatusBeforeClose
<1>2. CInv => StatusBeforeClose
  BY <1>1
<1>. QED BY <1>2, ChannelsHold, PTL

-----------------------------------------------------------------------------
(* The bytes under way *)

\* A set of numbers has a least one.
LEMMA Least ==
  ASSUME NEW T, T \subseteq Nat, T # {}
  PROVE  \E x \in T : \A y \in T : x <= y
<1>. DEFINE R == OpToRel(<, Nat)
<1>1. IsWellFoundedOn(R, Nat)
  BY NatLessThanWellFounded
<1>2. \A x, y \in Nat : x < y => <<x, y>> \in R
  BY DEF OpToRel
<1>. HIDE DEF R
<1>3. PICK x \in T : \A y \in T : ~ (<<y, x>> \in R)
  BY <1>1, WFMin
<1>4. \A y \in T : ~(y < x)
  BY <1>2, <1>3
<1>. QED BY <1>4

\* Induction up to n, over a set.
LEMMA UpTo ==
  ASSUME NEW n \in Nat, NEW B, 0 \in B, \A i \in 1 .. n : i - 1 \in B => i \in B
  PROVE  \A i \in 0 .. n : i \in B
<1>. DEFINE T == (0 .. n) \ B
<1>1. CASE T = {}
  BY <1>1
<1>2. CASE T # {}
  <2>1. T \subseteq Nat
    OBVIOUS
  <2>. HIDE DEF T
  <2>2. PICK x \in T : \A y \in T : x <= y
    BY <1>2, <2>1, Least
  <2>. USE DEF T
  <2>3. x \in 1 .. n /\ x \notin B
    BY <2>2
  <2>4. x - 1 \in 0 .. n /\ ~(x <= x - 1)
    BY <2>3
  <2>. QED BY <2>2, <2>3, <2>4
<1>. QED BY <1>1, <1>2

\* What packet k of w adds.
Part(w, k, g, ops) == IF w[k].g = g /\ w[k].op \in ops THEN w[k].n ELSE 0

\* Whatever adds up the packets computes InFlight.
LEMMA InFlightIs ==
  ASSUME NEW e, NEW g, NEW ops, net[e] \in Seq(Msgs), NEW n, n = Len(net[e]),
         NEW h \in [0 .. n -> Nat], h[0] = 0,
         \A k \in 1 .. n : h[k] = h[k - 1] + Part(net[e], k, g, ops)
  PROVE  InFlight(e, g, ops) = h[n]
<1>1. n \in Nat
  BY LenProperties
<1>. DEFINE Step(f) == [k \in 0 .. Len(net[e]) |-> IF k = 0 THEN 0 ELSE f[k - 1] +
                          (IF net[e][k].g = g /\ net[e][k].op \in ops THEN net[e][k].n ELSE 0)]
            s == CHOOSE f : f = Step(f)
<1>2. h = Step(h)
  <2>1. h = [k \in 0 .. n |-> h[k]]
    OBVIOUS
  <2>2. \A k \in 0 .. n : h[k] = IF k = 0 THEN 0 ELSE h[k - 1] +
                          (IF net[e][k].g = g /\ net[e][k].op \in ops THEN net[e][k].n ELSE 0)
    BY <1>1 DEF Part
  <2>. QED BY <2>1, <2>2
<1>3. s = Step(s)
  <2>. HIDE DEF Step
  <2>. QED BY <1>2
<1>4. InFlight(e, g, ops) = s[Len(net[e])]
  BY DEF InFlight
<1>. HIDE DEF s
<1>5. s[0] = 0 /\ \A k \in 1 .. n : s[k] = s[k - 1] + Part(net[e], k, g, ops)
  <2>1. \A k \in 0 .. n : s[k] = IF k = 0 THEN 0 ELSE s[k - 1] + Part(net[e], k, g, ops)
    <3>1. TAKE k \in 0 .. n
    <3>2. Step(s)[k] = IF k = 0 THEN 0 ELSE s[k - 1] + Part(net[e], k, g, ops)
      BY DEF Part
    <3>. HIDE DEF Step
    <3>. QED BY <1>3, <3>2
  <2>. QED BY <1>1, <2>1
<1>. DEFINE B == {k \in 0 .. n : s[k] = h[k]}
<1>6. 0 \in B
  BY <1>1, <1>5
<1>7. ASSUME NEW k \in 1 .. n, k - 1 \in B
      PROVE  k \in B
  BY <1>1, <1>5, <1>7
<1>. HIDE DEF B
<1>8. \A k \in 0 .. n : k \in B
  BY <1>1, <1>6, <1>7, UpTo
<1>9. n \in B
  BY <1>1, <1>8
<1>. QED BY <1>4, <1>9 DEF B

\* It is how far the packets under way take their channel.
LEMMA InFlightOnPath ==
  ASSUME NEW o, NEW u, NEW g, NEW e, net[e] \in Seq(Msgs), NEW a, NEW b, Path(o, u, g, net[e], a, b)
  PROVE  /\ InFlight(e, g, {"DATA", "EXTENDED"}) + a.data + a.ext = b.data + b.ext
         /\ InFlight(e, g, {"ADJUST"}) + a.adj = b.adj
         /\ InFlight(e, g, {"DATA", "EXTENDED"}) \in Nat /\ InFlight(e, g, {"ADJUST"}) \in Nat
<1>. DEFINE w == net[e]
<1>1. PICK p \in [0 .. Len(w) -> Places] : Walk(o, u, g, w, p) /\ p[0] = a /\ p[Len(w)] = b
  BY DEF Path
<1>2. PICK n \in Nat : n = Len(w)
  BY LenProperties
<1>3. /\ p \in [0 .. n -> Places]
      /\ \A k \in 1 .. n : IF w[k].g = g THEN p[k] = After(p[k - 1], w[k].op, w[k].n) ELSE p[k] = p[k - 1]
      /\ \A k \in 0 .. n : Before(p[0], p[k])
  <2>. HIDE DEF w
  <2>1. /\ p \in [0 .. n -> Places]
        /\ \A i \in 1 .. n :
             IF w[i].g = g THEN Allowed(o, u, p[i - 1], w[i].op) /\ p[i] = After(p[i - 1], w[i].op, w[i].n)
             ELSE p[i] = p[i - 1]
        /\ \A i, j \in 0 .. n : i <= j => Before(p[i], p[j])
    BY <1>1, <1>2 DEF Walk
  <2>2. ASSUME NEW k \in 0 .. n PROVE Before(p[0], p[k])
    BY <1>2, <2>1
  <2>3. ASSUME NEW k \in 1 .. n
        PROVE  IF w[k].g = g THEN p[k] = After(p[k - 1], w[k].op, w[k].n) ELSE p[k] = p[k - 1]
    BY <2>1
  <2>. QED BY <2>1, <2>2, <2>3
<1>4. \A k \in 1 .. n : w[k].n \in Nat
  <2>1. \A k \in 1 .. n : w[k] \in Msgs
    BY <1>2
  <2>. QED BY <2>1, MsgFields
<1>5. \A k \in 0 .. n : /\ p[k].data \in Nat /\ p[k].ext \in Nat /\ p[k].adj \in Nat
                        /\ p[0].data <= p[k].data /\ p[0].ext <= p[k].ext /\ p[0].adj <= p[k].adj
  BY <1>3 DEF Places, Before
<1>6. p[0] = a /\ p[n] = b /\ 0 \in 0 .. n /\ n \in 0 .. n
  BY <1>1, <1>2
<1>7. \A k \in 1 .. n : /\ w[k].g = g => /\ p[k].data = p[k - 1].data + Adds(w[k].op, w[k].n, "DATA")
                                         /\ p[k].ext = p[k - 1].ext + Adds(w[k].op, w[k].n, "EXTENDED")
                                         /\ p[k].adj = p[k - 1].adj + Adds(w[k].op, w[k].n, "ADJUST")
                        /\ w[k].g # g => p[k] = p[k - 1]
  <2>. HIDE DEF w
  <2>1. \A q, op, m : LET t == After(q, op, m) IN
          /\ t.data = q.data + Adds(op, m, "DATA") /\ t.ext = q.ext + Adds(op, m, "EXTENDED")
          /\ t.adj = q.adj + Adds(op, m, "ADJUST")
    BY DEF After
  <2>2. TAKE k \in 1 .. n
  <2>. QED BY <1>3, <2>1
<1>8. \A k \in 1 .. n : /\ k - 1 \in 0 .. n /\ k \in 0 .. n
  BY <1>2
<1>9. InFlight(e, g, {"DATA", "EXTENDED"}) + a.data + a.ext = b.data + b.ext
      /\ InFlight(e, g, {"DATA", "EXTENDED"}) \in Nat
  <2>. DEFINE h == [k \in 0 .. n |-> (p[k].data + p[k].ext) - (p[0].data + p[0].ext)]
  <2>1. \A k \in 0 .. n : (p[k].data + p[k].ext) - (p[0].data + p[0].ext) \in Nat
    BY SMTT(60), <1>5, <1>6
  <2>2. h \in [0 .. n -> Nat] /\ h[0] = 0
    BY <1>5, <1>6, <2>1
  <2>3. ASSUME NEW k \in 1 .. n
        PROVE  h[k] = h[k - 1] + Part(w, k, g, {"DATA", "EXTENDED"})
    <3>1. p[k].data + p[k].ext = p[k - 1].data + p[k - 1].ext + Part(w, k, g, {"DATA", "EXTENDED"})
      <4>. HIDE DEF w
      <4>1. /\ w[k].n \in Nat /\ p[k - 1].data \in Nat /\ p[k - 1].ext \in Nat
        BY <1>4, <1>5, <1>8
      <4>2. CASE w[k].g # g
        <5>1. p[k] = p[k - 1] /\ Part(w, k, g, {"DATA", "EXTENDED"}) = 0
          BY <1>7, <4>2 DEF Part
        <5>. QED BY <4>1, <5>1
      <4>3. CASE w[k].g = g
        <5>1. Adds(w[k].op, w[k].n, "DATA") + Adds(w[k].op, w[k].n, "EXTENDED")
                = Part(w, k, g, {"DATA", "EXTENDED"})
          BY <4>1, <4>3 DEF Part, Adds
        <5>2. Adds(w[k].op, w[k].n, "DATA") \in Nat /\ Adds(w[k].op, w[k].n, "EXTENDED") \in Nat
          BY <4>1 DEF Adds
        <5>3. /\ p[k].data = p[k - 1].data + Adds(w[k].op, w[k].n, "DATA")
              /\ p[k].ext = p[k - 1].ext + Adds(w[k].op, w[k].n, "EXTENDED")
          BY <1>7, <4>3
        <5>. QED BY SMTT(60), <4>1, <5>1, <5>2, <5>3
      <4>. QED BY <4>2, <4>3
    <3>2. Part(w, k, g, {"DATA", "EXTENDED"}) \in Nat
      BY <1>4 DEF Part
    <3>3. /\ p[k].data \in Nat /\ p[k].ext \in Nat /\ p[k - 1].data \in Nat /\ p[k - 1].ext \in Nat
          /\ p[0].data \in Nat /\ p[0].ext \in Nat
      BY <1>5, <1>6, <1>8
    <3>4. /\ h[k] = (p[k].data + p[k].ext) - (p[0].data + p[0].ext)
          /\ h[k - 1] = (p[k - 1].data + p[k - 1].ext) - (p[0].data + p[0].ext)
      BY <1>8
    <3>. HIDE DEF h
    <3>. QED BY SMTT(60), <3>1, <3>2, <3>3, <3>4
  <2>4. h[n] = (b.data + b.ext) - (a.data + a.ext)
    BY <1>6
  <2>. HIDE DEF h
  <2>5. InFlight(e, g, {"DATA", "EXTENDED"}) = h[n]
    BY <1>2, <2>2, <2>3, InFlightIs
  <2>6. a.data \in Nat /\ a.ext \in Nat /\ b.data \in Nat /\ b.ext \in Nat /\ h[n] \in Nat
    BY <1>5, <1>6, <2>2
  <2>7. h[n] + a.data + a.ext = b.data + b.ext
    BY <2>4, <2>6
  <2>. QED BY <2>5, <2>6, <2>7
<1>10. InFlight(e, g, {"ADJUST"}) + a.adj = b.adj /\ InFlight(e, g, {"ADJUST"}) \in Nat
  <2>. DEFINE h == [k \in 0 .. n |-> p[k].adj - p[0].adj]
  <2>1. \A k \in 0 .. n : p[k].adj - p[0].adj \in Nat
    BY <1>5, <1>6
  <2>2. h \in [0 .. n -> Nat] /\ h[0] = 0
    BY <1>5, <1>6, <2>1
  <2>3. ASSUME NEW k \in 1 .. n
        PROVE  h[k] = h[k - 1] + Part(w, k, g, {"ADJUST"})
    <3>1. p[k].adj = p[k - 1].adj + Part(w, k, g, {"ADJUST"})
      BY <1>4, <1>5, <1>7, <1>8 DEF Part, Adds
    <3>2. Part(w, k, g, {"ADJUST"}) \in Nat
      BY <1>4 DEF Part
    <3>3. p[k].adj \in Nat /\ p[k - 1].adj \in Nat /\ p[0].adj \in Nat
      BY <1>5, <1>6, <1>8
    <3>4. h[k] = p[k].adj - p[0].adj /\ h[k - 1] = p[k - 1].adj - p[0].adj
      BY <1>8
    <3>. HIDE DEF h
    <3>. QED BY <3>1, <3>2, <3>3, <3>4
  <2>4. h[n] = b.adj - a.adj
    BY <1>6
  <2>. HIDE DEF h
  <2>5. InFlight(e, g, {"ADJUST"}) = h[n]
    BY <1>2, <2>2, <2>3, InFlightIs
  <2>. QED BY <1>5, <1>6, <2>2, <2>4, <2>5
<1>. QED BY <1>9, <1>10

\* For two open ends of a channel, what the sender may still send, the bytes on their way
\* and the window on its way back are at most the receiver's window, and exactly that
\* unless the receiver has lost its standard error.
THEOREM WindowsAgreeHolds == Spec => []WindowsAgree
<1>1. ASSUME CInv PROVE WindowsAgree
  <2>1. PICK v \in Maps : Inv(v)
    BY <1>1 DEF CInv
  <2>2. ASSUME NEW e \in Ends, NEW i \in Live(e), NEW j \in Live(Peer(e)), NEW c, c = ch[e][i],
               NEW r, r = ch[Peer(e)][j], c.g = r.g, c.type = "open", r.type = "open",
               NEW d, d = c.rwin + InFlight(Peer(e), c.g, {"DATA", "EXTENDED"})
                                 + InFlight(e, c.g, {"ADJUST"})
        PROVE  /\ d <= r.lwin
               /\ (r.efd \/ Usage(r) # "write") => d = r.lwin
    <3>. DEFINE g == c.g
                p == Peer(e)
                z == SideOf(v, e, g)
                y == SideOf(v, p, g)
                a == v[e][g].in
                b == v[e][g].out
                k == v[p][g].in
                l == v[p][g].out
    <3>0. p \in Ends
      BY PeerOf
    <3>1. g \in Gens /\ c \in Chans /\ Own(z, c, io[g][e], a, b)
      BY <2>1, <2>2, LiveChannel
    <3>2. r \in Chans /\ Own(y, r, io[g][p], k, l)
      BY <2>1, <2>2, <3>0, LiveChannel
    <3>3. /\ z \in Sides /\ y \in Sides /\ Mates(z, y) /\ Shapes
          /\ net[e] \in Seq(Msgs) /\ net[p] \in Seq(Msgs)
          /\ Path(Asks(p, g), Shells(p, g), g, net[e], a, l)
          /\ Path(Asks(e, g), Shells(e, g), g, net[p], k, b)
          /\ a \in Places /\ b \in Places /\ k \in Places /\ l \in Places
      BY <2>1, <3>1, BothEnds
    <3>. DEFINE s == InFlight(p, g, {"DATA", "EXTENDED"})
                t == InFlight(e, g, {"ADJUST"})
    <3>. HIDE DEF g, p, z, y, a, b, k, l
    <3>4. s + k.data + k.ext = b.data + b.ext /\ s \in Nat
      <4>. DEFINE o == Asks(e, g)
                  u == Shells(e, g)
      <4>1. net[p] \in Seq(Msgs) /\ Path(o, u, g, net[p], k, b)
        BY <3>3
      <4>. HIDE DEF o, u
      <4>2. /\ InFlight(p, g, {"DATA", "EXTENDED"}) + k.data + k.ext = b.data + b.ext
            /\ InFlight(p, g, {"ADJUST"}) + k.adj = b.adj
            /\ InFlight(p, g, {"DATA", "EXTENDED"}) \in Nat /\ InFlight(p, g, {"ADJUST"}) \in Nat
        BY <4>1, InFlightOnPath
      <4>. QED BY <4>2
    <3>5. t + a.adj = l.adj /\ t \in Nat
      <4>. DEFINE o == Asks(p, g)
                  u == Shells(p, g)
      <4>1. net[e] \in Seq(Msgs) /\ Path(o, u, g, net[e], a, l)
        BY <3>3
      <4>. HIDE DEF o, u
      <4>2. /\ InFlight(e, g, {"DATA", "EXTENDED"}) + a.data + a.ext = l.data + l.ext
            /\ InFlight(e, g, {"ADJUST"}) + a.adj = l.adj
            /\ InFlight(e, g, {"DATA", "EXTENDED"}) \in Nat /\ InFlight(e, g, {"ADJUST"}) \in Nat
        BY <4>1, InFlightOnPath
      <4>. QED BY <4>2
    <3>6. d = c.rwin + s + t
      BY <2>2 DEF g, p
    <3>. HIDE DEF s, t
    <3>7. c.rwin + b.data + b.ext = PeerW0(z) + a.adj
      BY <2>2, <3>1 DEF Own, Stage, OpenOK, WinOK
    <3>8. /\ W0(y) + l.adj <= r.lwin + k.data + k.ext
          /\ r.efd \/ ~SesClient(y) => W0(y) + l.adj = r.lwin + k.data + k.ext
      BY <2>2, <3>2 DEF Own, Stage, OpenOK, WinOK
    <3>9. W0(y) = PeerW0(z) /\ W0(y) \in Nat
      BY <3>3, MatesRoles, WindowIsNat
    <3>10. Usage(r) # "write" => ~SesClient(y)
      <4>1. r.kind = y.kind /\ r.end = y.end
        BY <3>2, FreeIsNoChan DEF Own, Belongs
      <4>. QED BY <4>1 DEF Usage, IsSession, SesClient
    <3>11. /\ c.rwin \in Nat /\ r.lwin \in Nat /\ a.adj \in Nat /\ l.adj \in Nat
           /\ b.data \in Nat /\ b.ext \in Nat /\ k.data \in Nat /\ k.ext \in Nat
      BY <3>1, <3>2, <3>3 DEF Chans, Places
    <3>12. d <= r.lwin
      BY <3>4, <3>5, <3>6, <3>7, <3>8, <3>9, <3>11
    <3>13. W0(y) + l.adj = r.lwin + k.data + k.ext => d = r.lwin
      <4>1. d + k.data + k.ext = W0(y) + l.adj
        BY <3>4, <3>5, <3>6, <3>7, <3>9, <3>11
      <4>2. d \in Nat
        BY <3>4, <3>5, <3>6, <3>11
      <4>. QED BY <3>11, <4>1, <4>2
    <3>. QED BY <3>8, <3>10, <3>12, <3>13
  <2>. QED BY <2>2 DEF WindowsAgree
<1>2. CInv => WindowsAgree
  BY <1>1
<1>. QED BY <1>2, ChannelsHold, PTL
=============================================================================
