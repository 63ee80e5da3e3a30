----------------------------- MODULE IpcBridge -----------------------------
(***************************************************************************)
(* The local socket between woterm and the ssh it has started, and what    *)
(* goes over it: calls of ssh (FunArgReader cuts them out of the bytes     *)
(* that have arrived) and the terminal's size.  Three threads of control:  *)
(* woterm's event loop (QWoSshProcess), ssh's main thread, and the thread  *)
(* in ssh that reads the socket (read_cb).  After ssh has ended it may be  *)
(* started again.                                                          *)
(***************************************************************************)
EXTENDS Integers, Sequences

CONSTANTS
  IntSize,      \* sizeof(int)
  BodyLen,      \* BodyLen[c]: the length field of call c
  Sizes,        \* the <<columns, lines>> the terminal may have
  FirstSize,    \* win_width and win_height of a fresh ssh (80, 24)
  MaxResize,    \* bound: how often the terminal's size changes
  MaxAsk,       \* bound: how often one ssh asks for a password
  MaxStarts     \* bound: how often ssh is started

Calls == {"requestpassword", "updatepassword", "successToLogin", "getwinsize"}

ASSUME IpcAssumption ==
  /\ IntSize \in Nat \ {0} /\ BodyLen \in [Calls -> Nat \ {0}]
  /\ FirstSize \in Sizes /\ Sizes \subseteq Nat \X Nat
  /\ {MaxResize, MaxAsk} \subseteq Nat /\ MaxStarts \in Nat \ {0}

VARIABLES
  gen,       \* which start of ssh this is
  mpc,       \* ssh's main thread
  hdl,       \* ipc_hdl is set
  asked,     \* passwords this ssh has asked for
  win,       \* win_width and win_height
  rdw,       \* the width IpcBridgeGetTerminalSize has read
  flag,      \* received_window_change_signal
  open,      \* the channel has its tty
  remote,    \* the size the server was last told
  rpc, rsz,  \* ssh's reader thread, and the size it has received
  up, down,  \* calls on the way to woterm, sizes on the way to ssh
  pending,   \* a connection the server has not accepted
  m_ipc,     \* the ssh m_ipc is connected to, 0 for nullptr
  buf,       \* bytes of up that are in m_buf
  apc,       \* woterm's event loop: "idle", "next" (in onClientReadyRead), "aborted"
  queued,    \* an updateTermSize is queued
  size,      \* the size of the terminal
  font,      \* the font has changed it since updateTermSize last ran
  resizes    \* how often it has changed

sshv == <<mpc, hdl, asked, win, rdw, flag, open, remote>>
readerv == <<rpc, rsz>>
appv == <<m_ipc, buf, apc, queued, size, font, resizes>>
ipcVars == <<gen, sshv, readerv, up, down, pending, appv>>

IpcInit ==
  /\ gen = 1 /\ mpc = "start" /\ hdl = FALSE /\ asked = 0 /\ win = FirstSize /\ rdw = 0 /\ flag = FALSE
  /\ open = FALSE /\ remote = FirstSize /\ rpc = "recv" /\ rsz = FirstSize
  /\ up = <<>> /\ down = <<>> /\ pending = FALSE
  /\ m_ipc = 0 /\ buf = 0 /\ apc = "idle" /\ queued = FALSE
  /\ size = FirstSize /\ font = FALSE /\ resizes = 0

-----------------------------------------------------------------------------
(* woterm: FunArgReader, FunArgWriter, QWoSshProcess *)

FrameLen(c) == IntSize + BodyLen[c]
Bytes(q) == LET sum[i \in 0..Len(q)] == IF i = 0 THEN 0 ELSE sum[i - 1] + FrameLen(q[i])
            IN sum[Len(q)]

\* updateTermSize and FunArgWriter::write: the size as it is now, to the ssh
\* m_ipc is connected to; what is written to one that has gone is lost.
UpdateTermSize ==
  /\ down' = IF m_ipc = gen /\ mpc # "dead" THEN Append(down, size) ELSE down
  /\ font' = FALSE

\* The size changes: eventFilter queues the update for a QEvent::Resize of the
\* widget, but a new font (triggerPropertyCheck) alters the columns and lines
\* of a widget that keeps its size, and nobody is told.
Resize ==
  /\ apc = "idle" /\ resizes < MaxResize /\ resizes' = resizes + 1
  /\ size' \in Sizes \ {size}
  /\ \/ queued' = TRUE /\ font' = font
     \/ queued' = queued /\ font' = TRUE
  /\ UNCHANGED <<gen, sshv, readerv, up, down, pending, m_ipc, buf, apc>>

OnQueuedUpdate ==
  /\ apc = "idle" /\ queued /\ queued' = FALSE /\ UpdateTermSize
  /\ UNCHANGED <<gen, sshv, readerv, up, pending, m_ipc, buf, apc, size, resizes>>

OnNewConnection ==
  /\ apc = "idle" /\ pending /\ pending' = FALSE /\ m_ipc' = gen /\ buf' = 0
  /\ UNCHANGED <<gen, sshv, readerv, up, down, apc, queued, size, font, resizes>>

OnClientDisconnected ==
  /\ apc = "idle" /\ m_ipc # 0 /\ (m_ipc # gen \/ mpc = "dead") /\ m_ipc' = 0
  /\ UNCHANGED <<gen, sshv, readerv, up, down, pending, buf, apc, queued, size, font, resizes>>

\* readAll: what has arrived, cut anywhere, since the socket is a byte stream
OnClientReadyRead ==
  /\ apc = "idle" /\ m_ipc = gen /\ buf < Bytes(up)
  /\ buf' \in (buf + 1)..Bytes(up)
  /\ apc' = "next"
  /\ UNCHANGED <<gen, sshv, readerv, up, down, pending, m_ipc, queued, size, font, resizes>>

\* One turn of onClientReadyRead's loop.  next() compares the bytes it has
\* with the length field alone, not with the frame; and it reads that field
\* when fewer than IntSize bytes are there, whose missing bytes may then make
\* it negative.
Decoded == buf >= FrameLen(Head(up))
Waits == buf < BodyLen[Head(up)]
Aborts == \/ buf < IntSize
          \/ ~Waits /\ ~Decoded
\* m_buf.remove
BodyOnly(c) == BodyLen[c]
Removed(c) == FrameLen(c)
TakeNext ==
  /\ apc = "next"
  /\ \/ buf = 0 /\ apc' = "idle" /\ UNCHANGED <<up, down, buf, font>>
     \/ buf > 0 /\ Waits /\ apc' = "idle" /\ UNCHANGED <<up, down, buf, font>>
     \/ buf > 0 /\ Aborts /\ apc' = "aborted" /\ UNCHANGED <<up, down, buf, font>>
     \/ /\ buf > 0 /\ Decoded /\ up' = Tail(up) /\ buf' = buf - Removed(Head(up))
        /\ IF Head(up) = "getwinsize" THEN UpdateTermSize ELSE UNCHANGED <<down, font>>
        /\ UNCHANGED apc
  /\ UNCHANGED <<gen, sshv, readerv, pending, m_ipc, queued, size, resizes>>

-----------------------------------------------------------------------------
(* ssh, main thread: main, client_loop, IpcBridge* *)

\* ipc_call, which every caller leaves out when there is no handle
IpcCall(c) == up' = IF hdl THEN Append(up, c) ELSE up

\* ipc_connect, which may fail
IpcBridgeStart ==
  /\ mpc = "start" /\ hdl' \in BOOLEAN /\ pending' = hdl' /\ mpc' = "login"
  /\ UNCHANGED <<gen, asked, win, rdw, flag, open, remote, readerv, up, down, appv>>

\* read_passphrase and userauth_passwd: the prompt, then what was entered
AskPassword ==
  /\ mpc = "login" /\ asked < MaxAsk /\ asked' = asked + 1
  /\ up' = IF hdl THEN up \o <<"requestpassword", "updatepassword">> ELSE up
  /\ UNCHANGED <<gen, mpc, hdl, win, rdw, flag, open, remote, readerv, down, pending, appv>>

\* ssh_login has returned; client_loop installs the signal handler
EnterClientLoop ==
  /\ mpc = "login" /\ IpcCall("successToLogin") /\ mpc' = "loop"
  /\ UNCHANGED <<gen, hdl, asked, win, rdw, flag, open, remote, readerv, down, pending, appv>>

\* IpcBridgeGetTerminalSize: width, height, then the call.  Without a handle the
\* size is asked of standard input, which is a pipe: the ioctl fails.
ReadWidth == rdw' = win[1]
TellRemote ==
  /\ remote' = IF hdl THEN <<rdw, win[2]>> ELSE <<0, 0>>
  /\ IpcCall("getwinsize") /\ mpc' = "loop"
  /\ UNCHANGED <<gen, hdl, asked, win, rdw, flag, readerv, down, pending, appv>>

\* client_session2_setup, once the channel is open
RequestPty ==
  /\ mpc = "loop" /\ ~open /\ ReadWidth /\ mpc' = "pty"
  /\ UNCHANGED <<gen, hdl, asked, win, flag, open, remote, readerv, up, down, pending, appv>>
SendPtyReq == mpc = "pty" /\ open' = TRUE /\ TellRemote

\* client_check_window_change: the flag is cleared before the size is read.
CheckWindowChange ==
  /\ mpc = "loop" /\ flag /\ flag' = FALSE
  /\ IF open THEN ReadWidth /\ mpc' = "change" ELSE UNCHANGED <<rdw, mpc>>
  /\ UNCHANGED <<gen, hdl, asked, win, open, remote, readerv, up, down, pending, appv>>
SendWindowChange == mpc = "change" /\ TellRemote /\ UNCHANGED open

\* At any time: by itself, or by the SIGINT that the reader thread raises when
\* woterm is gone and recv fails.
SshExits ==
  /\ mpc # "dead" /\ mpc' = "dead" /\ rpc' = "recv" /\ down' = <<>>
  /\ UNCHANGED <<gen, hdl, asked, win, rdw, flag, open, remote, rsz, up, pending, appv>>

\* onSessionReconnect: a new process, with new statics and a new socket
Reconnect ==
  /\ mpc = "dead" /\ gen < MaxStarts /\ apc = "idle" /\ gen' = gen + 1 /\ mpc' = "start"
  /\ hdl' = FALSE /\ asked' = 0 /\ win' = FirstSize /\ flag' = FALSE /\ open' = FALSE
  /\ up' = <<>> /\ pending' = FALSE
  /\ UNCHANGED <<rdw, remote, readerv, down, appv>>

-----------------------------------------------------------------------------
(* ssh, reader thread: read_cb and MyIpcCallBack *)

WidthDiffers(s) == s[1] # win[1]
AlwaysDiffers(s) == TRUE
Differs(s) == s[1] # win[1] \/ win[2] # s[2]

Recv ==
  /\ rpc = "recv" /\ mpc # "dead" /\ down # <<>>
  /\ down' = Tail(down) /\ rsz' = Head(down)
  /\ rpc' = IF Differs(Head(down)) THEN "width" ELSE "recv"
  /\ UNCHANGED <<gen, sshv, up, pending, appv>>

SetSize ==
  /\ \/ rpc = "width" /\ win' = <<rsz[1], win[2]>> /\ rpc' = "height"
     \/ rpc = "height" /\ win' = <<win[1], rsz[2]>> /\ rpc' = "raise"
  /\ UNCHANGED <<gen, mpc, hdl, asked, rdw, flag, open, remote, rsz, up, down, pending, appv>>

\* raise(SIGWINCH): ignored until client_loop has installed its handler
Raise ==
  /\ rpc = "raise" /\ rpc' = "recv"
  /\ flag' = (flag \/ mpc \in {"loop", "pty", "change"})
  /\ UNCHANGED <<gen, mpc, hdl, asked, win, rdw, open, remote, rsz, up, down, pending, appv>>

-----------------------------------------------------------------------------
AppStep == OnQueuedUpdate \/ OnNewConnection \/ OnClientDisconnected \/ OnClientReadyRead \/ TakeNext
MainStep == \/ IpcBridgeStart \/ AskPassword \/ EnterClientLoop \/ RequestPty \/ SendPtyReq
            \/ CheckWindowChange \/ SendWindowChange
ReaderStep == Recv \/ SetSize \/ Raise

IpcNext == Resize \/ AppStep \/ MainStep \/ ReaderStep \/ SshExits \/ Reconnect
IpcSpec == IpcInit /\ [][IpcNext]_ipcVars
\* The event loop and the reader thread run whenever they have work; nothing is
\* assumed of ssh's main thread, which sleeps in select.
FairIpc == IpcSpec /\ WF_ipcVars(AppStep) /\ WF_ipcVars(ReaderStep)

-----------------------------------------------------------------------------
(* Properties *)

\* The values the variables of the three threads may take.
IpcTypeOK ==
  /\ gen \in 1..MaxStarts /\ asked \in 0..MaxAsk /\ resizes \in 0..MaxResize
  /\ mpc \in {"start", "login", "loop", "pty", "change", "dead"}
  /\ rpc \in {"recv", "width", "height", "raise"} /\ apc \in {"idle", "next", "aborted"}
  /\ {size, rsz} \subseteq Sizes /\ win \in Nat \X Nat /\ remote \in Nat \X Nat /\ rdw \in Nat
  /\ {hdl, flag, open, pending, queued, font} \subseteq BOOLEAN
  /\ up \in Seq(Calls) /\ down \in Seq(Sizes) /\ m_ipc \in 0..gen
  /\ buf \in Nat /\ (m_ipc = gen => buf <= Bytes(up))

\* The remote end has the size of the terminal whenever nothing is under way,
\* in whatever order the resizes, the connection, the torn reads of
\* win_width and win_height, the signal and the pty request came.  Excepted is
\* what the code cannot know: an ssh that could not connect to woterm, and a
\* font that has changed the size since updateTermSize last ran.
Quiet == /\ apc = "idle" /\ ~queued /\ ~pending /\ up = <<>> /\ down = <<>>
         /\ rpc = "recv" /\ mpc = "loop" /\ open /\ ~flag
SizeAgreesWhenQuiet == Quiet /\ hdl /\ ~font => remote = size

\* getwinsize is answered by setwinsize, which may raise SIGWINCH, which calls
\* getwinsize: once the terminal keeps its size the exchange comes to an end,
\* unless woterm has ended itself in FunArgReader::next, which takes a call whose
\* last bytes have not arrived for a lack of memory.
ExchangeEnds ==
  <>[](\/ apc = "aborted"
       \/ apc = "idle" /\ ~queued /\ down = <<>> /\ (m_ipc = gen => up = <<>>))
=============================================================================
