# A TLA+ model of woterm

woterm is a terminal emulator and session manager. Its window program is
`src/woterm/woterm` (Qt). A terminal runs a patched OpenSSH client
(`src/openssh/openssh`, with the additions `ipcbridge.c` and `localsocket.c`)
as a child process, talks to it over a local socket, and transfers files by
attaching the ZMODEM programs `lsz` and `lrz` (`src/lszrz`) to the terminal's
byte stream. This directory models the parts that carry the program's own
logic, and the channels and packets of the OpenSSH it ships, model-checks them
with TLC and proves the central properties with TLAPS.

## Inventory

| Part | State it keeps | Operations | Interacts with |
|---|---|---|---|
| ZMODEM framing (`zm.c`, `zreadline.c`, `canit.c`, `rbsb.c`) | read-ahead buffer, CRC mode, escape table | read a header, read a data block, send both, cancel, purge | the pipes to the parent |
| ZMODEM receiver (`lrz.c`) | position in tryz/rzfile, counters, open file, saved out-of-sync blocks, attention string | negotiate, open, receive, acknowledge, clean up | framing, file system |
| ZMODEM sender (`lsz.c`) | file list position, counters, stream position, ZDATA position | negotiate, offer, stream, resynchronise, end | framing, file system |
| IPC bridge (`ipchelper.cpp`, `ipcbridge.c`, `localsocket.c`) | a partly read message, terminal size on both sides | frame and unframe calls; `ping`, `getwinsize`, `setwinsize`, `requestpassword`, `updatepassword`, `successToLogin` | session, ssh |
| Session process (`qwoprocess.cpp`, `qwosshprocess.cpp`) | child process, its pipes, the ZMODEM child, prompt spy, keep-alive, history countdown | start, read, write, attach/detach/abort ZMODEM, time out, finish | terminal widget, IPC, lsz/lrz |
| Terminal widget and splitters (`qwotermwidget.cpp`, `qwotermwidgetimpl.cpp`) | process, password dialog, splitter tree | split, join, close, reconnect, ask password | session, tabs |
| Tabs (`qwoshower.cpp`, `qwosessionlist.cpp`, `qwomainwindow.cpp`) | tab bar, session list | open, select, close one, close others | terminal widget, host list |
| Script engine (`qwoscriptmaster.cpp`, `qwoscript.cpp`, `qwoshellcommand.cpp`, `qwoshellprocess.cpp`, `qwocmdspy.cpp`, `qwolocalcommand.cpp`) | script files, running shell process, prompt detection, zmodem child | login, run, sudo, su, upload, download, stop | ssh, lsz/lrz |
| Host configuration (`qwosshconf.cpp`, `qwohostlistmodel.cpp`, `qwoutils.cpp`) | the list of hosts, the config file | parse, write, modify, append, remove, set password | every dialog |
| Command history (`qwocommandhistorymodel.cpp`) | a bounded list without duplicates, its file | add, remove, save, reload | session |
| SSH channels (`channels.c`, `nchan.c`, `serverloop.c`, `session.c`, `clientloop.c`) | per channel: two half-close states, three buffers, two windows, flags; the array of places | open, send, receive, adjust, EOF, CLOSE, collect | packet layer, programs, children |
| SSH packets and key exchange (`packet.c`, `kex.c`, `kexc25519?.c`, `dispatch.c`) | keys and counters of both directions, the queue, the state of the exchange | send, read, start an exchange, its four messages | channels, the network |
| Forms and dialogs, settings, version check, resources | widgets | user interface | |
| The rest of OpenSSH, qtermwidget, linenoise, RC4 | vendored | | |

What is hard: two programs at the ends of a line that loses and delays; a child
process, a socket and a timer whose callbacks arrive in any order; modal dialogs
that let the event loop run between a check and its use; files rewritten in
place; counters at their limits. `PROJECT.json` lists the hazards one by one,
each at its line.

What makes each part correct: a transferred file is the file (ZMODEM); a call is
delivered once, whole and in order, and the remote terminal finally has the
size the window has (IPC); a ZMODEM child never outlives its session and the
terminal gets its bytes back (session); no tab or pane refers to a widget that
is gone (tabs, splitters); a script step ends in the state its script expects
(script engine); the file holds what was last saved (configuration, history); a
channel delivers every byte before it says EOF and goes away when it is done
(channels); a change of keys loses, reorders and misreads nothing (packets).

## The modules

| Module | Models | Extends |
|---|---|---|
| `ZLine` | the line between two ZMODEM programs: what `zgethdr` and `zrdata` can return, the faults | |
| `Lrz` | the receiver `lrz.c` | `ZLine` |
| `LrzOpen`, `MCLrzOpen` | lrz against every honest sender; its properties | `Lrz` |
| `Lsz` | the sender `lsz.c` | `ZLine` |
| `LszOpen`, `MCLszOpen` | lsz against every receiver; its properties | `Lsz` |
| `ZTransfer`, `MCZTransfer` | lsz and lrz at the two ends of one line | `Lsz`, `Lrz` |
| `FileTransfer` | the abstract transfer `ZTransfer` implements on a quiet line | |
| `IpcBridge`, `MCIpcBridge` | the local socket, woterm's event loop and the two threads of ssh | |
| `ScriptShell`, `MCScriptShell` | a script that drives remote shells | |
| `SshSession`, `MCSshSession` | a terminal session with its nested event loops and the lsz or lrz attached to it | |
| `History`, `MCHistory` | the command history of a host, shared by sessions and windows | |
| `Channel` | the channels of one ssh connection, both ends | |
| `ChannelProps`, `MCChannel` | what the channels promise | `Channel` |
| `Transport`, `MCTransport` | packets and the change of keys, both ends | |
| `Pipe` | the abstract line `Transport` implements | |
| `LrzOpenProofs` | lemmas and theorems about the receiver | `LrzOpen` |
| `LszOpenProofs` | lemmas and theorems about the sender | `LszOpen` |
| `HistoryProofs` | lemmas and theorems about the history | `History` |
| `ChannelProofs` | lemmas and theorems about the channels | `ChannelProps` |
| `TransportProofs` | lemmas and theorems about packets and the change of keys | `Transport` |
| `SshSessionProofs` | lemmas and theorems about the session | `SshSession` |
| `IpcBridgeProofs` | lemmas and theorems about the bridge | `IpcBridge` |
| `ScriptShellProofs` | lemmas and theorems about the script engine | `ScriptShell` |

### ZLine

An item on the line is what the two programs read at once: a header, a data
subpacket, five CANs, the final `OO`, or junk. `s2r` and `r2s` are the two
directions. `ZGetHdr(q, eof)` and `ZRData(q, eof)` are the sets of outcomes of
`zgethdr` and `zrdata`: what they return, the position they find in the header,
and what is left unread. A header is looked for past junk and past subpackets;
at the end of a closed line both return an error at once. The line may damage
an item (its CRC then fails), swallow one, or go away. Items carry the file and
the offset their bytes come from; the programs never look at these, the
properties do. Bytes, ZDLE escapes and CRCs are not modelled.

### Lrz

`rpc` is the place in the code where lrz next reads or answers: the two waits of
`tryz`, `procheader`, the waits of `rzfile` (a header, data to be thrown away, data
out of sync, data in sync), `ackbibi`, and the ends. Each action runs from one
place to the next and includes the clean-up of `wcreceive` (`Fubar`: close and
unlink). `anker` is the list of saved out-of-sync blocks, `disk[f]` what was
passed to `putsec` since it was last opened, from the offset `start[f]` on, `rstat[f]`
what became of the file. `Retry`, `EofHere`, `DataHere` and `Protected` are the
conditions the properties turn on. woterm gives lrz no options, and so the flags of the
sender's ZFILE header alone decide what becomes of a file that is there (`zmanag`,
`Requests`): it is protected when they ask for nothing, and overwritten, appended to or
resumed (`Kept`: whole blocks, nothing of a file longer than the new one) when they ask
for that. `Fubar` also closes `fout` a second time when it is stale, which may end the
program between its cancel sequences and the unlink.

### Lsz

`spc` is the place: `getnak`, `getzrxinit`, `sendzsinit`, `zsendfile`,
`zsendfdata`, `getinsync`, `saybibi` and the walk of `wcsend` over its arguments.
`calc_blklen` is a free choice from `BlkLens`. Unreadable files and directories
are passed over as in `wcs`. The window branches are left out: no option sets
`Txwindow`, and `junkcount` is never incremented. `AfterEof` is the static `c` that
`zsendfdata` returns for a ZSKIP after ZEOF: 0, or what an earlier wait left in it.

### LrzOpen, LszOpen, ZTransfer

In `LrzOpen` the sender is any program that labels its data truthfully: it starts
frames at any offset, cuts blocks of any length, repeats, interleaves other
headers, cancels. It asks for the same of every file (`Asks`; the options of `sz` hold
for a batch) and does not move on before a file is settled. In `LszOpen` the
receiver sends any header at any time. `ZTransfer` puts the two programs of this
repository together, a writer blocking while its pipe is full. Its refinement
mapping to `FileTransfer` takes `disk` for the store and what lsz reports for the
report; the abstract specification says that files are stored in order, a file
under way holds an initial piece, and a file reported sent is stored completely.

### IpcBridge

Three threads: woterm's event loop (`OnNewConnection`, `OnClientReadyRead`,
`TakeNext`, `OnQueuedUpdate`, `Resize`, `OnClientDisconnected`, `Reconnect`), the
main thread of ssh (`IpcBridgeStart`, `AskPassword`, `EnterClientLoop`, the pty
request and the window change, each split where another thread can come between
two reads), and the reader thread of ssh (`Recv`, `SetSize`, `Raise`). `Resize` is any
change of the terminal's columns and lines: a `QEvent::Resize`, which queues
`updateTermSize`, or a new font, which does not (`font` remembers it). `ipc_connect` may
fail (`hdl`); ssh then leaves every call out and asks a pipe for the size. Calls reach
woterm in pieces of any length; `FrameLen`, `Waits`, `Decoded`, `Aborts` and
`Removed` are the arithmetic of `FunArgReader::next`. The Unix side only.

### ScriptShell

The script's thread is in the script, in the event loop of a `wait`, or in the
`sleep` after a transfer (`tpc`). `step` is the line the shell at hand was last
sent, `Follows` what the operations of `QWoShellProcess` do when the wait for it
returns, `NextShell` and `Conclude` the loops of `QWoShellCommand` over its
shells. The handlers are actions of their own and may run between `exit()` and
the return of `exec()`. The remote shells (`sh`) are external: they read lines in
order, answer each with a prompt, may take for ever, may ask for a password, and
`echo $?` answers with the status of the last command. `ShellMisleads` is what
`extractExitCode` makes of a line typed ahead: it takes the line after any line that ends
in `echo $?`, so that after a late prompt a line a program prints can be read as the
status; the shell is then `astray`. `drained` are the shells whose spy `output()` has
emptied: more output for one that is not waited for is written into an empty list
(a crash). sudo is su here: the code is the same.

### SshSession

Qt runs everything in one thread, but `checkShellProgram`, the file dialogs and the
message boxes open event loops in which any other handler can run. `stack` holds
these loops, the innermost last; a handler outside them is one step. `zm`, `spy` and
`loop` are the pointers `m_zmodem` (a QPointer, null once its object is deleted),
`m_spy` and `m_eventLoop`; `obj` is the life of each QProcess of `createZmodem`.
`posted` is Qt's queue: `deleteLater` and the queued calls of `eventFilter`.
`Due` is Qt's rule that a deferred deletion waits for the loop it was requested in,
`Deleted` what the destructor of a running QProcess does. `SshExits`, `MaskCloses` and
`Reconnect` are `QWoTermWidget`'s. `CloseAndDelete` takes the splitter and the
`QWoSshProcess` in it along when the widget is the only one; in a split view only the
widget goes, and the process is an `"orphan"` with a null `m_term` until the last pane
closes (`LastPaneCloses`); whatever writes to its ssh (`OrphanWrites`, a transfer that
ends, an abort) then crashes in `checkCommand`. `crashed` is the use of a null or
dangling pointer, `tangled` remembers that a transfer or a probe began inside a probe, or that the session was
closed inside a nested loop.

### History

Each window is a process with one list per host, which its sessions share; the file
is shared by all. `Added` is `_add`: it makes room first, then looks for the command,
and refuses to move the last entry. `Reload` is one turn of the loop of `reload`, so
that other windows can act during it; `BeginSave` and `EndSave` are the two halves of
`save`, between which the file is empty, another window may write it, and
`CrashHistory` may come. Opening the file may fail and the write may be short; `save`
looks at neither (`unsaved`). The uninitialized `m_historyLeftSaveCount` starts with
any value up to `MaxLeft`; a negative one acts as 0.

### Channel

Each end has an array of places. A channel is a record with the fields of `Channel`
that steer it: `istate`, `ostate`, the flags, the lengths of the three buffers, the two
windows and `local_consumed`. The functions of `nchan.c` and `channels.c` are operators
from a state of the channel to the next (to a set of them where a read or a write may
take any amount) that collect the packets they send. `Pre`, `Post` and `Poll` are the
three passes of the select loop for one channel, each with the
`channel_garbage_collect` that follows, `Receive` a packet, `CollectChildren` the exit
of a child: `session_exit_message` sends `exit-status`, or `exit-signal` for a child that
a signal killed, which the client does not know and ignores. `io` is what is behind the
descriptors: what was written, read and closed, by programs of which nothing is assumed
(external). A `plan` says which
channels are opened, by whom, and how much the programs write: a terminal, a command
with its standard error, a forwarded connection.

### Transport and Pipe

Each end is one record: `rekeying`, `done`, KEX_INIT_SENT, the cookies, the keys and
counters of both directions, the queue and the messages that have a handler. A key is
the pair of cookies it was derived from, so that two different exchanges never yield
one key and both ends agree exactly when they saw the same two KEXINITs. A session
packet carries a number. Every wish for new keys that the code knows is there: the
count of packets and of blocks in each direction (with the bytes `ROUNDUP` adds; a packet
is one block long, so one counter stands for both), the interval
(`Late`) and the user (`Manual`). `Pipe` is a queue for each sender from which the
other takes in order and in the end; the mapping takes the session packets on the
connection followed by those in the queue for the pipe.

## The runs

| Run | Instance | Distinct states | Shows |
|---|---|---|---|
| `LrzBatch` | three files, one existing, one that cannot be closed; a sender that asks for nothing; 7 items | 1,142,906 | the inductive invariant `IInv`; `WrittenInPlace`, `ClosedInFull`, `ExistingIsKept` |
| `LrzFile` | a file that is resumed, one that cannot be created; a fault, a hang-up; 5 items | 1,259,923 | `ReceivedIsPrefix`, `StopsAfterHangup` |
| `LszOpen` | four arguments, one unreadable, one a directory; 7 answers | 193,290 | `StreamIsHonest`, `StopsAfterHangup` |
| `ZQuiet` | three files, one refused; the constants of the code | 1,020 | `SessionCompletes`, `ImplementsTransfer` |
| `ZSafe` | two files, one fault and a hang-up; the constants of the code | 426,988 | `SentIsReceived` |
| `Ipc` | two starts of ssh, two changes of size, one password | 355,528 | `SizeAgreesWhenQuiet`, `ExchangeEnds` |
| `Script` | two hosts, a login and two more calls, one transfer, one trouble | 1,023,944 | `OkIsEarned`, `AllHostsOrNone`, `FailureIsReported`, `CallEnds` |
| `Session` | five transfers, three pieces of output, three choices | 222,809 | `CrashesOnlyTangled`, `OneTransfer`, `TerminalComesBack`, `HandlersReturn` |
| `History` | two windows, two sessions each, three commands, a bound of three, five acts | 405,875 | `HistoryBounded`, `RestartKeeps`, `CommandIsSaved` |
| `Channel` | plans over two places, a window of two bytes | 844,021 | `ReachesItsChannel`, `WindowsAgree`, `CompleteAtEof`, `StatusBeforeClose` |
| `ChannelEnds` | plans over one place | 125,491 | `EndsWhenDone` |
| `Transport` | three packets each way, a limit of two packets and two blocks, two further wishes | 44,058 | `ReadsWithItsKey`, `ExchangesInStep`, `ImplementsPipe`, `RekeyEnds` |

Each property has a mutant in `PROJECT.json`: a plausible error in the code under
which the run finds the property violated.

**Bounds.** File sizes of 0 to 4 bytes with blocks of 1 or 2 give empty files,
files of one and of several blocks, blocks that end before and at the end of the
file, and offsets before, at and after the receiver's. Error limits are scaled
down where the environment is arbitrary (`LrzBatch`, `LrzFile`, `LszOpen`), so that
the counters run out within the bound; they are the code's where both programs
are real. `Room` and `Pipe` let a program be ahead by two and four items, which
is enough for an answer to be overtaken. `MaxSent = 7` is the shortest stream in
which a block is saved in one file and taken in the next. In `Ipc` the lengths
are scaled so that a frame is both longer and shorter than its length field, and
three sizes differ in one and in both coordinates. In `Script` a stale prompt
needs a transfer and a call after it, which three calls allow; one trouble is a stop, the
end of an ssh, a full screen program or misleading output. `Session` allows a fifth object so that a transfer can always be begun within
the bounds on choices and output; three choices suffice for a probe, a transfer that
begins inside it and an abort or a reconnection. In `History` the bound of three is
reached by three commands, the next one pushes one out, five acts allow a restart after
that many commands were saved, and the file can be a mixture of two lists. In `Channel` the window is smaller than what one program writes, so that it
has to be given back, and two connections share two places with one of them used
again. In `Transport` a limit of two blocks makes the first packet of each end ask for
new keys, so that exchanges begin on both sides at once, in the middle of one
another's and one after the other. `CHECK_DEADLOCK FALSE` is said where the programs may really stop: after
the last exit, or in a blocking read with nobody to write. `ZQuiet` checks for
deadlock.

**Fairness.** A program that can take a step takes one (weak fairness of
`LrzNext`, `LszNext`); nothing is assumed of the line, of the remote program or
of faults, except that in `LszOpen` the pipe is drained (`Absorb`): a write that
blocks for ever is not lsz's to end. A hang-up makes every read return, so the programs are then never
blocked. In `IpcBridge` the event loop and the reader thread are fair, being
driven by `select` and a blocking `recv`; ssh's main thread and the exit of ssh
are not. In `ScriptShell` the thread's returns and its timer are fair; shells,
ssh, transfer programs and the user are not. In `SshSession` the event loop and its
timers are fair, the user answers a dialog, and a transfer whose connection is not
cut ends (a cut one need not: it waits for the diverted bytes). In `History` each window's loop and
timers are fair. In `Channel` each process goes round its select loop and the network
delivers; nothing is assumed of the programs except that they read. In `Transport`
each end reads what has arrived; nobody has to send.

Some exceptions are part of the properties: `StopsAfterHangup` leaves out a
receiver in the pause of `zmputs` and a sender in `getnak`, both of which the
code lets wait for ever. `OkIsEarned` leaves out a shell on which a download went
on without the answer to its `echo $?`: without this exception the property fails
within five calls, since that answer can be taken for the status of a later
command. It also leaves out a shell on which `echo $?` was typed ahead and a line of a
program's output was taken for the status; there, too, the code reports a false success.
`SizeAgreesWhenQuiet` leaves out an ssh that is not connected to woterm, and a new font
until the size is sent again. `ExchangeEnds` leaves out a woterm that ended itself over a call in two pieces.
`EndsWhenDone` leaves out a client whose standard error was closed: what arrives for
it is neither consumed nor dropped, and the server may wait for that window.
`CrashesOnlyTangled` and `OneTransfer` leave out the sessions that are tangled,
`CrashesOnlyTangled` also the orphan of a split view, and `TerminalComesBack` a program that could not be started and an ssh that ended during
the transfer; without these exceptions the code violates them. `CommandIsSaved`
leaves out a session that ends before its save is due, and a save that fails.
`ExistingIsKept` speaks of senders that ask for nothing.

## The proofs

About `LrzOpen`, for every number and size of files, every block length, every
limit, every number of faults and items, from the assumptions `BatchAssumption`,
`FaultAssumption`, `ReceiverAssumption` and `OpenAssumption` (the constants are
natural numbers and sets of files), all evaluated by TLC in the runs:

- `TypeCorrect`: the types.
- `ReceiverInvariant`: `IInv`, the conjunction of `LrzTypeOK`, `StreamInv`, `FileInv`
  and `RequestInv`, is an invariant, whatever the sender asks for.
- `WritesInPlace`: every byte lrz writes stands at the offset it has in the file
  it comes from, and a closed file has its full length.
- `ReceivesTheFile`: while no saved block outlives its file
  (`SavedBlocksAreOfThisFile`), what is written is a piece of the file from where it was
  opened or resumed on, and a closed file is complete from there. The condition is not idle: with two files the code breaks
  it.
- `ReceivesOneFile`: with one file the condition always holds.
- `ClosesAtFullLength`: a closed file has its full length, in every session.
- `KeepsExisting`: when the sender asks for nothing, a file the receiver already has is
  neither overwritten, appended to nor unlinked, also not by the clean-up.

`WrittenInPlace` alone is not inductive: lrz trusts the position in the last
ZDATA header and counts bytes from there, so whether the next byte is in place
depends on what is in flight. `StreamInv` says of the items on the line, read from
the place where lrz is, that subpackets continue the frame they are in and that
frames of later files come after those of earlier ones. `FileInv` ties the open
file to `bytes_received` and says what a saved block may be. `RequestInv` says that
`procheader` acts on what this sender asks for, that `bytes_skipped` is 0 unless it asks
to resume, and that nothing of a file the sender has left is on its way unless lrz will
refuse it, without which a file could be opened again behind the sender's back
(`RequestKept` and the lemmas beside it, `GoneTail`, `GoneAppend`). The lemmas `StreamTail`,
`StreamDamage`, `StreamAppend`, `StreamRaise`, `StreamNext`, `StreamHdrRead` and
`StreamDataRead` say how `Stream` fares when an item is read, damaged or
appended; with them there is one lemma for each group of actions (`IInvTryz`,
`IInvProcHeader`, `IInvNextHeader`, `IInvRzHdr`, `IInvSkipData`, `IInvOosbData`,
`IInvMoreData`, `IInvBibi`, `IInvSender`, `IInvLine`), and `DiskStep` for what a
step may do to the files. The module begins with what `ZGetHdr` and `ZRData` return.

About `LszOpen`, for every batch, block length, limit and number of answers, from
`BatchAssumption`, `SenderAssumption` and `AnswersAssumption`: `SenderInvariant`,
`SenderTypes` and `SendsHonestly`, the action property `StreamIsHonest`. A block is
labelled with the place where `input_f` stands, while headers speak of `bytes_sent`; so
`InFile` says that the two agree in `zsendfdata` and that `input_f` stands at 0 in
`zsendfile`, which is what makes the missing seek for a ZRPOS to 0 harmless. `After`
says of the last item on the line that it leaves a frame open only in the loop over
the blocks, and that the frame goes on where `input_f` stands. `SendsPlain` deals at once
with all the steps that send no data. This is what `LrzOpen` assumes of the blocks of its
sender, shown of the sender in this repository; that a sender does not move on before a
file is settled is not part of it.

About `History`, for any number of windows, sessions, commands and directories, any
bound and any delay, from `HistoryAssumption`: `HistoryInvariant`, `HistoryTypes`,
`HistoryStaysBounded` and `RestartKeepsHistory`. The invariant is `HistoryTypeOK` and
`HistoryBounded` together. The argument is that a list that is within the bound and
free of duplicates is turned into such a list by `_add` and by `removeRows`, whatever
entry is added; so it does not matter what the file holds, which is why nothing need be
said about it beyond its type. The lemmas about `MakeRoom`, `InsertFirst`, `MoveFirst`
and `Without` say this for the parts, and there is one lemma for each action. For
`RestartKeepsHistory` the invariant `ReloadInvariant` is added: in the middle of a
reload of a file without duplicates and within the bound, the list holds exactly the
commands of the lines already read (`Loaded`), so that neither `pop_back` nor the
refusal to move the last entry comes into play (`TurnLoads`).

About `Transport`, for any limit on the blocks of a key, any block size and any number of
session packets and wishes for new keys, from `TransportAssumption`:

- `TransportTypes`, `ReadWithItsKey`, `InStep`: the three invariants of the run.
- `IsAPipe`: `Spec => P!PipeSafe`, the safety part of the refinement of `Pipe`. The
  fairness of `Pipe` is checked by TLC (`ImplementsPipe`).

None of them is inductive: which key the next packet needs depends on every packet in
front of it. `TInvariant` (`TInv`) measures a direction of the connection by a place:
k exchanges, j messages of the next one, d session packets. Each end is at one of four
stations (`AtRest`, `Begun`, `Agreed`, `Switched`), from which one reads the place up to
which it has sent (`SentTo`) and the place up to which it has received (`ReadTo`); and
the packets on the connection are a `Path` from the second place of one end to the first
of the other, every packet carrying the key of the place it starts from. `PathOne`,
`PathData` and `PathJoin` build paths, and reading takes the first packet off one. Since
a path leads through the places one by one, an end can be at most one exchange ahead,
which is why the messages it meets are those it waits for. For the refinement the
queue of `Pipe` is the session packets among those on the connection (`DataOf`) and those
queued; what this recursive function yields along a path is proved by taking the least
length at which it would fail.

About `SshSession`, for any number of transfers, pieces of output and choices, from
`SessionAssumption`: `SessionInvariant`, `SessionTypes`, `PointersAreGood` and
`OneAtATime`. The types hold of every session. What a session that is not tangled
promises follows from `Calm`: there is at most one nested loop; in a probe `m_zmodem`
is null and the spy is there; in a dialog or box `m_zmodem` points to a process that
was not started; and at most one deletion is pending, of the object `m_zmodem` points
to, which waits for the outermost loop. It holds of an orphan as well, up to its crash
(`Safe`: a session that is not tangled crashes only as an orphan). The last part is what makes a dialog's return
safe: nothing it uses afterwards can have been deleted inside it.

About `IpcBridge`, for any number of resizes, passwords and starts of ssh and all
lengths of frames, from `IpcAssumption`: `IpcInvariant`, `IpcTypes` and `SizeAgrees`.
`SizeAgreesWhenQuiet` speaks of the state in which nothing is under way, so the invariant
`Reaches` says what may be under way instead: the last size on its way to ssh (`Latest`:
in the socket, in the reader thread's hands, or in `win_width` and `win_height`) is the
window's, or a font has changed that, or an update is queued or `getwinsize` on its way
to woterm; and as long as ssh is connected and
the reader thread is not writing and no signal is pending, what the main thread has
read and told the server is what stands there (`Told`). A torn read is thereby always
followed by a signal. `IpcTypes` needs that `m_buf` holds no more than was written:
`Bytes`, a sum over the calls on the way, is a recursive function, about which the
lemmas on `Sums` say what a call more or less changes.

About `ScriptShell`, for any number of hosts, processes, calls, transfers, ends of ssh
and stops, from `ScriptAssumption`: `ScriptInvariant`, `ScriptTypes`,
`OkIsAlwaysEarned`, `AllOrNone` and `FailuresAreReported`. The invariant `ScInv` says
where the call is and that the processes that live are those of `m_all` (`Placed`,
`Logged`), and of each shell what it may still have to say (`InHand`): at most one answer
to `echo $?` is to come, from the shell the thread waits for and after everything else
it was sent; the status it will report is 0 only if this call's command ran. A prompt
that comes late is not excluded: it may end a wait early, and then `echo $?` is typed
ahead; as long as no program's output follows its echo it is the shell that answers. The
shells in `astray`, for which this is not so, are left out, as in the property.
`DoneBefore` counts the shells a call for every host has been through.

About `Channel`, for any plan of channels (their number and kinds, who opens them, how much
the programs write), any number of places in the array, any window, packet size and
buffer size other than 0, from `ChannelAssumption`:

- `TypesHold`: the types, with every window between 0 and its maximum.
- `PacketsFindTheirChannel`, `WindowsAgreeHolds`, `EofIsComplete`, `StatusComesFirst`:
  the four invariants of the run.
- `ChannelsHold`: the inductive invariant `CInv` they follow from.

`ChannelAssumption` says that sessions are opened by the client, as they are in ssh, that
place 0 is in use, and that the amounts are natural numbers. None of the five is
inductive: whether a late packet finds its channel, or a byte its window, depends on all
that both ends have said and not yet heard. `CInv` therefore gives each direction of each
channel a place (`Places`: the number of packets, the bytes of data and of extended data,
the window given back, and which of EOF, CLOSE, exit status and so on were said), one up
to which the sender has spoken and one up to which the receiver has heard. `Ways` says
that the packets of the channel under way lead from the second place to the first
(`Path`), `Allowed` what may be said at a place: nothing before the channel is
confirmed, no data after EOF, nothing after CLOSE. `Reps` and `Mail` say that the arrays
and the addresses in the packets agree, so that a place is not used again while a packet
for it is under way. `Own` is the invariant of one side: how the record of the channel and
what is behind its descriptors follow from what was heard and said. It contains the
ledgers of the windows (`WinOK`), of the bytes (`InOK`, `OutOK`, `ErrOK`), what is known
of the child's exit (`SesOK`: the status, or for a killed child the signal) and the
conditions for saying EOF and CLOSE (`Honest`). `Own` knows of the other side only its
place in the array and what its program saw; therefore each function of `nchan.c` and
`channels.c` is shown to lead from `Own` to `Own` by itself, and the two sides meet only
in `Arrives`, which derives what a packet may find from the path it comes off, and in the
lemmas on `Moves`, which say that a step of one side preserves the invariant of the other.
`WindowsAgree` finally needs the sum over the packets under way, which the lemma
`InFlightOnPath` computes from the two places of a path.

`IInv` is also an invariant of the run `LrzBatch`. The proofs assume nothing but the
assumptions named, which the runs evaluate.

Only model-checked: liveness (the prover has no fairness), that is `StopsAfterHangup`,
`SessionCompletes`, `ExchangeEnds`, `CallEnds`, `TerminalComesBack`, `HandlersReturn`,
`CommandIsSaved`, `EndsWhenDone`, `RekeyEnds` and the fairness in `ImplementsPipe`; and
what is said of `ZTransfer`: the refinement of `FileTransfer`, which speaks of a quiet line
and contains fairness, and the action property `SentIsReceived`, which would need the
invariants of the two programs and of the line between them together. Every invariant of
the runs is a theorem.

## Seen while modelling, without a run

- `lrz.c:671`: the sender's flags alone decide whether an existing file is protected.
  `:343`: after a failed session the file is unlinked, also one that was there and was
  to be appended to or resumed. `:822`: `bytes_skipped` of a resumed file stays set for
  the next one that is not resumed. `:795`: a resumed file that is longer than the new one is
  opened without being cut, so its tail remains. `:340`: `fout` may be closed twice.
  `zmodem_requested` is never set.
- `lsz.c:1326`: a ZSKIP after ZEOF returns the static `c`.
- `qwotermwidget.cpp:347`: a new font changes the terminal's size and ssh is not told.
- `qwotermwidget.cpp:82`: in a split view the `QWoSshProcess` outlives its terminal.
- `qwoshellprocess.cpp:444`: any line after one that ends in `echo $?` is the status.
- `qwocmdspy.cpp:129`: after `output()` the list of lines is empty, and the next
  character is put into it.
- `clientloop.c:1736`: `exit-signal` is ignored, so the exit status of a killed program
  is -1.
- `qwocommandhistorymodel.cpp:130`: neither a failed open nor a short write is noticed.
- `lsz.c:1474`: a ZRPOS after the last block does not move the file back.
- `lsz.c:591`: `getnak` counts bytes as tries and can read for ever.
- `lrz.c:337`: the clean-up unlinks `Pathname` also when that file was already
  acknowledged.
- `lrz.c:1224`: an empty saved block is found again by each search of the list.
- `lrz.c:1389`: the result of `putsec` is not looked at.
- `qwoshellprocess.cpp:277`, `:301`: `m_eventLoop` is null for a shell that is not
  waiting; the states `crashed` of `ScriptShell` are these.
- `qwoshellprocess.cpp:152`, `:188`: a refused upload or download returns false
  with exit code 0, so `hasError` is false.
- `qwoshellprocess.cpp:297`: the exit code of lsz and lrz is not looked at.
- `lrz.c:1421`: `zmputs` advances `p` and tests `*s`, so a pause character in the
  attention string is a pause for ever; lsz's own string has one.
- `lrz.c:1191`: the list `anker` is not emptied at the end of a file, so a block of
  one file can be written into the next, at its own offset.
- `zreadline.c:50`: the alarm value is computed and no timer is armed; one damaged
  item can leave both programs reading.
- `lrz.c:1023`: the pending ZSKIP is reset after it was sent once; after a duplicate
  ZRINIT the second refusal is taken as the answer to the next file.
- `ipchelper.cpp:24`: a frame is `length + intsize` bytes long, and `next` waits for
  `length`: with the last bytes missing it ends in `qFatal`.
- `qwosshprocess.cpp:292`, `:217`: a probe that ends leaves `m_spy` null for a probe
  below it, which then uses it. `:424`: a transfer that began during a probe is
  replaced, and the dialog's return uses what may be gone.
- `qwotermwidget.cpp:134`: the session is deleted while a nested loop of its own runs.
- `qwosshprocess.cpp:551`: only `finished()` resets `m_zmodem`: a program that cannot be
  started, or an ssh that ends during a transfer and is reconnected, leaves the
  terminal without output until the user aborts. A ZRINIT that arrives after an abort
  opens the dialog again. `:498`: the keep-alive bytes also go into a transfer.
- `qwocommandhistorymodel.cpp:72`: repeating the last entry of the list is refused.
  `:94`: `reload` adds the newest line first and so reverses the list.
  `qwocommandhistoryform.cpp:103`: as many consecutive rows are deleted as are
  selected, from the first of them on. `qwosshprocess.cpp:85`: the end of a session
  does not save.
- `channels.c:3070`: the window of extended data that is ignored is lost.
- `packet.c:1256`: while the queue is sent `kex->done` is 0, so the test for the limit
  is always false there, and the comment's "skip the remaining packets" never happens.
- `packet.c:963`: `ROUNDUP` yields bytes, which are added to a number of blocks.
- `qwosessionlist.cpp:85`: a refresh saves first and so overwrites what another window
  changed. `qwosshconf.cpp:112`: `port` is uninitialized without a Port line. `:126`:
  any line that begins with "Password" is taken for the password. `:137`: a name with a
  space becomes several hosts, one with `*` a pattern.

## Not modelled

The byte level of ZMODEM; of its file management, newer, CRC comparison, rename and
skip-if-absent, text mode, and a seek that fails; XMODEM and YMODEM; a shell request that
the server refuses (`client_status_confirm` ends ssh with `fatal`, the loss of the
connection, which is not modelled); a wait status that is neither an exit nor a signal
(`waitpid` without `WUNTRACED` reports none); a `recv` of fewer bytes than a length field
has (woterm writes it at once); the password dialogue and the Windows pipes of the IPC; drawing, forms,
settings, the version check; qtermwidget; of OpenSSH, the first key exchange and the
authentication, multiplexing, X11 and dynamic forwarding, compression, ciphers, keys,
configuration, the agent, sftp and scp. Most of the repository's lines are vendored
(OpenSSH and its tests, qtermwidget) or parse, format and draw: they are sequential
computations on bytes without state that a model checker could interleave, and a
translation of them would be longer than they are. What is modelled are the parts in
which processes, threads, callbacks and files meet. `PROJECT.json` gives the reason
for each part.

## Plan

1. Done: the ZMODEM programs and the abstract transfer; the IPC bridge; the script
   engine; the session with its nested loops; the history; channels; packets and the
   change of keys, with the abstract line. Proofs of every invariant of the runs, about
   the receiver, the sender, the history, the channels, the packet layer and its abstract
   line, the session, the bridge and the script engine.
2. Proofs next: `SentIsReceived` from the invariants of the two ZMODEM programs together.
3. After that `HostStore` (`qwosshconf.cpp`): load, edit, save, with a crash during a
   save and two windows; `Tabs` (`qwoshower.cpp`, `qwotermwidgetimpl.cpp`): closing tabs
   and panes across modal questions; `Zdle` (`zm.c`) as a pure algorithm.
