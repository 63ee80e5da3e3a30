------------------------------ MODULE SshSession ------------------------------
(***************************************************************************)
(* A terminal session and the lsz or lrz attached to it: QWoSshProcess     *)
(* (qwosshprocess.cpp).  Everything runs in one thread, but the handlers   *)
(* open event loops of their own (a probe of the remote shell, a file      *)
(* dialog, a message box) in which every other handler can run: the stack  *)
(* of these loops is part of the state.  A handler that is not in such a   *)
(* loop is atomic.                                                         *)
(***************************************************************************)
EXTENDS Naturals, Sequences, FiniteSets

CONSTANTS
    MaxObjects,     \* bound: processes createZmodem makes
    MaxOutput,      \* bound: pieces of output of the remote shell
    MaxClicks       \* bound: choices in the menu, exits and reconnections of ssh

ASSUME SessionAssumption ==
    MaxObjects \in Nat \ {0} /\ MaxOutput \in Nat /\ MaxClicks \in Nat

VARIABLES
    ssh,        \* the ssh process: "up", "down" (the mask is shown), "closed",
                \* or "orphan": its widget is deleted (m_term is null), it is not
    obj,        \* the QProcess objects of transfers
    zm,         \* m_zmodem: the object it points to, or 0
    stack,      \* the nested event loops, the innermost last
    spy,        \* m_spy: the place in the stack of the spy, or 0
    loop,       \* m_eventLoop: the place of the loop, or 0
    posted,     \* calls and deletions for the event loop
    cut,        \* history: objects attached when their ssh ended
    crashed,    \* a null or dangling pointer was used
    tangled,    \* history: entered again, or closed, inside a nested loop
    outs,       \* pieces of output so far
    clicks      \* choices so far

vars == <<ssh, obj, zm, stack, spy, loop, posted, cut, crashed, tangled, outs, clicks>>
sessionVars == <<ssh, cut, outs, clicks>>

Objects == 1 .. MaxObjects
Depth == Len(stack)
Top == stack[Depth]
Below == SubSeq(stack, 1, Depth - 1)
Waits == {"input", "which", "status"}

\* A nested loop: how it was told to exit, and whether its timer runs.
Frame(at) == [at |-> at, exit |-> "none", timer |-> at \in Waits \cup {"sleep"}]

Probing == \E i \in DOMAIN stack : stack[i].at \in Waits \cup {"sleep"}

\* Bug: the dialogs do not block the window.
NeverModal == FALSE

\* A file dialog or a message box keeps the user from the menu.
Modal == \E i \in DOMAIN stack : stack[i].at \in {"dialog", "box"}

Alive == ~crashed /\ ssh # "closed"

\* The widget with its menu and its mask is there.
Shown == Alive /\ ssh # "orphan"

----------------------------------------------------------------------------
(* Deletions: deleteLater, run by a loop not deeper than the caller's *)

DeleteLater(q, z, depth) ==
    IF z = 0 \/ \E k \in DOMAIN q : q[k].do = "delete" /\ q[k].z = z THEN q
    ELSE Append(q, [do |-> "delete", z |-> z, depth |-> depth])

Due(p) == p.do = "delete" => Depth <= p.depth

Crash ==
    /\ crashed' = TRUE
    /\ UNCHANGED <<obj, zm, stack, spy, loop, posted, tangled>>

\* The innermost handler is left; its loop and spy are gone.
Leave(q) ==
    /\ stack' = Below
    /\ spy' = IF spy = Depth THEN 0 ELSE spy
    /\ loop' = IF loop = Depth THEN 0 ELSE loop
    /\ posted' = q
    /\ UNCHANGED <<crashed, tangled>>

----------------------------------------------------------------------------
(* Starting a transfer *)

\* createZmodem, and the file dialog on top of the loops in st.
OpenDialog(st, q) ==
    \E z \in Objects :
       /\ obj[z] = "none" /\ \A y \in 1 .. z - 1 : obj[y] # "none"
       /\ obj' = [obj EXCEPT ![z] = "new"] /\ zm' = z
       /\ stack' = Append(st, Frame("dialog"))
       /\ spy' = IF spy > Len(st) THEN 0 ELSE spy
       /\ loop' = IF loop > Len(st) THEN 0 ELSE loop
       /\ posted' = q
       /\ UNCHANGED crashed

\* wait: its loop becomes m_eventLoop, and the spy is reset.
WaitFor(at, theSpy) ==
    IF theSpy = 0 THEN Crash
    ELSE /\ stack' = Append(Below, Frame(at))
         /\ loop' = Depth /\ spy' = theSpy
         /\ UNCHANGED <<obj, zm, posted, crashed, tangled>>

\* onZmodemSend from the menu begins with checkShellProgram, which sleeps.
MenuSend ==
    /\ Shown /\ ~Modal /\ clicks < MaxClicks /\ zm = 0
    /\ stack' = Append(stack, Frame("sleep"))
    /\ tangled' = (tangled \/ Probing)
    /\ clicks' = clicks + 1
    /\ UNCHANGED <<ssh, cut, obj, zm, spy, loop, posted, crashed, outs>>

\* onZmodemRecv from the menu.
MenuRecv ==
    /\ Shown /\ ~Modal /\ clicks < MaxClicks /\ zm = 0
    /\ OpenDialog(stack, posted)
    /\ tangled' = (tangled \/ Probing)
    /\ clicks' = clicks + 1
    /\ UNCHANGED <<ssh, cut, outs>>

\* Bug: a wait has no timer.
SleepTimerFires(i) ==
    /\ Alive /\ i \in DOMAIN stack /\ stack[i].at = "sleep" /\ stack[i].timer
    /\ stack' = [stack EXCEPT ![i].exit = "ok", ![i].timer = FALSE]
    /\ UNCHANGED <<obj, zm, spy, loop, posted, crashed, tangled, sessionVars>>

\* A timer: 300 ms in sleep, half an hour in wait.  A loop that was told to exit
\* and has others on top of it is told again.
TimerFires(i) ==
    /\ Alive /\ i \in DOMAIN stack /\ stack[i].timer
    /\ stack' = [stack EXCEPT ![i].exit = IF stack[i].at = "sleep" THEN "ok" ELSE "late",
                              ![i].timer = FALSE]
    /\ UNCHANGED <<obj, zm, spy, loop, posted, crashed, tangled, sessionVars>>

\* The tests of checkShellProgram after the sleep.
MayProbe(app) == ssh = "up" /\ zm = 0 /\ ~app

\* checkShellProgram goes on, in the innermost loop that was told to exit.
ProbeGoesOn ==
    /\ Alive /\ Depth > 0 /\ Top.exit # "none"
    /\ \E good \in BOOLEAN :
         \/ /\ Top.at = "sleep"
            /\ IF MayProbe(~good) THEN WaitFor("input", Depth)
               ELSE Leave(posted) /\ UNCHANGED <<obj, zm>>
         \/ /\ Top.at = "input"
            /\ IF ssh = "orphan" THEN Crash ELSE WaitFor("which", spy)
         \/ /\ Top.at = "which"
            /\ IF Top.exit = "ok" /\ good THEN WaitFor("status", spy)
               ELSE Leave(posted) /\ UNCHANGED <<obj, zm>>
         \/ /\ Top.at = "status"
            /\ \/ /\ Top.exit = "ok" /\ spy = 0 /\ Crash
               \/ /\ Top.exit = "ok" /\ spy # 0 /\ good
                  /\ OpenDialog(Below, posted) /\ UNCHANGED tangled
               \/ /\ Top.exit = "late" \/ (spy # 0 /\ ~good)
                  /\ Leave(posted) /\ UNCHANGED <<obj, zm>>
    /\ UNCHANGED sessionVars

\* onZmodemAbort and onZmodemFinished write to the ssh process, and write has
\* checkCommand look at the terminal.
WritesToNoTerm == ssh = "orphan"

\* The user answers the dialog; onZmodemSend and onZmodemRecv go on.
DialogCloses ==
    /\ Alive /\ Depth > 0 /\ Top.at = "dialog"
    /\ \/ \* onZmodemAbort with no terminal
          zm # 0 /\ WritesToNoTerm /\ Crash
       \/ \* nothing chosen
          /\ zm # 0 => ~WritesToNoTerm
          /\ Leave(DeleteLater(posted, zm, Depth - 1)) /\ UNCHANGED <<obj, zm>>
       \/ \* no program: abort, then a message box
          /\ zm # 0 => ~WritesToNoTerm
          /\ posted' = DeleteLater(posted, zm, Depth - 1)
          /\ stack' = Append(Below, Frame("box"))
          /\ UNCHANGED <<obj, zm, spy, loop, crashed, tangled>>
       \/ zm = 0 /\ Crash
       \/ \* start, which may fail
          /\ zm # 0
          /\ \E state \in {"running", "failed"} :
               obj' = [obj EXCEPT ![zm] = IF @ = "running" THEN @ ELSE state]
          /\ zm' = zm /\ Leave(posted)
    /\ UNCHANGED sessionVars

BoxCloses ==
    /\ Alive /\ Depth > 0 /\ Top.at = "box"
    /\ Leave(posted)
    /\ UNCHANGED <<obj, zm, sessionVars>>

----------------------------------------------------------------------------
(* Ending a transfer *)

\* onZmodemAbort.
MenuAbort ==
    /\ Shown /\ ~Modal /\ clicks < MaxClicks /\ zm # 0
    /\ posted' = DeleteLater(posted, zm, Depth)
    /\ clicks' = clicks + 1
    /\ UNCHANGED <<ssh, cut, obj, zm, stack, spy, loop, crashed, tangled, outs>>

\* Bug: the end of the process is not acted upon.
FinishedUnseen(z) ==
    /\ Alive /\ obj[z] = "running"
    /\ obj' = [obj EXCEPT ![z] = "ended"]
    /\ UNCHANGED <<zm, stack, spy, loop, posted, crashed, tangled, sessionVars>>

\* lsz or lrz ends: onZmodemFinished deletes what m_zmodem points to.
Finished(z) ==
    /\ Alive /\ obj[z] = "running"
    /\ IF zm = 0 \/ WritesToNoTerm THEN Crash
       ELSE /\ obj' = [obj EXCEPT ![z] = "ended"]
            /\ posted' = DeleteLater(posted, zm, Depth)
            /\ UNCHANGED <<zm, stack, spy, loop, crashed, tangled>>
    /\ UNCHANGED sessionVars

\* Bug: m_zmodem is a plain pointer.
DeletedUnnoticed(z, q) ==
    /\ obj' = [obj EXCEPT ![z] = "gone"]
    /\ posted' = q
    /\ UNCHANGED <<zm, stack, spy, loop, crashed, tangled>>

\* A deletion: a process that still runs is killed, which calls
\* onZmodemFinished from within.
Deleted(z, q) ==
    IF obj[z] = "running" /\ (zm = 0 \/ WritesToNoTerm) THEN Crash
    ELSE /\ obj' = [obj EXCEPT ![z] = "gone"]
         /\ zm' = IF zm = z THEN 0 ELSE zm
         /\ posted' = IF obj[z] = "running" /\ zm # z THEN DeleteLater(q, zm, Depth) ELSE q
         /\ UNCHANGED <<stack, spy, loop, crashed, tangled>>

\* Bug: a transfer asked for while one is attached is started as well.
AcceptAnyway == TRUE

Accepts == zm = 0

\* The event loop takes the first posted item that is due.
Deliver ==
    /\ Alive
    /\ \E k \in DOMAIN posted :
         /\ Due(posted[k]) /\ \A j \in 1 .. k - 1 : ~Due(posted[j])
         /\ LET rest == SubSeq(posted, 1, k - 1) \o SubSeq(posted, k + 1, Len(posted))
            IN  \/ posted[k].do = "delete" /\ Deleted(posted[k].z, rest)
                \/ /\ posted[k].do = "start" /\ Accepts
                   /\ OpenDialog(stack, rest)
                   /\ tangled' = (tangled \/ Probing)
                \/ /\ posted[k].do = "start" /\ ~Accepts
                   /\ posted' = rest
                   /\ UNCHANGED <<obj, zm, stack, spy, loop, crashed, tangled>>
    /\ UNCHANGED sessionVars

----------------------------------------------------------------------------
(* The ssh process *)

\* eventFilter: a piece of output is searched for the header of rz or sz, is
\* shown to the spy, and goes to the transfer if there is one (zm # 0) and to
\* the terminal otherwise.
Output(what) ==
    /\ Alive /\ ssh = "up" /\ outs < MaxOutput
    /\ posted' = IF what = "header" THEN Append(posted, [do |-> "start"]) ELSE posted
    /\ stack' = IF what = "prompt" /\ spy # 0 /\ loop # 0
                THEN [stack EXCEPT ![loop].exit = "ok"] ELSE stack
    /\ outs' = outs + 1
    /\ UNCHANGED <<ssh, cut, obj, zm, spy, loop, crashed, tangled, clicks>>

\* closeAndDelete: in a window of its own the splitter goes with the widget and
\* takes this object along; in a split view (count() > 1) only the widget goes,
\* with the dialogs it is the parent of.
CloseAndDelete ==
    /\ \/ ssh' = "closed" /\ crashed' = (stack # <<>>)
       \/ ssh' = "orphan" /\ crashed' = Modal
    /\ tangled' = (tangled \/ stack # <<>>)

\* onFinished: with an error the mask is shown, otherwise, or when the user
\* closes the session, the widget goes.
SshExits ==
    /\ Alive /\ ssh = "up" /\ clicks < MaxClicks
    /\ \/ ssh' = "down" /\ UNCHANGED <<crashed, tangled>>
       \/ CloseAndDelete
    /\ cut' = cut \cup {z \in Objects : obj[z] \in {"new", "running"}}
    /\ clicks' = clicks + 1
    /\ UNCHANGED <<obj, zm, stack, spy, loop, posted, outs>>

\* The mask is closed (onForceToCloseThisSession).
MaskCloses ==
    /\ Alive /\ ssh = "down" /\ ~Modal /\ CloseAndDelete
    /\ UNCHANGED <<cut, obj, zm, stack, spy, loop, posted, outs, clicks>>

\* The last widget of the split view closes: its splitter takes the orphan along.
LastPaneCloses ==
    /\ Alive /\ ssh = "orphan"
    /\ ssh' = "closed" /\ crashed' = (stack # <<>>) /\ tangled' = (tangled \/ stack # <<>>)
    /\ UNCHANGED <<cut, obj, zm, stack, spy, loop, posted, outs, clicks>>

\* What an orphan still has connected writes to its ssh: the keep-alive of
\* onTimeout, a command replayed from the history, the output of a transfer.
OrphanWrites ==
    /\ Alive /\ WritesToNoTerm /\ Crash
    /\ UNCHANGED sessionVars

\* onSessionReconnect: m_zmodem is as it was.
Reconnect ==
    /\ Alive /\ ssh = "down" /\ ~Modal
    /\ ssh' = "up"
    /\ UNCHANGED <<cut, obj, zm, stack, spy, loop, posted, crashed, tangled, outs, clicks>>

----------------------------------------------------------------------------
Init ==
    /\ ssh = "up" /\ obj = [z \in Objects |-> "none"] /\ zm = 0
    /\ stack = <<>> /\ spy = 0 /\ loop = 0 /\ posted = <<>> /\ cut = {}
    /\ crashed = FALSE /\ tangled = FALSE /\ outs = 0 /\ clicks = 0

Next ==
    \/ MenuSend \/ MenuRecv \/ MenuAbort
    \/ ProbeGoesOn \/ DialogCloses \/ BoxCloses \/ Deliver
    \/ \E i \in DOMAIN stack : TimerFires(i)
    \/ \E z \in Objects : Finished(z)
    \/ \E what \in {"prompt", "header"} : Output(what)
    \/ SshExits \/ MaskCloses \/ LastPaneCloses \/ OrphanWrites \/ Reconnect

\* The event loop runs, timers fire, the user answers dialogs, and a transfer
\* whose connection is not cut ends.
Fairness ==
    /\ WF_vars(ProbeGoesOn) /\ WF_vars(DialogCloses) /\ WF_vars(BoxCloses)
    /\ WF_vars(Deliver)
    /\ \A i \in 1 .. MaxObjects + MaxClicks : WF_vars(TimerFires(i))
    /\ \A z \in Objects : WF_vars(z \notin cut /\ Finished(z))

Spec == Init /\ [][Next]_vars /\ Fairness

----------------------------------------------------------------------------
(* Properties *)

SessionTypeOK ==
    /\ ssh \in {"up", "down", "orphan", "closed"} /\ zm \in 0 .. MaxObjects
    /\ obj \in [Objects -> {"none", "new", "running", "failed", "ended", "gone"}]
    /\ \A i \in DOMAIN stack :
         /\ stack[i].at \in Waits \cup {"sleep", "dialog", "box"}
         /\ stack[i].exit \in {"none", "ok", "late"}
    /\ spy \in 0 .. Depth /\ loop \in 0 .. Depth
    /\ zm # 0 => obj[zm] \notin {"none", "gone"}
    /\ loop # 0 => stack[loop].at \in Waits

(***************************************************************************)
(* woterm does not use a pointer that is null or dangling, whatever the    *)
(* order of the user's choices, the remote shell's output, the end of ssh  *)
(* and of transfers - except that it may when a transfer or a second probe *)
(* began during a probe (checkShellProgram leaves m_spy null, onZmodemSend *)
(* does not test m_zmodem again), when the session was closed in a nested  *)
(* loop, or when it was closed in a split view, which leaves an object     *)
(* without a terminal that the next write to ssh does not expect.          *)
(***************************************************************************)
CrashesOnlyTangled == crashed => tangled \/ ssh = "orphan"

(***************************************************************************)
(* Two transfers never run on one terminal at the same time, with the same *)
(* exception: m_zmodem guards every way in, across the file dialog, the    *)
(* deferred deletion of the last transfer and a late header of its rz.     *)
(***************************************************************************)
OneTransfer == Cardinality({z \in Objects : obj[z] = "running"}) > 1 => tangled

(***************************************************************************)
(* The terminal gets its output back: m_zmodem becomes null again after    *)
(* every transfer, refused dialog and abort.  Excepted are a program that  *)
(* could not be started and an ssh that ended during the transfer: nothing *)
(* but an abort by the user resets m_zmodem then.                          *)
(***************************************************************************)
Excused == ~Alive \/ (zm # 0 /\ (obj[zm] = "failed" \/ zm \in cut))

TerminalComesBack == (zm # 0) ~> (zm = 0 \/ Excused)

(***************************************************************************)
(* Every nested loop is left again: the timer of a wait covers a prompt    *)
(* that never comes, and a spy or a loop that another probe has taken over.*)
(***************************************************************************)
HandlersReturn == (stack # <<>>) ~> (stack = <<>> \/ ~Alive)

=============================================================================
