---------------------------- MODULE ScriptShell ----------------------------
(***************************************************************************)
(* A script that drives remote shells (QWoScriptMaster, QWoShellCommand,   *)
(* QWoShellProcess).  The script's thread writes a line to a shell and     *)
(* waits in an event loop of its own for the next prompt.  Prompts, the    *)
(* ends of ssh and of the transfer programs, timers and the user's stop    *)
(* arrive in any order, and also between exit() and the return of the      *)
(* loop, when they replace the exit code.                                  *)
(***************************************************************************)
EXTENDS Integers, FiniteSets, SequencesExt

CONSTANTS
  NHosts,      \* the hosts a login names
  MaxProcs,    \* bound: ssh processes started
  MaxCalls,    \* bound: calls the script makes
  MaxTransfers, \* bound: calls of upload and download
  MaxTroubles, \* bound: keypad mode sequences, ends of ssh, stops, misleading output
  Ops          \* the calls the script makes

ASSUME ScriptAssumption ==
  /\ NHosts \in Nat \ {0} /\ {MaxProcs, MaxCalls, MaxTransfers, MaxTroubles} \subseteq Nat
  /\ Ops \subseteq {"login", "exec", "su", "upload", "download"}

Procs == 1..MaxProcs
\* The loop's exit codes: ERR_SCRIPT_*
Codes == {"normal", "timeout", "stop", "keypad", "finish"}
\* What a shell prints: a prompt, the answer to "echo $?" and a prompt, or the
\* keypad mode of a full screen program
Answers == {"zero", "other"}
Units == Answers \cup {"prompt", "keypad"}
LineKinds == {"nl", "cmd", "su", "pwd", "echo", "ls", "transfer"}

VARIABLES
  tpc,         \* the thread: in the script, in an event loop, gone
  call,        \* the call under way: op, who (0: every host), good (the
               \* local path is what it should be), its number and
               \* the number of transfers so far
  m_all,       \* the shells logged in to
  cur, goal,   \* the loop over m_all: where it is and how far it goes
  step,        \* what the shell at hand was last asked for
  code,        \* the code exit() was called with, "none" while the loop runs
  armed,       \* the timer of the wait has not fired yet
  seen,        \* the answer in the text of the spy, "prompt" when there is none
  zm,          \* m_zmodem of the shell at hand
  passed,      \* what upload or download has returned, during the sleep after it
  codes,       \* the QWoResult: whether the exit codes in it are 0
  res,         \* the last call: whether it gave up, and its result's hasError
  stop,        \* stopit() is queued
  aborted,     \* abortEvaluation has been called
  sh,          \* sh[p]: an ssh process and the remote shell behind it
  troubles,    \* what MaxTroubles bounds, so far
  claimed,     \* the shells for which this call's exec or su has returned true
  drained,     \* the shells whose spy has been emptied by output() and not reset
  astray       \* shells on which a download went on without the answer to its
               \* echo, or whose spy may have taken other output for an answer

callv == <<call, m_all, cur, goal, step, passed, codes, zm, claimed, drained, res>>
scriptVars == <<tpc, callv, astray, code, armed, stop, aborted, seen, sh, troubles>>

\* st: "none", "starting", "up", "gone" (finished() is queued), "reaped", "deleted";
\* lines, out: what the shell, and woterm, have not read yet; zero: $? is 0;
\* asking: su waits for a password; ran: this call's command has run with status 0
NoShell == [st |-> "none", lines |-> <<>>, out |-> <<>>, zero |-> TRUE, asking |-> FALSE, ran |-> FALSE]

NoResult == [failed |-> FALSE, err |-> FALSE]

ScriptInit ==
  /\ tpc = "script" /\ call = [op |-> "none", who |-> 0, good |-> TRUE, n |-> 0, transfers |-> 0]
  /\ m_all = <<>> /\ cur = 0 /\ goal = 0 /\ step = "none" /\ code = "none" /\ armed = FALSE
  /\ seen = "prompt" /\ zm = "none" /\ passed = FALSE /\ codes = {}
  /\ res = NoResult /\ stop = FALSE /\ aborted = FALSE
  /\ sh = [p \in Procs |-> NoShell] /\ troubles = 0 /\ claimed = {} /\ drained = {} /\ astray = {}

-----------------------------------------------------------------------------
(* QWoShellProcess: one operation on one shell, a wait after every line *)

FirstStep(op) == IF op = "login" THEN "login" ELSE "nl"
\* What is written before the wait of step s, by lsz itself for an upload.  A
\* command or password is marked with its call.
LineOf(s) == CASE s = "login" -> <<>>
               [] s \in {"echo", "lsecho"} -> <<[k |-> "echo", n |-> 0]>>
               [] s = "zm" -> <<[k |-> "transfer", n |-> 0]>>
               [] s \in {"nl", "ls"} -> <<[k |-> s, n |-> 0]>>
               [] s \in {"cmd", "su", "pwd"} -> <<[k |-> s, n |-> call'.n]>>
\* write() to a process that has ended has no effect.
Write(s) == IF s.st = "up" THEN [s EXCEPT !.lines = @ \o LineOf(step')] ELSE s

\* wait: a new loop with its timer, and an empty spy
TimerForgotten == armed' = FALSE
TimerStart == armed' = TRUE
Enter(s) ==
  /\ tpc' = "wait" /\ step' = s /\ code' = "none" /\ TimerStart /\ seen' = "prompt"
  /\ zm' = IF s = "zm" THEN "running" ELSE "none"

\* extractExitCode, after its wait
ExitCodeUnread == code = "normal"
ExitCodeIsZero == code = "normal" /\ seen = "zero"

\* What follows a wait that has returned: the next step, or what the operation returns.
Follows ==
  LET If(b) == IF b THEN "true" ELSE "false"
      Line2 == IF ~call.good THEN "false"
               ELSE [exec |-> "cmd", su |-> "su", upload |-> "zm", download |-> "ls"][call.op]
  IN CASE step \in {"login", "zm"} -> If(code = "normal")
       [] step = "echo" -> If(ExitCodeIsZero)
       [] step = "lsecho" -> IF ExitCodeIsZero THEN "false" ELSE "zm"
       [] step = "su" /\ code = "timeout" -> "pwd"
       [] OTHER -> IF code # "normal" THEN "false"
                   ELSE [nl |-> Line2, cmd |-> "echo", su |-> "echo", pwd |-> "echo", ls |-> "lsecho"][step]

\* setOk, setFailure and setOutput: m_cmdExitCode is 0 after the wait
FailureUnset == step = "echo" => ExitCodeIsZero
CodeSet == IF step = "echo" THEN ExitCodeIsZero ELSE code = "normal"

-----------------------------------------------------------------------------
(* QWoShellCommand: a call goes over the shells one after the other *)

\* The first shell from position i on that the call is for, goal' + 1 when none is.
NextHost(i) ==
  LET fit == {j \in i..goal' : call'.who = 0 \/ m_all[j] = call'.who}
  IN IF fit = {} THEN goal' + 1 ELSE Min(fit)

\* hasError: a result without entries is an error
HasError(cs) == cs = {} \/ FALSE \in cs

CallReturns(failed) ==
  /\ tpc' = "script" /\ code' = "none" /\ zm' = "none" /\ step' = "none" /\ cur' = 0
  /\ armed' = FALSE /\ seen' = "prompt" /\ res' = [failed |-> failed, err |-> HasError(codes')]

Started == Cardinality({p \in Procs : sh[p].st # "none"})

\* On to shell i of the loop, or out of it.  login starts a new ssh.  calm is sh
\* with what a new call resets.
NextShell(i, calm) ==
  \/ /\ i > goal' /\ CallReturns(FALSE) /\ m_all' = m_all /\ sh' = calm
  \/ /\ i <= goal' /\ cur' = i /\ Enter(FirstStep(call'.op)) /\ res' = NoResult
     /\ IF call'.op = "login"
        THEN /\ m_all' = Append(m_all, Started + 1)
             /\ sh' = [calm EXCEPT ![Started + 1].st = "starting"]
        ELSE m_all' = m_all /\ sh' = [calm EXCEPT ![m_all[i]] = Write(@)]

\* cleanAll
Deleted == [p \in Procs |-> IF sh[p].st = "none" THEN NoShell ELSE [NoShell EXCEPT !.st = "deleted"]]
KeepAll == UNCHANGED <<m_all, sh>>
ForgetAll == m_all' = <<>> /\ UNCHANGED sh
CleanAll == m_all' = <<>> /\ sh' = Deleted

\* What the call does with the result of one shell.
Conclude(ok) == \/ ok /\ NextShell(NextHost(cur + 1), sh)
                \/ ~ok /\ CallReturns(TRUE) /\ CleanAll

StartCall ==
  /\ tpc = "script" /\ ~aborted /\ call.n < MaxCalls
  /\ \E op \in Ops, who \in {0} \cup Procs, good \in BOOLEAN :
       /\ op \in {"exec", "su"} \/ who = 0
       /\ op \in {"upload", "download"} \/ good
       /\ op = "login" => Started + NHosts <= MaxProcs
       /\ call' = [op |-> op, who |-> who, good |-> good, n |-> call.n + 1,
                   transfers |-> call.transfers + IF op \in {"upload", "download"} THEN 1 ELSE 0]
       /\ call'.transfers <= MaxTransfers
       /\ goal' = IF op = "login" THEN Len(m_all) + NHosts ELSE Len(m_all)
       /\ codes' = {} /\ claimed' = {}
       /\ NextShell(IF op = "login" THEN Len(m_all) + 1 ELSE NextHost(1),
                    [p \in Procs |-> [sh[p] EXCEPT !.ran = FALSE]])
  /\ UNCHANGED <<passed, drained, astray, stop, aborted, troubles>>

\* main has returned, or its evaluation was aborted; shell goes with its children.
ScriptEnds ==
  /\ tpc = "script" /\ tpc' = "end" /\ sh' = Deleted
  /\ UNCHANGED <<callv, astray, code, armed, stop, aborted, seen, troubles>>

\* The loop of a wait returns and the operation goes on with the same shell.
WaitGoesOn ==
  /\ tpc = "wait" /\ code # "none" /\ zm \in {"none", "done"}
  /\ Follows \notin {"true", "false"} /\ Enter(Follows)
  /\ UNCHANGED <<call, m_all, cur, goal, passed, codes, claimed, drained, res, stop, aborted, troubles>>
  /\ sh' = [sh EXCEPT ![m_all[cur]] = Write(@)]
  /\ astray' = IF step = "lsecho" /\ seen = "prompt" THEN astray \cup {m_all[cur]} ELSE astray

\* The loop of a wait returns and the operation with it; upload and download
\* are followed by a sleep.
WaitReturns ==
  /\ tpc = "wait" /\ code # "none" /\ zm \in {"none", "done"}
  /\ Follows \in {"true", "false"} /\ codes' = codes \cup {CodeSet}
  /\ claimed' = IF Follows = "true" /\ call.op \in {"exec", "su"} THEN claimed \cup {m_all[cur]} ELSE claimed
  /\ drained' = IF step = "echo" /\ code = "normal" THEN drained \cup {m_all[cur]} ELSE drained \ {m_all[cur]}
  /\ UNCHANGED <<call, goal, astray, stop, aborted, troubles>>
  /\ \/ /\ call.op \in {"upload", "download"}
        /\ tpc' = "sleep" /\ passed' = (Follows = "true") /\ zm' = "none" /\ code' = "none"
        /\ armed' = FALSE /\ UNCHANGED <<step, m_all, cur, res, sh, seen>>
     \/ /\ call.op \notin {"upload", "download"} /\ Conclude(Follows = "true") /\ UNCHANGED passed

\* sleep(2000) after a transfer
SleepReturns ==
  /\ tpc = "sleep" /\ passed' = FALSE
  /\ UNCHANGED <<call, goal, codes, claimed, drained, astray, stop, aborted, troubles>>
  /\ Conclude(passed)

\* The thread uses a bad pointer: a null m_eventLoop, or a line of an empty list.
Crash == /\ tpc' = "crashed" /\ sh' = Deleted
         /\ UNCHANGED <<callv, astray, code, armed, stop, aborted, seen, troubles>>

\* The loop of a transfer's wait returns while lsz or lrz still runs: the
\* destructor of its QProcess kills it, and finished() finds no event loop.
TransferCutOff == tpc = "wait" /\ code # "none" /\ zm \in {"running", "killed"} /\ Crash

-----------------------------------------------------------------------------
(* What the thread's event loops deliver *)

InLoop == tpc \in {"wait", "sleep"}
\* m_eventLoop of p is not null
Waiting(p) == tpc = "wait" /\ p = m_all[cur]

TimerFires ==
  /\ tpc = "wait" /\ armed /\ armed' = FALSE /\ code' = "timeout"
  /\ UNCHANGED <<tpc, callv, astray, stop, aborted, seen, sh, troubles>>

\* What the spy looks at of what has been read: up to the first prompt.
Looked(q) == LET stops == {i \in 1..Len(q) : q[i] # "keypad"}
             IN SubSeq(q, 1, IF stops = {} THEN Len(q) ELSE Min(stops))

\* onReadyReadStandardOutput, with onInputArrived and onApplicationKeypad.  All
\* that has arrived is read; a slow network is a slow shell here.
OnReadyRead ==
  /\ InLoop
  /\ \E p \in Procs :
       /\ sh[p].st \in {"up", "gone"} /\ sh[p].out # <<>>
       /\ LET u == Looked(sh[p].out)
              Rest == /\ sh' = [sh EXCEPT ![p].out = <<>>]
                      /\ UNCHANGED <<tpc, callv, astray, armed, stop, aborted, troubles>>
          IN \/ Waiting(p) /\ zm # "none" /\ Rest /\ UNCHANGED <<code, seen>>
             \/ ~Waiting(p) /\ ("keypad" \in Range(u) \/ p \in drained) /\ Crash
             \/ ~Waiting(p) /\ "keypad" \notin Range(u) /\ Rest /\ UNCHANGED <<code, seen>>
             \/ /\ Waiting(p) /\ zm = "none" /\ Rest
                /\ seen' = IF seen = "prompt" /\ Last(u) \in Answers THEN Last(u) ELSE seen
                /\ code' = IF Last(u) = "keypad" THEN "keypad" ELSE "normal"

\* onFinished
OnFinished ==
  /\ InLoop
  /\ \E p \in Procs :
       /\ sh[p].st = "gone" /\ sh[p].out = <<>> /\ sh' = [sh EXCEPT ![p].st = "reaped"]
       /\ code' = IF Waiting(p) THEN "finish" ELSE code
       /\ zm' = IF Waiting(p) /\ zm = "running" THEN "killed" ELSE zm
  /\ UNCHANGED <<tpc, call, m_all, cur, goal, step, passed, codes, claimed, drained, astray, res, armed, stop,
                 aborted, seen, troubles>>

\* lsz or lrz has ended; its exit code is not looked at.
OnZmodemFinished ==
  /\ tpc = "wait" /\ zm \in {"running", "killed"} /\ zm' = "done" /\ code' = "normal"
  /\ UNCHANGED <<tpc, call, m_all, cur, goal, step, passed, codes, claimed, drained, astray, res, armed, stop,
                 aborted, seen, sh, troubles>>

\* QProxy::onStop and QWoShellCommand::stop
OnStop ==
  /\ InLoop /\ stop /\ stop' = FALSE /\ aborted' = TRUE
  /\ code' = IF tpc = "wait" THEN "stop" ELSE code
  /\ UNCHANGED <<tpc, callv, astray, armed, seen, sh, troubles>>

-----------------------------------------------------------------------------
(* The world: the user, ssh and the remote shells *)

Alive == tpc \in {"script", "wait", "sleep"}
threadv == <<tpc, callv, code, armed, aborted, seen>>
Trouble == Alive /\ troubles < MaxTroubles /\ troubles' = troubles + 1

UserStops == Trouble /\ ~stop /\ stop' = TRUE /\ UNCHANGED <<threadv, astray, sh>>

SshEnds ==
  /\ Trouble /\ UNCHANGED <<threadv, astray, stop>>
  /\ \E p \in Procs : sh[p].st \in {"starting", "up"} /\ sh' = [sh EXCEPT ![p].st = "gone"]

\* The keypad mode of a full screen program
KeypadOn ==
  /\ Trouble /\ UNCHANGED <<threadv, astray, stop>>
  /\ \E p \in Procs : sh[p].st = "up" /\ sh' = [sh EXCEPT ![p].out = Append(@, "keypad")]

\* The first prompt, after the login
ShellStarts ==
  /\ Alive /\ UNCHANGED <<threadv, astray, stop, troubles>>
  /\ \E p \in Procs : /\ sh[p].st = "starting"
                      /\ sh' = [sh EXCEPT ![p].st = "up", ![p].out = Append(@, "prompt")]

\* What a shell does with line l: it prints a prompt when it is done with it, and
\* may take for ever.  What is typed while su asks is a password.
Reads(s, l) ==
  LET t == [s EXCEPT !.lines = Tail(@)]
      Ran(good) == [t EXCEPT !.asking = FALSE, !.zero = good, !.out = Append(@, "prompt"),
                             !.ran = @ \/ (good /\ l.n = call.n)]
  IN CASE s.asking -> {Ran(FALSE)} \cup IF l.k = "pwd" THEN {Ran(TRUE)} ELSE {}
       [] ~s.asking /\ l.k = "nl" -> {[t EXCEPT !.out = Append(@, "prompt")]}
       [] ~s.asking /\ l.k = "echo" ->
            {[t EXCEPT !.zero = TRUE, !.out = Append(@, IF t.zero THEN "zero" ELSE "other")]}
       [] ~s.asking /\ l.k = "cmd" -> {Ran(TRUE), Ran(FALSE)}
       [] ~s.asking /\ l.k = "su" -> {Ran(TRUE), Ran(FALSE), [t EXCEPT !.asking = TRUE]}
       [] ~s.asking /\ l.k \in {"pwd", "ls", "transfer"} ->
            {[t EXCEPT !.zero = good, !.out = Append(@, "prompt")] :
               good \in IF l.k = "pwd" THEN {FALSE} ELSE BOOLEAN}

ShellReads ==
  /\ Alive /\ UNCHANGED <<threadv, astray, stop, troubles>>
  /\ \E p \in Procs : /\ sh[p].st = "up" /\ sh[p].lines # <<>>
                      /\ \E s \in Reads(sh[p], Head(sh[p].lines)) : sh' = [sh EXCEPT ![p] = s]

\* "echo $?" was typed ahead: its echo is among what a program prints, and
\* extractExitCode takes the line after it, whatever it is, for the answer.  The
\* shell itself prints no such line but its next prompt.
ShellMisleads ==
  /\ Trouble /\ UNCHANGED <<threadv, stop>>
  /\ \E p \in Procs :
       /\ sh[p].st = "up" /\ \E i \in 2..Len(sh[p].lines) : sh[p].lines[i].k = "echo"
       /\ \E s \in Reads(sh[p], Head(sh[p].lines)),
             a \in IF sh[p].asking \/ Head(sh[p].lines).k \notin {"nl", "echo"} THEN Answers ELSE {"other"} :
            s.out # sh[p].out /\ sh' = [sh EXCEPT ![p] = [s EXCEPT !.out = Append(sh[p].out, a)]]
       /\ astray' = astray \cup {p}

-----------------------------------------------------------------------------
(* The specification *)

ScriptNext ==
  \/ StartCall \/ ScriptEnds \/ WaitGoesOn \/ WaitReturns \/ SleepReturns \/ TransferCutOff
  \/ TimerFires \/ OnReadyRead \/ OnFinished \/ OnZmodemFinished \/ OnStop
  \/ UserStops \/ SshEnds \/ KeypadOn \/ ShellStarts \/ ShellReads \/ ShellMisleads

\* The thread runs and its timers fire; nothing is assumed of ssh, of the remote
\* shells, of the transfer programs or of the user.
ThreadSteps == WaitGoesOn \/ WaitReturns \/ SleepReturns \/ TransferCutOff
ScriptSpec == /\ ScriptInit /\ [][ScriptNext]_scriptVars
              /\ WF_scriptVars(ThreadSteps) /\ WF_scriptVars(TimerFires)

-----------------------------------------------------------------------------
(* Properties *)

\* The types of the variables.  In a loop there is a shell at hand, a transfer
\* program exists only in the wait of a transfer, and the live processes are
\* those of m_all.
ScriptTypeOK ==
  /\ tpc \in {"script", "wait", "sleep", "end", "crashed"}
  /\ call.op \in Ops \cup {"none"} /\ call.who \in 0..MaxProcs /\ call.n \in 0..MaxCalls
  /\ m_all \in Seq(Procs) /\ IsInjective(m_all) /\ goal \in 0..MaxProcs
  /\ InLoop => cur \in 1..Len(m_all)
  /\ code \in Codes \cup {"none"} /\ codes \subseteq BOOLEAN /\ seen \in Answers \cup {"prompt"}
  /\ zm \in {"none", "running", "killed", "done"} /\ (zm # "none" => step = "zm")
  /\ {armed, stop, aborted, passed} \subseteq BOOLEAN /\ troubles \in 0..MaxTroubles
  /\ {claimed, drained, astray} \subseteq SUBSET Procs
  /\ \A p \in Procs :
       /\ p \in Range(m_all) /\ Alive <=> sh[p].st \in {"starting", "up", "gone", "reaped"}
       /\ sh[p].lines \in Seq([k : LineKinds, n : 0..MaxCalls]) /\ sh[p].out \in Seq(Units)
       /\ {sh[p].zero, sh[p].asking, sh[p].ran} \subseteq BOOLEAN

\* execCommand, sudo and su return true for a shell only when that shell has run
\* this call's command and its exit status was 0, whatever prompts of earlier
\* calls arrive late, with two exceptions: a download on that shell has gone on
\* without the answer to its "echo $?"; or a late prompt had "echo $?" typed ahead
\* into a program that still ran, and a line of its output was taken for the status.
OkIsEarned == Alive => \A p \in claimed \ astray : sh[p].ran \/ sh[p].st = "deleted"

\* When a call for every host has returned, either every shell has run the
\* command with status 0, or no shell is left to go on with (cleanAll), with the
\* exceptions of OkIsEarned for each shell.
AllHostsOrNone ==
  tpc = "script" /\ call.op \in {"exec", "su"} /\ call.who = 0 =>
    \A p \in Range(m_all) \ astray : sh[p].ran

\* A login, execCommand, sudo or su that gave up says so: hasError holds of the
\* result the script sees, whatever exit code replaced another in the loop.
FailureIsReported ==
  tpc = "script" /\ call.op \in {"login", "exec", "su"} => (res.failed => res.err)

\* A call of the script returns, or the program ends: no wait is without a way out.
CallEnds == InLoop ~> ~InLoop
=============================================================================
