------------------------------- MODULE History -------------------------------
(***************************************************************************)
(* The command history of one host: QWoCommandHistoryModel                 *)
(* (qwocommandhistorymodel.cpp) and its use by QWoSshProcess.  The sessions*)
(* of a window share one list, the windows (processes) share the file.     *)
(* Opening a file for writing empties it; the text follows later, and the  *)
(* window may be killed in between.                                        *)
(***************************************************************************)
EXTENDS Integers, Sequences

CONSTANTS
    Windows, Sessions,
    Cmds, Paths,        \* a history entry is a command and a directory
    MaxHistory,         \* MAX_HISTORY_COMMAND_COUNT
    SaveDelay,          \* pushToHistory: ticks until the list is saved
    MaxLeft,            \* bound on what m_historyLeftSaveCount begins with
    MaxActs             \* bound: commands, deletions and session openings

ASSUME HistoryAssumption ==
    /\ MaxHistory \in Nat \ {0} /\ SaveDelay \in Nat \ {0} /\ MaxActs \in Nat
    /\ MaxLeft \in Nat /\ SaveDelay <= MaxLeft

Entries == [cmd : Cmds, path : Paths]

VARIABLES
    hfile,      \* the lines of the history file
    list,       \* m_historyCommands of each window, newest first
    buf,        \* lines reload has read and not yet added
    src,        \* history: the file as reload read it, <<>> after a change
    left,       \* m_historyLeftSaveCount of each session, -1 without session
    saving,     \* the window has opened the file for writing
    unsaved,    \* history: the window's last save failed
    acts        \* bound on what the user does

hvars == <<hfile, list, buf, src, left, saving, unsaved, acts>>

----------------------------------------------------------------------------
(* QWoCommandHistoryModel::_add; HistoryCommand::operator== compares cmd *)

\* The places of the entries with e's command.
Places(l, e) == {k \in DOMAIN l : l[k].cmd = e.cmd}

MakeRoom(l) == IF Len(l) >= MaxHistory THEN SubSeq(l, 1, Len(l) - 1) ELSE l

InsertFirst(l, e) == [k \in 1 .. Len(l) + 1 |-> IF k = 1 THEN e ELSE l[k - 1]]

MoveFirst(l, i, e) ==
    [k \in 1 .. Len(l) |-> IF k = 1 THEN e ELSE IF k <= i THEN l[k - 1] ELSE l[k]]

\* Bug: an entry that is there already is inserted again.
AddedTwice(l, e) == InsertFirst(MakeRoom(l), e)

\* The list after _add.
Added(l, e) ==
    LET r == MakeRoom(l)
    IN  IF Places(r, e) = {} THEN InsertFirst(r, e)
        ELSE LET i == CHOOSE k \in Places(r, e) : TRUE
             IN  IF i > 1 /\ i >= Len(r) THEN r ELSE MoveFirst(r, i, e)

\* What _add returns.
AddSays(l, e) == ~\E i \in Places(MakeRoom(l), e) : i > 1 /\ i >= Len(MakeRoom(l))

\* removeRows.
Without(l, i, n) == [k \in 1 .. Len(l) - n |-> IF k < i THEN l[k] ELSE l[k + n]]

----------------------------------------------------------------------------
Open(w) == {s \in Sessions : left[w][s] >= 0}

\* The window's thread is not in the middle of reload or save.
Idle(w) == buf[w] = <<>> /\ ~saving[w]

Acts == acts < MaxActs /\ acts' = acts + 1

\* QWoSshProcess::get: the first session of a window makes the list and
\* reloads it.  m_historyLeftSaveCount is not initialized; a negative value acts
\* as 0, a large one as a long delay.
OpenSession(w, s) ==
    /\ Idle(w) /\ left[w][s] = -1 /\ Acts
    /\ \E n \in 0 .. MaxLeft : left' = [left EXCEPT ![w][s] = n]
    /\ IF Open(w) = {}
       THEN /\ buf' = [buf EXCEPT ![w] = hfile] /\ src' = [src EXCEPT ![w] = hfile]
            /\ list' = [list EXCEPT ![w] = <<>>]
            /\ unsaved' = [unsaved EXCEPT ![w] = FALSE]
       ELSE UNCHANGED <<buf, src, list, unsaved>>
    /\ UNCHANGED <<hfile, saving>>

\* Bug: the loop stops one line early.
ReloadShort(w) ==
    /\ buf[w] # <<>>
    /\ list' = [list EXCEPT ![w] = IF Len(buf[w]) = 1 THEN @ ELSE Added(@, Head(buf[w]))]
    /\ buf' = [buf EXCEPT ![w] = Tail(@)]
    /\ UNCHANGED <<hfile, src, left, saving, unsaved, acts>>

\* One turn of reload's loop.
Reload(w) ==
    /\ buf[w] # <<>>
    /\ list' = [list EXCEPT ![w] = Added(@, Head(buf[w]))]
    /\ buf' = [buf EXCEPT ![w] = Tail(@)]
    /\ UNCHANGED <<hfile, src, left, saving, unsaved, acts>>

\* Bug: the delay is added to what is left of the one before.
PushToHistoryAdding(w, s, e) ==
    /\ Idle(w) /\ s \in Open(w) /\ Acts
    /\ list' = [list EXCEPT ![w] = Added(@, e)]
    /\ left' = [left EXCEPT ![w][s] = IF AddSays(list[w], e) THEN @ + SaveDelay ELSE @]
    /\ src' = [src EXCEPT ![w] = <<>>]
    /\ UNCHANGED <<hfile, buf, saving, unsaved>>

\* pushToHistory.
PushToHistory(w, s, e) ==
    /\ Idle(w) /\ s \in Open(w) /\ Acts
    /\ list' = [list EXCEPT ![w] = Added(@, e)]
    /\ left' = [left EXCEPT ![w][s] = IF AddSays(list[w], e) THEN SaveDelay ELSE @]
    /\ src' = [src EXCEPT ![w] = <<>>]
    /\ UNCHANGED <<hfile, buf, saving, unsaved>>

\* save, up to the opening of the file, which may fail: nobody is told.
BeginSave(w) ==
    \/ /\ hfile' = <<>> /\ saving' = [saving EXCEPT ![w] = TRUE]
       /\ UNCHANGED unsaved
    \/ /\ unsaved' = [unsaved EXCEPT ![w] = TRUE]
       /\ UNCHANGED <<hfile, saving>>

\* Bug: the test for the last tick is off by one.
TickTooFar(w, s) ==
    /\ Idle(w) /\ left[w][s] > 0
    /\ left' = [left EXCEPT ![w][s] = @ - 1]
    /\ UNCHANGED <<hfile, list, buf, src, saving, unsaved, acts>>

\* onTimeout of a session.
Tick(w, s) ==
    /\ Idle(w) /\ left[w][s] > 0
    /\ left' = [left EXCEPT ![w][s] = @ - 1]
    /\ IF left[w][s] = 1 THEN BeginSave(w) ELSE UNCHANGED <<hfile, saving, unsaved>>
    /\ UNCHANGED <<list, buf, src, acts>>

\* The file when n lines of the window's list were written.  Lines another window
\* wrote since the file was opened are overwritten from the front; what is longer
\* remains.
Written(w, n) ==
    {SubSeq(list[w], 1, n) \o SubSeq(hfile, k, Len(hfile)) : k \in 1 .. Len(hfile) + 1}

\* The rest of save; file.write may come to a part of the lines, and its result is
\* not looked at.
EndSave(w) ==
    /\ saving[w]
    /\ \E n \in 0 .. Len(list[w]) :
         /\ hfile' \in Written(w, n)
         /\ unsaved' = [unsaved EXCEPT ![w] = n < Len(list[w])]
    /\ saving' = [saving EXCEPT ![w] = FALSE]
    /\ UNCHANGED <<list, buf, src, left, acts>>

\* onDeleteReady of the form, removeRows, save.
RemoveRows(w, i, n) ==
    /\ Idle(w) /\ Open(w) # {} /\ i + n - 1 <= Len(list[w]) /\ Acts
    /\ list' = [list EXCEPT ![w] = Without(@, i, n)]
    /\ src' = [src EXCEPT ![w] = <<>>]
    /\ BeginSave(w)
    /\ UNCHANGED <<buf, left>>

\* ~QWoSshProcess: the last session takes the list with it, saved or not.
CloseSession(w, s) ==
    /\ Idle(w) /\ s \in Open(w)
    /\ left' = [left EXCEPT ![w][s] = -1]
    /\ list' = [list EXCEPT ![w] = IF Open(w) = {s} THEN <<>> ELSE @]
    /\ src' = [src EXCEPT ![w] = IF Open(w) = {s} THEN <<>> ELSE @]
    /\ UNCHANGED <<hfile, buf, saving, unsaved, acts>>

\* The window is killed; a save it was in wrote some of the lines.
CrashHistory(w) ==
    /\ Open(w) # {}
    /\ \/ ~saving[w] /\ hfile' = hfile
       \/ saving[w] /\ \E n \in 0 .. Len(list[w]) : hfile' \in Written(w, n)
    /\ list' = [list EXCEPT ![w] = <<>>] /\ buf' = [buf EXCEPT ![w] = <<>>]
    /\ src' = [src EXCEPT ![w] = <<>>]
    /\ left' = [left EXCEPT ![w] = [s \in Sessions |-> -1]]
    /\ saving' = [saving EXCEPT ![w] = FALSE]
    /\ UNCHANGED <<unsaved, acts>>

----------------------------------------------------------------------------
HInit ==
    /\ hfile = <<>> /\ list = [w \in Windows |-> <<>>]
    /\ buf = [w \in Windows |-> <<>>] /\ src = [w \in Windows |-> <<>>]
    /\ left = [w \in Windows |-> [s \in Sessions |-> -1]]
    /\ saving = [w \in Windows |-> FALSE] /\ unsaved = [w \in Windows |-> FALSE]
    /\ acts = 0

HNext ==
    \E w \in Windows :
       \/ Reload(w) \/ EndSave(w) \/ CrashHistory(w)
       \/ \E i, n \in 1 .. MaxHistory : RemoveRows(w, i, n)
       \/ \E s \in Sessions :
             \/ OpenSession(w, s) \/ CloseSession(w, s) \/ Tick(w, s)
             \/ \E e \in Entries : PushToHistory(w, s, e)

\* The event loop of a window runs and its timers fire.
HFairness ==
    \A w \in Windows :
       /\ WF_hvars(Reload(w)) /\ WF_hvars(EndSave(w))
       /\ \A s \in Sessions : WF_hvars(Tick(w, s))

HSpec == HInit /\ [][HNext]_hvars /\ HFairness

----------------------------------------------------------------------------
(* Properties *)

\* No command twice.
Distinct(l) == \A i, j \in DOMAIN l : i # j => l[i].cmd # l[j].cmd

HistoryTypeOK ==
    /\ hfile \in Seq(Entries)
    /\ list \in [Windows -> Seq(Entries)] /\ buf \in [Windows -> Seq(Entries)]
    /\ src \in [Windows -> Seq(Entries)]
    /\ left \in [Windows -> [Sessions -> -1 .. MaxLeft]]
    /\ saving \in [Windows -> BOOLEAN] /\ unsaved \in [Windows -> BOOLEAN]
    /\ acts \in 0 .. MaxActs

(***************************************************************************)
(* The list never exceeds MAX_HISTORY_COMMAND_COUNT and holds no command   *)
(* twice, although the file, which windows overwrite for each other, may   *)
(* be longer and hold one twice when it is reloaded.                       *)
(***************************************************************************)
HistoryBounded ==
    \A w \in Windows : Len(list[w]) <= MaxHistory /\ Distinct(list[w])

Commands(l) == {l[k].cmd : k \in DOMAIN l}

(***************************************************************************)
(* A history that was saved whole comes back whole: reload, which adds the *)
(* lines one by one to a bounded list, loses no command of a file that one *)
(* window could have written.                                              *)
(***************************************************************************)
RestartKeeps ==
    \A w \in Windows :
       /\ buf[w] = <<>> /\ src[w] # <<>> /\ Distinct(src[w]) /\ Len(src[w]) <= MaxHistory
       => Commands(list[w]) = Commands(src[w])

(***************************************************************************)
(* Once a save of a session is due, there is a moment when every command   *)
(* of the window's list is in the file, so that a command reaches the file *)
(* unless it leaves the list first.  Excepted are a session that ends      *)
(* before, since QWoSshProcess does not save when it is destroyed, and a   *)
(* save that fails, which save does not notice.  The bound on acts is      *)
(* needed: every command postpones the save.                               *)
(***************************************************************************)
CommandIsSaved ==
    \A w \in Windows, s \in Sessions :
       left[w][s] > 0
          ~> (Commands(list[w]) \subseteq Commands(hfile) \/ left[w][s] = -1 \/ unsaved[w])

=============================================================================
