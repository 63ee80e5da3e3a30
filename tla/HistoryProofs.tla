---------------------------- MODULE HistoryProofs ----------------------------
(***************************************************************************)
(* The command list of every window stays within MAX_HISTORY_COMMAND_COUNT *)
(* and without duplicates, whatever the number of windows, sessions and    *)
(* commands, and whatever the file holds when it is reloaded.              *)
(***************************************************************************)
EXTENDS History, SequenceTheorems, TLAPS

\* A list _add may be called with.
Sound(l) == l \in Seq(Entries) /\ Len(l) <= MaxHistory /\ Distinct(l)

\* After pop_back there is room for an entry, and nothing else has changed.
LEMMA RoomIsMade ==
    ASSUME NEW l, Sound(l)
    PROVE  Sound(MakeRoom(l)) /\ Len(MakeRoom(l)) < MaxHistory
<1>1. CASE Len(l) >= MaxHistory
  <2>. DEFINE n == Len(l) - 1
  <2>0. Len(l) \in Nat /\ DOMAIN l = 1 .. Len(l) /\ \A k \in 1 .. Len(l) : l[k] \in Entries
    BY LenProperties DEF Sound
  <2>1. n \in Nat /\ n < Len(l)
    BY <1>1, <2>0, HistoryAssumption
  <2>2. /\ SubSeq(l, 1, n) \in Seq(Entries) /\ Len(SubSeq(l, 1, n)) = n
        /\ \A k \in 1 .. n : SubSeq(l, 1, n)[k] = l[k]
    BY <2>0, <2>1, SubSeqProperties
  <2>3. DOMAIN SubSeq(l, 1, n) = 1 .. n /\ DOMAIN l = 1 .. Len(l)
    BY <2>0, <2>2, LenProperties
  <2>4. Distinct(SubSeq(l, 1, n))
    BY <2>1, <2>2, <2>3 DEF Sound, Distinct
  <2>5. MakeRoom(l) = SubSeq(l, 1, n)
    BY <1>1 DEF MakeRoom
  <2>6. Len(l) <= MaxHistory /\ MaxHistory \in Nat
    BY HistoryAssumption DEF Sound
  <2>7. Len(SubSeq(l, 1, n)) < MaxHistory
    BY <2>0, <2>2, <2>6
  <2>. QED BY <2>2, <2>4, <2>5, <2>6, <2>7 DEF Sound
<1>2. CASE ~(Len(l) >= MaxHistory)
  BY <1>2, HistoryAssumption DEF Sound, MakeRoom
<1>. QED BY <1>1, <1>2

\* insert(0, hc) of a command that is not in the list.
LEMMA InsertIsSound ==
    ASSUME NEW l, NEW e \in Entries, Sound(l), Len(l) < MaxHistory, Places(l, e) = {}
    PROVE  Sound(InsertFirst(l, e))
<1>. DEFINE m == InsertFirst(l, e)
<1>1. Len(l) \in Nat /\ DOMAIN l = 1 .. Len(l) /\ \A k \in 1 .. Len(l) : l[k] \in Entries
  BY LenProperties DEF Sound
<1>2. m \in Seq(Entries) /\ Len(m) = Len(l) + 1 /\ DOMAIN m = 1 .. Len(l) + 1
  BY <1>1 DEF InsertFirst
<1>3. Distinct(m)
  <2>. SUFFICES ASSUME NEW i \in 1 .. Len(l) + 1, NEW j \in 1 .. Len(l) + 1, i < j
                PROVE  m[i].cmd # m[j].cmd
    BY <1>1, <1>2 DEF Distinct
  <2>1. j - 1 \in DOMAIN l /\ m[j] = l[j - 1]
    BY <1>1 DEF InsertFirst
  <2>2. CASE i = 1
    BY <2>1, <2>2, <1>1 DEF InsertFirst, Places
  <2>3. CASE i # 1
    <3>1. i - 1 \in DOMAIN l /\ m[i] = l[i - 1]
      BY <2>3, <1>1 DEF InsertFirst
    <3>. QED BY <3>1, <2>1 DEF Sound, Distinct
  <2>. QED BY <2>2, <2>3
<1>. QED BY <1>2, <1>3, <1>1, HistoryAssumption DEF Sound

\* removeAt(idx), insert(0, hc) of a command that is at idx.
LEMMA MoveIsSound ==
    ASSUME NEW l, NEW e \in Entries, Sound(l), NEW i \in Places(l, e)
    PROVE  Sound(MoveFirst(l, i, e))
<1>. DEFINE m == MoveFirst(l, i, e)
<1>1. Len(l) \in Nat /\ DOMAIN l = 1 .. Len(l) /\ \A k \in 1 .. Len(l) : l[k] \in Entries
  BY LenProperties DEF Sound
<1>2. i \in 1 .. Len(l) /\ l[i].cmd = e.cmd
  BY <1>1 DEF Places
<1>3. m \in Seq(Entries) /\ Len(m) = Len(l) /\ DOMAIN m = 1 .. Len(l)
  BY <1>1, <1>2 DEF MoveFirst
<1>. DEFINE from(k) == IF k = 1 THEN i ELSE IF k <= i THEN k - 1 ELSE k
<1>4. \A k \in 1 .. Len(l) : from(k) \in DOMAIN l /\ m[k].cmd = l[from(k)].cmd
  BY <1>1, <1>2 DEF MoveFirst
<1>5. \A j, k \in 1 .. Len(l) : j # k => from(j) # from(k)
  BY <1>1, <1>2
<1>6. Distinct(m)
  <2>. SUFFICES ASSUME NEW j \in 1 .. Len(l), NEW k \in 1 .. Len(l), j # k
                PROVE  m[j].cmd # m[k].cmd
    BY <1>3 DEF Distinct
  <2>1. from(j) \in DOMAIN l /\ from(k) \in DOMAIN l /\ from(j) # from(k)
    BY <1>4, <1>5
  <2>. HIDE DEF from
  <2>2. l[from(j)].cmd # l[from(k)].cmd
    BY <2>1 DEF Sound, Distinct
  <2>. QED BY <2>2, <1>4
<1>. QED BY <1>3, <1>6 DEF Sound

\* Whatever _add is given, the list stays bounded and without duplicates.
LEMMA AddIsSound ==
    ASSUME NEW l, NEW e \in Entries, Sound(l)
    PROVE  Sound(Added(l, e))
<1>. DEFINE r == MakeRoom(l)
<1>1. Sound(r) /\ Len(r) < MaxHistory
  BY RoomIsMade
<1>2. CASE Places(r, e) = {}
  BY <1>1, <1>2, InsertIsSound DEF Added
<1>3. CASE Places(r, e) # {}
  <2>. DEFINE i == CHOOSE k \in Places(r, e) : TRUE
  <2>1. i \in Places(r, e)
    BY <1>3
  <2>2. Sound(MoveFirst(r, i, e))
    BY <2>1, <1>1, MoveIsSound
  <2>3. Added(l, e) \in {r, MoveFirst(r, i, e)}
    BY <1>3 DEF Added
  <2>. QED BY <2>2, <2>3, <1>1
<1>. QED BY <1>2, <1>3

\* removeRows keeps the list sound.
LEMMA RemoveIsSound ==
    ASSUME NEW l, Sound(l), NEW i \in Nat \ {0}, NEW n \in Nat \ {0}, i + n - 1 <= Len(l)
    PROVE  Sound(Without(l, i, n))
<1>. DEFINE m == Without(l, i, n)  from(k) == IF k < i THEN k ELSE k + n
<1>1. Len(l) \in Nat /\ DOMAIN l = 1 .. Len(l) /\ \A k \in 1 .. Len(l) : l[k] \in Entries
  BY LenProperties DEF Sound
<1>2. Len(l) - n \in Nat
  BY <1>1
<1>3. \A k \in 1 .. Len(l) - n : from(k) \in 1 .. Len(l) /\ m[k] = l[from(k)]
  BY <1>1, <1>2 DEF Without
<1>4. m \in Seq(Entries) /\ Len(m) = Len(l) - n /\ DOMAIN m = 1 .. Len(l) - n
  BY <1>1, <1>2, <1>3 DEF Without
<1>5. \A j, k \in 1 .. Len(l) - n : j # k => from(j) # from(k)
  BY <1>1, <1>2
<1>6. Distinct(m)
  <2>. SUFFICES ASSUME NEW j \in 1 .. Len(l) - n, NEW k \in 1 .. Len(l) - n, j # k
                PROVE  m[j].cmd # m[k].cmd
    BY <1>4 DEF Distinct
  <2>1. from(j) \in DOMAIN l /\ from(k) \in DOMAIN l /\ from(j) # from(k)
    BY <1>1, <1>3, <1>5
  <2>. HIDE DEF from
  <2>2. l[from(j)].cmd # l[from(k)].cmd
    BY <2>1 DEF Sound, Distinct
  <2>. QED BY <2>2, <1>3
<1>. QED BY <1>1, <1>4, <1>6, HistoryAssumption DEF Sound

----------------------------------------------------------------------------
\* The inductive invariant: the types, with lists that _add may be called with.
HInv == HistoryTypeOK /\ HistoryBounded

\* The list of every window is sound in a state that satisfies the invariant.
LEMMA ListsAreSound ==
    HInv => \A w \in Windows : Sound(list[w])
BY DEF HInv, HistoryTypeOK, HistoryBounded, Sound

\* HInv follows when every list is sound and the rest has its type.
LEMMA SoundIsEnough ==
    ASSUME list \in [Windows -> Seq(Entries)], \A w \in Windows : Sound(list[w]),
           hfile \in Seq(Entries), buf \in [Windows -> Seq(Entries)],
           src \in [Windows -> Seq(Entries)],
           left \in [Windows -> [Sessions -> -1 .. MaxLeft]],
           saving \in [Windows -> BOOLEAN], unsaved \in [Windows -> BOOLEAN],
           acts \in 0 .. MaxActs
    PROVE  HInv
BY DEF HInv, HistoryTypeOK, HistoryBounded, Sound

\* An empty list, as after a crash or the last session's end, is sound.
LEMMA EmptyIsSound == Sound(<<>>)
BY HistoryAssumption DEF Sound, Distinct

\* The invariant holds before a window has opened a session.
LEMMA HInitInv == HInit => HInv
BY EmptyIsSound, HistoryAssumption, SoundIsEnough DEF HInit

\* The lists are sound after a step, when only the list of w changed and what
\* it became is sound.
LEMMA OneListChanges ==
    ASSUME HInv, NEW w \in Windows, NEW l, Sound(l), list' = [list EXCEPT ![w] = l]
    PROVE  HistoryBounded' /\ list' \in [Windows -> Seq(Entries)]
<1>1. l \in Seq(Entries) /\ list \in [Windows -> Seq(Entries)]
  BY DEF HInv, HistoryTypeOK, Sound
<1>2. \A v \in Windows : list'[v] = IF v = w THEN l ELSE list[v]
  BY <1>1
<1>3. \A v \in Windows : Sound(list'[v])
  BY <1>2, ListsAreSound
<1>. QED BY <1>1, <1>3 DEF HistoryBounded, Sound

\* A step that leaves list as it is keeps the bound.
LEMMA NoListChanges ==
    ASSUME HInv, list' = list
    PROVE  HistoryBounded' /\ list' \in [Windows -> Seq(Entries)]
BY DEF HInv, HistoryTypeOK, HistoryBounded

\* The bound on what the user does is kept.
LEMMA ActsInv ==
    ASSUME HInv, Acts
    PROVE  acts' \in 0 .. MaxActs
BY HistoryAssumption DEF HInv, HistoryTypeOK, Acts

\* Opening the file, or failing to, keeps the types.
LEMMA BeginSaveTypes ==
    ASSUME HInv, NEW w \in Windows, BeginSave(w)
    PROVE  /\ hfile' \in Seq(Entries) /\ saving' \in [Windows -> BOOLEAN]
           /\ unsaved' \in [Windows -> BOOLEAN]
<1>1. CASE hfile' = <<>> /\ saving' = [saving EXCEPT ![w] = TRUE] /\ UNCHANGED unsaved
  BY <1>1 DEF HInv, HistoryTypeOK
<1>2. CASE unsaved' = [unsaved EXCEPT ![w] = TRUE] /\ UNCHANGED <<hfile, saving>>
  BY <1>2 DEF HInv, HistoryTypeOK
<1>. QED BY <1>1, <1>2 DEF BeginSave

\* What a write leaves in the file are lines.
LEMMA WrittenIsLines ==
    ASSUME HInv, NEW w \in Windows, NEW n \in 0 .. Len(list[w]), NEW h \in Written(w, n)
    PROVE  h \in Seq(Entries)
<1>1. PICK k \in 1 .. Len(hfile) + 1 :
         h = SubSeq(list[w], 1, n) \o SubSeq(hfile, k, Len(hfile))
  BY DEF Written
<1>2. hfile \in Seq(Entries) /\ list[w] \in Seq(Entries)
  BY DEF HInv, HistoryTypeOK
<1>3. \A i \in k .. Len(hfile) : hfile[i] \in Entries
  BY <1>2, LenProperties
<1>4. SubSeq(hfile, k, Len(hfile)) \in Seq(Entries)
  BY <1>2, <1>3, LenProperties, SubSeqProperties
<1>5. \A i \in 1 .. n : list[w][i] \in Entries
  BY <1>2, LenProperties
<1>6. SubSeq(list[w], 1, n) \in Seq(Entries)
  BY <1>2, <1>5, LenProperties, SubSeqProperties
<1>. QED BY <1>1, <1>4, <1>6, ConcatProperties

\* Opening a session, with or without a reload, keeps the invariant.
LEMMA OpenSessionInv ==
    ASSUME HInv, NEW w \in Windows, NEW s \in Sessions, OpenSession(w, s)
    PROVE  HInv'
<1>1. left' \in [Windows -> [Sessions -> -1 .. MaxLeft]]
  BY HistoryAssumption DEF HInv, HistoryTypeOK, OpenSession
<1>2. /\ buf' \in [Windows -> Seq(Entries)] /\ src' \in [Windows -> Seq(Entries)]
      /\ unsaved' \in [Windows -> BOOLEAN]
  BY DEF HInv, HistoryTypeOK, OpenSession
<1>3. HistoryBounded' /\ list' \in [Windows -> Seq(Entries)]
  <2>1. CASE Open(w) = {}
    BY <2>1, EmptyIsSound, OneListChanges DEF OpenSession
  <2>2. CASE Open(w) # {}
    BY <2>2, NoListChanges DEF OpenSession
  <2>. QED BY <2>1, <2>2
<1>. QED BY <1>1, <1>2, <1>3, ActsInv DEF HInv, HistoryTypeOK, OpenSession

\* One turn of reload's loop keeps it, whatever the file holds.
LEMMA ReloadInv ==
    ASSUME HInv, NEW w \in Windows, Reload(w)
    PROVE  HInv'
<1>1. buf[w] \in Seq(Entries) /\ buf[w] # <<>>
  BY DEF HInv, HistoryTypeOK, Reload
<1>2. Head(buf[w]) \in Entries /\ Tail(buf[w]) \in Seq(Entries)
  BY <1>1, HeadTailProperties
<1>3. buf' \in [Windows -> Seq(Entries)]
  BY <1>2 DEF HInv, HistoryTypeOK, Reload
<1>4. Sound(Added(list[w], Head(buf[w])))
  BY <1>2, AddIsSound, ListsAreSound
<1>5. list' = [list EXCEPT ![w] = Added(list[w], Head(buf[w]))]
  BY DEF Reload
<1>6. HistoryBounded' /\ list' \in [Windows -> Seq(Entries)]
  BY <1>4, <1>5, OneListChanges
<1>. QED BY <1>3, <1>6 DEF HInv, HistoryTypeOK, Reload

\* A command entered in a session keeps it.
LEMMA PushToHistoryInv ==
    ASSUME HInv, NEW w \in Windows, NEW s \in Sessions, NEW e \in Entries,
           PushToHistory(w, s, e)
    PROVE  HInv'
<1>1. left' \in [Windows -> [Sessions -> -1 .. MaxLeft]]
  BY HistoryAssumption DEF HInv, HistoryTypeOK, PushToHistory
<1>2. Sound(Added(list[w], e))
  BY AddIsSound, ListsAreSound
<1>3. list' = [list EXCEPT ![w] = Added(list[w], e)]
  BY DEF PushToHistory
<1>4. HistoryBounded' /\ list' \in [Windows -> Seq(Entries)]
  BY <1>2, <1>3, OneListChanges
<1>5. src' \in [Windows -> Seq(Entries)]
  BY DEF HInv, HistoryTypeOK, PushToHistory
<1>. QED BY <1>1, <1>4, <1>5, ActsInv DEF HInv, HistoryTypeOK, PushToHistory

\* A tick of the save counter keeps it.
LEMMA TickInv ==
    ASSUME HInv, NEW w \in Windows, NEW s \in Sessions, Tick(w, s)
    PROVE  HInv'
<1>1. left' \in [Windows -> [Sessions -> -1 .. MaxLeft]]
  BY HistoryAssumption DEF HInv, HistoryTypeOK, Tick
<1>2. /\ hfile' \in Seq(Entries) /\ saving' \in [Windows -> BOOLEAN]
      /\ unsaved' \in [Windows -> BOOLEAN]
  <2>1. CASE left[w][s] = 1
    BY <2>1, BeginSaveTypes DEF Tick
  <2>2. CASE left[w][s] # 1
    BY <2>2 DEF HInv, HistoryTypeOK, Tick
  <2>. QED BY <2>1, <2>2
<1>. QED BY <1>1, <1>2, NoListChanges DEF HInv, HistoryTypeOK, Tick

\* Writing the file keeps it, also over another window's lines.
LEMMA EndSaveInv ==
    ASSUME HInv, NEW w \in Windows, EndSave(w)
    PROVE  HInv'
<1>1. PICK n \in 0 .. Len(list[w]) :
         hfile' \in Written(w, n) /\ unsaved' = [unsaved EXCEPT ![w] = n < Len(list[w])]
  BY DEF EndSave
<1>2. hfile' \in Seq(Entries)
  BY <1>1, WrittenIsLines
<1>3. unsaved' \in [Windows -> BOOLEAN]
  <2>1. (n < Len(list[w])) \in BOOLEAN
    OBVIOUS
  <2>. QED BY <1>1, <2>1 DEF HInv, HistoryTypeOK
<1>4. saving' \in [Windows -> BOOLEAN]
  BY DEF HInv, HistoryTypeOK, EndSave
<1>. QED BY <1>2, <1>3, <1>4, NoListChanges DEF HInv, HistoryTypeOK, EndSave

\* Deleting rows in the form keeps it.
LEMMA RemoveRowsInv ==
    ASSUME HInv, NEW w \in Windows, NEW i \in 1 .. MaxHistory, NEW n \in 1 .. MaxHistory,
           RemoveRows(w, i, n)
    PROVE  HInv'
<1>1. Sound(Without(list[w], i, n))
  BY HistoryAssumption, RemoveIsSound, ListsAreSound DEF RemoveRows
<1>2. list' = [list EXCEPT ![w] = Without(list[w], i, n)]
  BY DEF RemoveRows
<1>3. HistoryBounded' /\ list' \in [Windows -> Seq(Entries)]
  BY <1>1, <1>2, OneListChanges
<1>4. /\ hfile' \in Seq(Entries) /\ saving' \in [Windows -> BOOLEAN]
      /\ unsaved' \in [Windows -> BOOLEAN]
  BY BeginSaveTypes DEF RemoveRows
<1>5. src' \in [Windows -> Seq(Entries)]
  BY DEF HInv, HistoryTypeOK, RemoveRows
<1>. QED BY <1>3, <1>4, <1>5, ActsInv DEF HInv, HistoryTypeOK, RemoveRows

\* The end of a session keeps it.
LEMMA CloseSessionInv ==
    ASSUME HInv, NEW w \in Windows, NEW s \in Sessions, CloseSession(w, s)
    PROVE  HInv'
<1>1. left' \in [Windows -> [Sessions -> -1 .. MaxLeft]]
  BY HistoryAssumption DEF HInv, HistoryTypeOK, CloseSession
<1>2. src' \in [Windows -> Seq(Entries)]
  BY DEF HInv, HistoryTypeOK, CloseSession
<1>3. HistoryBounded' /\ list' \in [Windows -> Seq(Entries)]
  <2>. DEFINE l == IF Open(w) = {s} THEN <<>> ELSE list[w]
  <2>1. Sound(l)
    BY EmptyIsSound, ListsAreSound
  <2>2. list' = [list EXCEPT ![w] = l]
    BY DEF CloseSession
  <2>. HIDE DEF l
  <2>. QED BY <2>1, <2>2, OneListChanges
<1>. QED BY <1>1, <1>2, <1>3 DEF HInv, HistoryTypeOK, CloseSession

\* A window killed anywhere, within a save too, keeps it.
LEMMA CrashHistoryInv ==
    ASSUME HInv, NEW w \in Windows, CrashHistory(w)
    PROVE  HInv'
<1>1. hfile' \in Seq(Entries)
  BY WrittenIsLines DEF HInv, HistoryTypeOK, CrashHistory
<1>2. left' \in [Windows -> [Sessions -> -1 .. MaxLeft]]
  BY HistoryAssumption DEF HInv, HistoryTypeOK, CrashHistory
<1>3. /\ src' \in [Windows -> Seq(Entries)] /\ buf' \in [Windows -> Seq(Entries)]
      /\ saving' \in [Windows -> BOOLEAN]
  BY DEF HInv, HistoryTypeOK, CrashHistory
<1>4. HistoryBounded' /\ list' \in [Windows -> Seq(Entries)]
  BY EmptyIsSound, OneListChanges DEF CrashHistory
<1>. QED BY <1>1, <1>2, <1>3, <1>4 DEF HInv, HistoryTypeOK, CrashHistory

\* The inductive invariant holds in every state of every history.
THEOREM HistoryInvariant == HSpec => []HInv
<1>1. HInv /\ [HNext]_hvars => HInv'
  <2>. SUFFICES ASSUME HInv, [HNext]_hvars PROVE HInv'
    OBVIOUS
  <2>1. CASE UNCHANGED hvars
    BY <2>1 DEF hvars, HInv, HistoryTypeOK, HistoryBounded
  <2>2. CASE HNext
    <3>. PICK w \in Windows :
            \/ Reload(w) \/ EndSave(w) \/ CrashHistory(w)
            \/ \E i, n \in 1 .. MaxHistory : RemoveRows(w, i, n)
            \/ \E s \in Sessions :
                  \/ OpenSession(w, s) \/ CloseSession(w, s) \/ Tick(w, s)
                  \/ \E e \in Entries : PushToHistory(w, s, e)
      BY <2>2 DEF HNext
    <3>. QED BY ReloadInv, EndSaveInv, CrashHistoryInv, RemoveRowsInv, OpenSessionInv,
                CloseSessionInv, TickInv, PushToHistoryInv
  <2>. QED BY <2>1, <2>2
<1>. QED BY HInitInv, <1>1, PTL DEF HSpec

\* Type correctness of the history model.
THEOREM HistoryTypes == HSpec => []HistoryTypeOK
<1>1. HInv => HistoryTypeOK
  BY DEF HInv
<1>. QED BY <1>1, HistoryInvariant, PTL

\* The list of a window never exceeds MAX_HISTORY_COMMAND_COUNT and holds no
\* command twice, whatever other windows and a crash left in the file.
THEOREM HistoryStaysBounded == HSpec => []HistoryBounded
<1>1. HInv => HistoryBounded
  BY DEF HInv
<1>. QED BY <1>1, HistoryInvariant, PTL

----------------------------------------------------------------------------
(* Reload *)

\* What reload has done when lines b of the file s are still to come: the list l
\* holds the commands of the lines before them, and nothing was pushed out of it.
Loaded(l, b, s) ==
    /\ Len(b) <= Len(s) /\ Len(l) = Len(s) - Len(b)
    /\ \A k \in 1 .. Len(b) : b[k] = s[Len(s) - Len(b) + k]
    /\ Commands(l) = {s[k].cmd : k \in 1 .. Len(s) - Len(b)}

\* A file one window could have written.
Whole(s) == s # <<>> /\ Distinct(s) /\ Len(s) <= MaxHistory

ReloadInvariant == \A w \in Windows : Whole(src[w]) => Loaded(list[w], buf[w], src[w])

\* insert(0, hc) adds one command.
LEMMA InsertAddsCommand ==
    ASSUME NEW l \in Seq(Entries), NEW e \in Entries
    PROVE  Len(InsertFirst(l, e)) = Len(l) + 1
           /\ Commands(InsertFirst(l, e)) = Commands(l) \cup {e.cmd}
<1>. DEFINE m == InsertFirst(l, e)
<1>1. Len(l) \in Nat /\ DOMAIN l = 1 .. Len(l)
  BY LenProperties
<1>2. DOMAIN m = 1 .. Len(l) + 1 /\ Len(m) = Len(l) + 1
  BY <1>1 DEF InsertFirst
<1>3. m[1] = e /\ \A k \in 1 .. Len(l) : m[k + 1] = l[k]
  BY <1>1 DEF InsertFirst
<1>4. \A c \in Commands(m) : c \in Commands(l) \cup {e.cmd}
  <2>. SUFFICES ASSUME NEW k \in 1 .. Len(l) + 1
                PROVE  m[k].cmd \in Commands(l) \cup {e.cmd}
    BY <1>2 DEF Commands
  <2>1. CASE k = 1
    BY <2>1, <1>3
  <2>2. CASE k # 1
    <3>1. k - 1 \in 1 .. Len(l) /\ (k - 1) + 1 = k
      BY <2>2, <1>1
    <3>2. m[k] = l[k - 1]
      BY <3>1, <1>3
    <3>. QED BY <3>1, <3>2, <1>1 DEF Commands
  <2>. QED BY <2>1, <2>2
<1>5. e.cmd \in Commands(m)
  <2>1. 1 \in DOMAIN m
    BY <1>1, <1>2
  <2>. QED BY <2>1, <1>3 DEF Commands
<1>6. \A k \in 1 .. Len(l) : l[k].cmd \in Commands(m)
  <2>1. \A k \in 1 .. Len(l) : k + 1 \in DOMAIN m
    BY <1>1, <1>2
  <2>. QED BY <2>1, <1>3 DEF Commands
<1>7. \A c \in Commands(l) : c \in Commands(m)
  BY <1>1, <1>6 DEF Commands
<1>. QED BY <1>2, <1>4, <1>5, <1>7

\* One turn of reload's loop: the list is not full and does not hold the command.
LEMMA TurnLoads ==
    ASSUME NEW l \in Seq(Entries), NEW b \in Seq(Entries), NEW s \in Seq(Entries),
           Whole(s), Loaded(l, b, s), b # <<>>
    PROVE  Loaded(Added(l, Head(b)), Tail(b), s)
<1>. DEFINE e == Head(b)
<1>1. PICK n \in Nat, m \in Nat : Len(s) = n /\ Len(b) = m + 1 /\ m + 1 <= n
  <2>1. Len(s) \in Nat /\ Len(b) \in Nat /\ Len(b) # 0
    BY LenProperties, EmptySeq
  <2>2. Len(b) - 1 \in Nat /\ Len(b) = (Len(b) - 1) + 1
    BY <2>1
  <2>. QED BY <2>1, <2>2 DEF Loaded
<1>2. PICK r \in Nat : r = n - (m + 1) /\ n - m = r + 1 /\ r < n
  BY <1>1
<1>3. Len(l) = r /\ Commands(l) = {s[k].cmd : k \in 1 .. r} /\ DOMAIN s = 1 .. n /\ DOMAIN l = 1 .. r
  BY <1>1, <1>2, LenProperties DEF Loaded
<1>4. /\ e = b[1] /\ e \in Entries /\ Tail(b) \in Seq(Entries) /\ Len(Tail(b)) = m
      /\ \A k \in 1 .. m : Tail(b)[k] = b[k + 1]
  BY <1>1, HeadTailProperties
<1>5. e = s[r + 1]
  <2>1. 1 \in 1 .. Len(b) /\ Len(s) - Len(b) + 1 = r + 1
    BY <1>1, <1>2
  <2>2. b[1] = s[Len(s) - Len(b) + 1]
    BY <2>1 DEF Loaded
  <2>. QED BY <2>1, <2>2, <1>4
<1>. HIDE DEF e
<1>6. MakeRoom(l) = l
  <2>1. n <= MaxHistory /\ MaxHistory \in Nat
    BY <1>1, HistoryAssumption DEF Whole
  <2>2. ~(Len(l) >= MaxHistory)
    BY <2>1, <1>2, <1>3
  <2>. QED BY <2>2 DEF MakeRoom
<1>7. e.cmd \notin Commands(l)
  <2>1. \A k \in 1 .. r : k \in DOMAIN s /\ r + 1 \in DOMAIN s /\ k # r + 1
    BY <1>2, <1>3
  <2>2. \A k \in 1 .. r : s[k].cmd # e.cmd
    BY <2>1, <1>5 DEF Whole, Distinct
  <2>. QED BY <2>2, <1>3
<1>8. Places(l, e) = {}
  BY <1>7 DEF Places, Commands
<1>9. Added(l, e) = InsertFirst(l, e)
  BY <1>6, <1>8 DEF Added
<1>10. Len(Added(l, e)) = r + 1 /\ Commands(Added(l, e)) = Commands(l) \cup {e.cmd}
  BY <1>3, <1>4, <1>9, InsertAddsCommand
<1>11. Commands(Added(l, e)) = {s[k].cmd : k \in 1 .. r + 1}
  <2>1. 1 .. r + 1 = (1 .. r) \cup {r + 1}
    BY <1>2
  <2>. QED BY <2>1, <1>3, <1>5, <1>10
<1>12. ASSUME NEW k \in 1 .. m
       PROVE  Tail(b)[k] = s[n - m + k]
  <2>1. k + 1 \in 1 .. Len(b) /\ Len(s) - Len(b) + (k + 1) = n - m + k
    BY <1>1
  <2>2. b[k + 1] = s[Len(s) - Len(b) + (k + 1)]
    BY <2>1 DEF Loaded
  <2>. QED BY <2>1, <2>2, <1>4
<1>13. Len(Tail(b)) <= Len(s)
  BY <1>1, <1>4
<1>. QED BY <1>1, <1>2, <1>4, <1>10, <1>11, <1>12, <1>13 DEF Loaded, e

\* Nothing read yet.
LEMMA BeginsLoaded ==
    ASSUME NEW s \in Seq(Entries)
    PROVE  Loaded(<<>>, s, s)
<1>1. PICK n \in Nat : Len(s) = n
  BY LenProperties
<1>2. Len(<<>>) = 0 /\ n - n = 0 /\ \A k \in 1 .. n : n - n + k = k
  BY <1>1, EmptySeq
<1>3. Commands(<<>>) = {} /\ 1 .. 0 = {}
  BY DEF Commands
<1>. QED BY <1>1, <1>2, <1>3 DEF Loaded

\* Only the list, the lines and the file of one window change, and they are Loaded
\* or the file is forgotten.
LEMMA OneReloadChanges ==
    ASSUME HInv, ReloadInvariant, NEW w \in Windows, NEW l, NEW b, NEW s,
           list' = [list EXCEPT ![w] = l], buf' = [buf EXCEPT ![w] = b],
           src' = [src EXCEPT ![w] = s], Whole(s) => Loaded(l, b, s)
    PROVE  ReloadInvariant'
<1>1. /\ list \in [Windows -> Seq(Entries)] /\ buf \in [Windows -> Seq(Entries)]
      /\ src \in [Windows -> Seq(Entries)]
  BY DEF HInv, HistoryTypeOK
<1>2. ASSUME NEW v \in Windows, Whole(src'[v])
      PROVE  Loaded(list'[v], buf'[v], src'[v])
  <2>1. CASE v = w
    <3>1. list'[v] = l /\ buf'[v] = b /\ src'[v] = s
      BY <2>1, <1>1
    <3>. QED BY <3>1, <1>2
  <2>2. CASE v # w
    <3>1. list'[v] = list[v] /\ buf'[v] = buf[v] /\ src'[v] = src[v]
      BY <2>2, <1>1
    <3>. QED BY <3>1, <1>2 DEF ReloadInvariant
  <2>. QED BY <2>1, <2>2
<1>. QED BY <1>2 DEF ReloadInvariant

\* A step of a window keeps ReloadInvariant.
LEMMA StepReloads ==
    ASSUME HInv, ReloadInvariant, HNext
    PROVE  ReloadInvariant'
<1>0. /\ list \in [Windows -> Seq(Entries)] /\ buf \in [Windows -> Seq(Entries)]
      /\ src \in [Windows -> Seq(Entries)] /\ hfile \in Seq(Entries)
  BY DEF HInv, HistoryTypeOK
<1>1. ASSUME list' = list, buf' = buf, src' = src PROVE ReloadInvariant'
  BY <1>1 DEF ReloadInvariant
<1>2. ~Whole(<<>>)
  BY DEF Whole
<1>3. ASSUME NEW w \in Windows, NEW l, list' = [list EXCEPT ![w] = l],
             src' = [src EXCEPT ![w] = <<>>], NEW b, buf' = [buf EXCEPT ![w] = b]
      PROVE  ReloadInvariant'
  BY <1>2, <1>3, OneReloadChanges
<1>4. ASSUME NEW w \in Windows, Reload(w) PROVE ReloadInvariant'
  <2>. DEFINE l == Added(list[w], Head(buf[w]))  b == Tail(buf[w])  s == src[w]
  <2>1. list' = [list EXCEPT ![w] = l] /\ buf' = [buf EXCEPT ![w] = b] /\ src' = [src EXCEPT ![w] = s]
    BY <1>0, <1>4 DEF Reload
  <2>2. Whole(s) => Loaded(l, b, s)
    <3>1. buf[w] # <<>> /\ list[w] \in Seq(Entries) /\ buf[w] \in Seq(Entries) /\ s \in Seq(Entries)
      BY <1>0, <1>4 DEF Reload
    <3>2. Whole(s) => Loaded(list[w], buf[w], s)
      BY DEF ReloadInvariant
    <3>. QED BY <3>1, <3>2, TurnLoads
  <2>. HIDE DEF l, b, s
  <2>. QED BY <2>1, <2>2, OneReloadChanges
<1>5. ASSUME NEW w \in Windows, NEW s \in Sessions, OpenSession(w, s) PROVE ReloadInvariant'
  <2>1. CASE Open(w) = {}
    <3>1. /\ list' = [list EXCEPT ![w] = <<>>] /\ buf' = [buf EXCEPT ![w] = hfile]
          /\ src' = [src EXCEPT ![w] = hfile]
      BY <1>5, <2>1 DEF OpenSession
    <3>2. Loaded(<<>>, hfile, hfile)
      BY <1>0, BeginsLoaded
    <3>. QED BY <3>1, <3>2, OneReloadChanges
  <2>2. CASE Open(w) # {}
    BY <1>1, <1>5, <2>2 DEF OpenSession
  <2>. QED BY <2>1, <2>2
<1>6. ASSUME NEW w \in Windows, NEW s \in Sessions, CloseSession(w, s) PROVE ReloadInvariant'
  <2>1. CASE Open(w) = {s}
    <3>1. /\ list' = [list EXCEPT ![w] = <<>>] /\ buf' = [buf EXCEPT ![w] = buf[w]]
          /\ src' = [src EXCEPT ![w] = <<>>]
      BY <1>0, <1>6, <2>1 DEF CloseSession
    <3>. QED BY <3>1, <1>3
  <2>2. CASE Open(w) # {s}
    <3>1. list' = list /\ buf' = buf /\ src' = src
      BY <1>0, <1>6, <2>2 DEF CloseSession
    <3>. QED BY <3>1, <1>1
  <2>. QED BY <2>1, <2>2
<1>7. ASSUME NEW w \in Windows, NEW s \in Sessions, NEW e \in Entries, PushToHistory(w, s, e)
      PROVE  ReloadInvariant'
  <2>1. /\ list' = [list EXCEPT ![w] = Added(list[w], e)] /\ src' = [src EXCEPT ![w] = <<>>]
        /\ buf' = [buf EXCEPT ![w] = buf[w]]
    BY <1>0, <1>7 DEF PushToHistory
  <2>. QED BY <2>1, <1>3
<1>8. ASSUME NEW w \in Windows, NEW i, NEW n, RemoveRows(w, i, n) PROVE ReloadInvariant'
  <2>1. /\ list' = [list EXCEPT ![w] = Without(list[w], i, n)] /\ src' = [src EXCEPT ![w] = <<>>]
        /\ buf' = [buf EXCEPT ![w] = buf[w]]
    BY <1>0, <1>8 DEF RemoveRows
  <2>. QED BY <2>1, <1>3
<1>9. ASSUME NEW w \in Windows, CrashHistory(w) PROVE ReloadInvariant'
  <2>1. /\ list' = [list EXCEPT ![w] = <<>>] /\ src' = [src EXCEPT ![w] = <<>>]
        /\ buf' = [buf EXCEPT ![w] = <<>>]
    BY <1>9 DEF CrashHistory
  <2>. QED BY <2>1, <1>3
<1>10. ASSUME NEW w \in Windows, EndSave(w) PROVE ReloadInvariant'
  BY <1>1, <1>10 DEF EndSave
<1>11. ASSUME NEW w \in Windows, NEW s \in Sessions, Tick(w, s) PROVE ReloadInvariant'
  BY <1>1, <1>11 DEF Tick
<1>. QED BY <1>4, <1>5, <1>6, <1>7, <1>8, <1>9, <1>10, <1>11 DEF HNext

\* A history that one window saved comes back whole when it is reloaded (RestartKeeps).
THEOREM RestartKeepsHistory == HSpec => []RestartKeeps
<1>1. HInit => ReloadInvariant
  <2>. SUFFICES ASSUME HInit, NEW w \in Windows PROVE ~Whole(src[w])
    BY DEF ReloadInvariant
  <2>. QED BY DEF HInit, Whole
<1>2. HInv /\ ReloadInvariant /\ [HNext]_hvars => ReloadInvariant'
  <2>1. UNCHANGED hvars /\ ReloadInvariant => ReloadInvariant'
    BY DEF hvars, ReloadInvariant
  <2>. QED BY <2>1, StepReloads
<1>3. HInv /\ ReloadInvariant => RestartKeeps
  <2>. SUFFICES ASSUME HInv, ReloadInvariant, NEW w \in Windows, buf[w] = <<>>, src[w] # <<>>,
                       Distinct(src[w]), Len(src[w]) <= MaxHistory
                PROVE  Commands(list[w]) = Commands(src[w])
    BY DEF RestartKeeps
  <2>1. Loaded(list[w], buf[w], src[w])
    BY DEF ReloadInvariant, Whole
  <2>2. PICK n \in Nat : Len(src[w]) = n /\ DOMAIN src[w] = 1 .. n
    BY LenProperties DEF HInv, HistoryTypeOK
  <2>3. Len(buf[w]) = 0 /\ n - 0 = n
    BY <2>2, EmptySeq
  <2>4. Commands(list[w]) = {src[w][k].cmd : k \in 1 .. n}
    BY <2>1, <2>2, <2>3 DEF Loaded
  <2>. QED BY <2>2, <2>4 DEF Commands
<1>. QED BY <1>1, <1>2, <1>3, HistoryInvariant, PTL DEF HSpec

=============================================================================
