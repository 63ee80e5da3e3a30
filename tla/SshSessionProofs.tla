-------------------------- MODULE SshSessionProofs ---------------------------
(***************************************************************************)
(* A session that was not entered again, or closed, inside a nested event  *)
(* loop runs one transfer at a time, and uses no null or dangling pointer  *)
(* unless its widget was closed in a split view: for any number of         *)
(* transfers, pieces of output and choices in the menu.                    *)
(***************************************************************************)
EXTENDS SshSession, FiniteSetTheorems, SequenceTheorems, TLAPS

Handlers == Waits \cup {"sleep", "dialog", "box"}
Frames == [at : Handlers, exit : {"none", "ok", "late"}, timer : BOOLEAN]
Deletions == [do : {"delete"}, z : Objects, depth : Nat]
Items == Deletions \cup [do : {"start"}]

\* The loops v, with the spy's place a and the place b of m_eventLoop.
Shape(v, a, b) ==
    /\ v \in Seq(Frames) /\ a \in 0 .. Len(v) /\ b \in 0 .. Len(v)
    /\ b # 0 => v[b].at \in Waits

\* m_zmodem, z, is null or points to an object that exists.
Points(o, z) ==
    /\ o \in [Objects -> {"none", "new", "running", "failed", "ended", "gone"}]
    /\ z \in 0 .. MaxObjects /\ (z # 0 => o[z] \notin {"none", "gone"})

STypes ==
    /\ ssh \in {"up", "down", "orphan", "closed"} /\ Shape(stack, spy, loop) /\ Points(obj, zm)
    /\ posted \in Seq(Items) /\ crashed \in BOOLEAN /\ tangled \in BOOLEAN

\* At most one deletion is pending, of z and for the outermost loop.
Pending(q, z) ==
    /\ \A k \in DOMAIN q : q[k].do = "delete" => q[k].z = z /\ q[k].depth = 0
    /\ \A j, k \in DOMAIN q : q[j].do = "delete" /\ q[k].do = "delete" => j = k
NoDeletions(q) == \A k \in DOMAIN q : q[k].do # "delete"

\* A session that is not tangled: one nested loop at most; m_zmodem is null in a
\* probe, which has its spy, and points to a process that was not started in a
\* dialog or a box; only the process m_zmodem points to may run.
Calm(v, a, z, o, q) ==
    /\ Len(v) <= 1 /\ Pending(q, z)
    /\ \A y \in Objects : o[y] = "running" => y = z
    /\ Len(v) = 1 =>
         \/ v[1].at = "sleep" /\ z = 0
         \/ v[1].at \in Waits /\ z = 0 /\ a = 1
         \/ v[1].at = "dialog" /\ z # 0 /\ o[z] = "new" /\ NoDeletions(q)
         \/ v[1].at = "box" /\ z # 0 /\ o[z] = "new"

\* No bad pointer was used, unless by an object without a terminal.
Safe == crashed => ssh = "orphan"
USE DEF Safe

SInv == STypes /\ (~tangled => Safe /\ Calm(stack, spy, zm, obj, posted))

----------------------------------------------------------------------------
(* The nested loops *)

LEMMA FrameTypes ==
    /\ \A at \in Handlers : Frame(at) \in Frames /\ Frame(at).at = at /\ Frame(at).exit = "none"
    /\ Waits \subseteq Handlers /\ "sleep" \in Handlers /\ "dialog" \in Handlers /\ "box" \in Handlers
  BY DEF Frame, Frames, Handlers

\* A loop is opened within the others.
LEMMA Pushed ==
    ASSUME NEW v \in Seq(Frames), NEW at \in Handlers
    PROVE  LET w == Append(v, Frame(at))
           IN  /\ w \in Seq(Frames) /\ Len(w) = Len(v) + 1 /\ w[Len(v) + 1] = Frame(at)
               /\ \A i \in 1 .. Len(v) : w[i] = v[i]
  BY FrameTypes, AppendProperties

LEMMA PushShape ==
    ASSUME NEW v, NEW a, NEW b, Shape(v, a, b), NEW at \in Handlers
    PROVE  Shape(Append(v, Frame(at)), a, b)
<1>. DEFINE w == Append(v, Frame(at))
<1>1. PICK n \in Nat : Len(v) = n
  BY LenProperties DEF Shape
<1>2. w \in Seq(Frames) /\ Len(w) = n + 1 /\ \A i \in 1 .. n : w[i] = v[i]
  BY <1>1, Pushed DEF Shape
<1>. HIDE DEF w
<1>3. a \in 0 .. n /\ b \in 0 .. n /\ (b # 0 => v[b].at \in Waits)
  BY <1>1 DEF Shape
<1>4. b # 0 => w[b].at \in Waits
  BY <1>1, <1>2, <1>3
<1>5. a \in 0 .. n + 1 /\ b \in 0 .. n + 1
  BY <1>1, <1>3
<1>. QED BY <1>2, <1>4, <1>5 DEF Shape, w

\* The innermost loop is left.
LEMMA Popped ==
    ASSUME NEW v \in Seq(Frames), Len(v) > 0
    PROVE  LET w == SubSeq(v, 1, Len(v) - 1)
           IN  /\ w \in Seq(Frames) /\ Len(w) = Len(v) - 1 /\ Len(v) - 1 \in Nat
               /\ \A i \in 1 .. Len(v) - 1 : w[i] = v[i]
<1>1. PICK n \in Nat : Len(v) = n + 1 /\ Len(v) - 1 = n
  <2>1. Len(v) \in Nat /\ Len(v) - 1 \in Nat /\ Len(v) = (Len(v) - 1) + 1
    BY LenProperties
  <2>. QED BY <2>1
<1>2. \A i \in 1 .. n : v[i] \in Frames
  BY <1>1, ElementOfSeq
<1>. QED BY <1>1, <1>2, SubSeqProperties

LEMMA PopShape ==
    ASSUME NEW v, NEW a, NEW b, Shape(v, a, b), Len(v) > 0
    PROVE  /\ Shape(SubSeq(v, 1, Len(v) - 1), IF a = Len(v) THEN 0 ELSE a, IF b = Len(v) THEN 0 ELSE b)
           /\ (IF a > Len(v) - 1 THEN 0 ELSE a) = IF a = Len(v) THEN 0 ELSE a
           /\ (IF b > Len(v) - 1 THEN 0 ELSE b) = IF b = Len(v) THEN 0 ELSE b
<1>. DEFINE w == SubSeq(v, 1, Len(v) - 1)
            a2 == IF a = Len(v) THEN 0 ELSE a  b2 == IF b = Len(v) THEN 0 ELSE b
<1>1. PICK n \in Nat : Len(v) - 1 = n /\ Len(v) = n + 1
  BY LenProperties DEF Shape
<1>2. w \in Seq(Frames) /\ Len(w) = n /\ \A i \in 1 .. n : w[i] = v[i]
  BY <1>1, Popped DEF Shape
<1>. HIDE DEF w
<1>3. a \in 0 .. n + 1 /\ b \in 0 .. n + 1 /\ (b # 0 => v[b].at \in Waits)
  BY <1>1 DEF Shape
<1>4. a2 \in 0 .. n /\ b2 \in 0 .. n /\ (b2 # 0 => b2 = b /\ b2 \in 1 .. n)
  BY <1>1, <1>3
<1>5. /\ (IF a > n THEN 0 ELSE a) = a2 /\ (IF b > n THEN 0 ELSE b) = b2
  BY <1>1, <1>3
<1>. HIDE DEF a2, b2
<1>6. b2 # 0 => w[b2].at \in Waits
  BY <1>2, <1>3, <1>4
<1>. QED BY <1>1, <1>2, <1>4, <1>5, <1>6 DEF Shape, w, a2, b2

\* A loop is told to exit: the handlers stay.
LEMMA ExitShape ==
    ASSUME NEW v, NEW a, NEW b, Shape(v, a, b), NEW w \in Seq(Frames), Len(w) = Len(v),
           \A k \in 1 .. Len(v) : w[k].at = v[k].at
    PROVE  Shape(w, a, b)
<1>1. PICK n \in Nat : Len(v) = n
  BY LenProperties DEF Shape
<1>2. a \in 0 .. n /\ b \in 0 .. n /\ (b # 0 => v[b].at \in Waits)
  BY <1>1 DEF Shape
<1>3. b # 0 => w[b].at \in Waits
  BY <1>1, <1>2
<1>. QED BY <1>1, <1>2, <1>3 DEF Shape

----------------------------------------------------------------------------
(* Deletions *)

LEMMA ItemTypes ==
    ASSUME NEW p \in Items, p.do = "delete"
    PROVE  p.z \in Objects /\ p.depth \in Nat
<1>1. CASE p \in Deletions
  BY <1>1 DEF Deletions
<1>2. CASE p \in [do : {"start"}]
  BY <1>2
<1>. QED BY <1>1, <1>2 DEF Items

\* An item is posted.
LEMMA Posted ==
    ASSUME NEW q \in Seq(Items), NEW p \in Items
    PROVE  /\ Append(q, p) \in Seq(Items) /\ DOMAIN Append(q, p) = 1 .. Len(q) + 1
           /\ DOMAIN q = 1 .. Len(q) /\ Len(q) \in Nat /\ Append(q, p)[Len(q) + 1] = p
           /\ \A k \in 1 .. Len(q) : Append(q, p)[k] = q[k]
  BY AppendProperties, LenProperties

\* deleteLater of what m_zmodem points to.
LEMMA DeletesLater ==
    ASSUME NEW q \in Seq(Items), NEW z \in 0 .. MaxObjects, NEW d \in Nat
    PROVE  /\ DeleteLater(q, z, d) \in Seq(Items)
           /\ Pending(q, z) /\ d = 0 => Pending(DeleteLater(q, z, d), z)
<1>. DEFINE p == [do |-> "delete", z |-> z, depth |-> d]  r == DeleteLater(q, z, d)
<1>1. CASE z = 0 \/ \E k \in DOMAIN q : q[k].do = "delete" /\ q[k].z = z
  BY <1>1 DEF DeleteLater
<1>2. CASE ~(z = 0 \/ \E k \in DOMAIN q : q[k].do = "delete" /\ q[k].z = z)
  <2>1. r = Append(q, p)
    BY <1>2 DEF DeleteLater
  <2>2. p \in Items
    BY <1>2, SessionAssumption DEF Items, Deletions, Objects
  <2>3. p.do = "delete" /\ p.z = z /\ p.depth = d
    OBVIOUS
  <2>. HIDE DEF p, r
  <2>4. /\ r \in Seq(Items) /\ DOMAIN r = 1 .. Len(q) + 1 /\ DOMAIN q = 1 .. Len(q)
        /\ Len(q) \in Nat /\ r[Len(q) + 1] = p /\ \A k \in 1 .. Len(q) : r[k] = q[k]
    BY <2>1, <2>2, Posted
  <2>5. ASSUME Pending(q, z), d = 0
        PROVE  Pending(r, z)
    <3>1. \A k \in 1 .. Len(q) : q[k].do # "delete"
      BY <2>4, <2>5, <1>2 DEF Pending
    <3>2. \A k \in DOMAIN r : r[k].do = "delete" => k = Len(q) + 1
      BY <3>1, <2>4
    <3>. QED BY <3>2, <2>3, <2>4, <2>5 DEF Pending
  <2>. QED BY <2>4, <2>5 DEF r
<1>. QED BY <1>1, <1>2

\* The header of a transfer is seen.
LEMMA StartPosted ==
    ASSUME NEW q \in Seq(Items)
    PROVE  LET r == Append(q, [do |-> "start"])
           IN  /\ r \in Seq(Items) /\ \A z : Pending(q, z) => Pending(r, z)
               /\ NoDeletions(q) => NoDeletions(r)
<1>. DEFINE p == [do |-> "start"]  r == Append(q, p)
<1>1. p \in Items /\ p.do # "delete"
  BY DEF Items
<1>. HIDE DEF p
<1>2. /\ r \in Seq(Items) /\ DOMAIN r = 1 .. Len(q) + 1 /\ DOMAIN q = 1 .. Len(q)
      /\ Len(q) \in Nat /\ r[Len(q) + 1] = p /\ \A k \in 1 .. Len(q) : r[k] = q[k]
  BY <1>1, Posted
<1>. HIDE DEF r
<1>3. \A k \in DOMAIN r : r[k].do = "delete" => k \in DOMAIN q /\ r[k] = q[k]
  BY <1>1, <1>2
<1>4. \A z : Pending(q, z) => Pending(r, z)
  BY <1>3 DEF Pending
<1>5. NoDeletions(q) => NoDeletions(r)
  BY <1>3 DEF NoDeletions
<1>. QED BY <1>2, <1>4, <1>5 DEF r, p

\* An item is taken out.
LEMMA TakenOut ==
    ASSUME NEW q \in Seq(Items), NEW k \in DOMAIN q
    PROVE  LET r == SubSeq(q, 1, k - 1) \o SubSeq(q, k + 1, Len(q))
           IN  /\ r \in Seq(Items) /\ \A z : Pending(q, z) => Pending(r, z)
               /\ NoDeletions(q) => NoDeletions(r)
               /\ \A z : Pending(q, z) /\ q[k].do = "delete" => NoDeletions(r)
<1>. DEFINE u == SubSeq(q, 1, k - 1)  v == SubSeq(q, k + 1, Len(q))  r == u \o v
<1>1. PICK n \in Nat : Len(q) = n /\ DOMAIN q = 1 .. n /\ k \in 1 .. n
  BY LenProperties
<1>2. \A i \in 1 .. n : q[i] \in Items
  BY <1>1, ElementOfSeq
<1>3. u \in Seq(Items) /\ Len(u) = k - 1 /\ \A i \in 1 .. k - 1 : u[i] = q[i]
  <2>1. k - 1 \in Nat /\ \A i \in 1 .. k - 1 : q[i] \in Items
    BY <1>1, <1>2
  <2>. QED BY <2>1, <1>1, SubSeqProperties
<1>4. v \in Seq(Items) /\ Len(v) = n - k /\ \A i \in 1 .. n - k : v[i] = q[i + k]
  <2>1. \A i \in k + 1 .. n : q[i] \in Items
    BY <1>1, <1>2
  <2>2. CASE k = n
    <3>1. k + 1 > n /\ n - k = 0 /\ 1 .. n - k = {}
      BY <2>2, <1>1
    <3>2. v = <<>>
      BY <3>1, <1>1, SubSeqEmpty
    <3>3. v \in Seq(Items) /\ Len(v) = 0
      BY <3>2, EmptySeq
    <3>. HIDE DEF v
    <3>. QED BY <3>1, <3>3
  <2>3. CASE k # n
    <3>1. k + 1 <= n /\ n - (k + 1) + 1 = n - k /\ k + 1 \in Int /\ n \in Int
          /\ \A i \in 1 .. n - k : (k + 1) + i - 1 = i + k
      BY <2>3, <1>1
    <3>2. v = [i \in 1 .. n - k |-> q[i + k]]
      BY <3>1, <1>1 DEF SubSeq
    <3>3. n - k \in Nat /\ \A i \in 1 .. n - k : i + k \in 1 .. n
      BY <1>1
    <3>4. PICK m \in Nat : n - k = m
      BY <3>3
    <3>5. \A i \in 1 .. m : q[i + k] \in Items
      BY <3>3, <3>4, <1>2
    <3>. HIDE DEF v
    <3>6. v = [i \in 1 .. m |-> q[i + k]]
      BY <3>2, <3>4
    <3>7. v \in [1 .. m -> Items] /\ \A i \in 1 .. m : v[i] = q[i + k]
      BY <3>5, <3>6
    <3>8. v \in Seq(Items) /\ Len(v) = m
      BY <3>4, <3>7, LenProperties
    <3>. QED BY <3>4, <3>7, <3>8
  <2>. QED BY <2>2, <2>3
<1>. HIDE DEF u, v
<1>5. /\ r \in Seq(Items) /\ Len(r) = Len(u) + Len(v)
      /\ \A i \in 1 .. Len(u) + Len(v) : r[i] = IF i <= Len(u) THEN u[i] ELSE v[i - Len(u)]
  BY <1>3, <1>4, ConcatProperties
<1>. DEFINE from(i) == IF i < k THEN i ELSE i + 1
<1>6. Len(r) = n - 1 /\ DOMAIN r = 1 .. n - 1
  <2>1. k - 1 + (n - k) = n - 1
    BY <1>1
  <2>. QED BY <2>1, <1>3, <1>4, <1>5, LenProperties
<1>7. ASSUME NEW i \in 1 .. n - 1
      PROVE  from(i) \in 1 .. n /\ from(i) # k /\ r[i] = q[from(i)]
  <2>0. k - 1 + (n - k) = n - 1
    BY <1>1
  <2>1. r[i] = IF i <= k - 1 THEN u[i] ELSE v[i - (k - 1)]
    BY <2>0, <1>3, <1>4, <1>5
  <2>2. CASE i < k
    <3>1. i \in 1 .. k - 1 /\ from(i) = i
      BY <2>2, <1>1
    <3>. QED BY <3>1, <2>1, <2>2, <1>1, <1>3
  <2>3. CASE ~(i < k)
    <3>1. ~(i <= k - 1) /\ i - (k - 1) \in 1 .. n - k /\ i - (k - 1) + k = i + 1 /\ from(i) = i + 1
      BY <2>3, <1>1
    <3>2. r[i] = v[i - (k - 1)] /\ v[i - (k - 1)] = q[i - (k - 1) + k]
      BY <3>1, <2>1, <1>4
    <3>3. i + 1 \in 1 .. n /\ i + 1 # k
      BY <2>3, <1>1
    <3>. QED BY <3>1, <3>2, <3>3
  <2>. QED BY <2>2, <2>3
<1>8. \A i, j \in 1 .. n - 1 : from(i) = from(j) => i = j
  BY <1>1
<1>. HIDE DEF r, from
<1>9. \A z : Pending(q, z) => Pending(r, z)
  BY <1>1, <1>6, <1>7, <1>8 DEF Pending
<1>10. NoDeletions(q) => NoDeletions(r)
  BY <1>1, <1>6, <1>7 DEF NoDeletions
<1>11. \A z : Pending(q, z) /\ q[k].do = "delete" => NoDeletions(r)
  BY <1>1, <1>6, <1>7 DEF Pending, NoDeletions
<1>. QED BY <1>5, <1>9, <1>10, <1>11 DEF r, u, v

----------------------------------------------------------------------------
(* Parts of steps *)

\* A deletion is of an object, so there is none when m_zmodem is null.
LEMMA NothingPending ==
    ASSUME NEW q \in Seq(Items), Pending(q, 0)
    PROVE  NoDeletions(q)
<1>1. \A k \in DOMAIN q : q[k] \in Items
  BY LenProperties, ElementOfSeq
<1>2. 0 \notin Objects
  BY SessionAssumption DEF Objects
<1>. QED BY <1>1, <1>2, ItemTypes DEF Pending, NoDeletions

LEMMA NoDeletionsPend ==
    ASSUME NEW q, NoDeletions(q), NEW z
    PROVE  Pending(q, z)
  BY DEF Pending, NoDeletions

\* What SInv says.
LEMMA Facts ==
    ASSUME SInv
    PROVE  /\ stack \in Seq(Frames) /\ Depth \in Nat /\ DOMAIN stack = 1 .. Depth
           /\ Shape(stack, spy, loop) /\ Points(obj, zm) /\ posted \in Seq(Items)
           /\ spy \in 0 .. Depth /\ loop \in 0 .. Depth /\ zm \in 0 .. MaxObjects
           /\ crashed \in BOOLEAN /\ tangled \in BOOLEAN /\ ssh \in {"up", "down", "orphan", "closed"}
           /\ (~tangled => Safe /\ Calm(stack, spy, zm, obj, posted))
           /\ \A i \in 1 .. Depth : stack[i] \in Frames
<1>1. stack \in Seq(Frames) /\ Shape(stack, spy, loop) /\ Points(obj, zm)
  BY DEF SInv, STypes, Shape
<1>2. Len(stack) \in Nat /\ DOMAIN stack = 1 .. Len(stack) /\ \A i \in 1 .. Len(stack) : stack[i] \in Frames
  BY <1>1, LenProperties, ElementOfSeq
<1>. QED BY <1>1, <1>2 DEF SInv, STypes, Shape, Points, Depth

LEMMA Enough ==
    ASSUME ssh' \in {"up", "down", "orphan", "closed"}, Shape(stack', spy', loop'), Points(obj', zm'),
           posted' \in Seq(Items), crashed' \in BOOLEAN, tangled' \in BOOLEAN,
           ~tangled' => Safe' /\ Calm(stack', spy', zm', obj', posted')
    PROVE  SInv'
  BY DEF SInv, STypes

\* A bad pointer is used, with an excuse.
LEMMA CrashKeeps == ASSUME SInv, Crash, ssh' = ssh, tangled \/ ssh = "orphan" PROVE SInv'
<1>1. crashed' = TRUE /\ UNCHANGED <<obj, zm, stack, spy, loop, posted, tangled>>
  BY DEF Crash
<1>. QED BY <1>1, Facts, Enough

\* Without a probe, a dialog or a box there is no nested loop.
LEMMA NothingNested ==
    ASSUME SInv, ~Probing, ~Modal
    PROVE  Depth = 0
<1>. SUFFICES ASSUME Depth # 0 PROVE FALSE
  OBVIOUS
<1>1. Depth \in DOMAIN stack /\ stack[Depth] \in Frames
  BY Facts
<1>. QED BY <1>1 DEF Frames, Handlers, Probing, Modal

\* Leave.
LEMMA Leaves ==
    ASSUME SInv, Depth > 0, NEW q \in Seq(Items), Leave(q), obj' = obj, zm' = zm, ssh' = ssh,
           Pending(posted, zm) /\ Depth = 1 => Pending(q, zm)
    PROVE  SInv'
<1>. USE DEF Depth
<1>1. /\ Shape(stack', spy', loop') /\ Len(stack') = Depth - 1
  BY Facts, PopShape, Popped DEF Leave, Below
<1>2. ASSUME ~tangled'
      PROVE  Safe' /\ Calm(stack', spy', zm', obj', posted')
  <2>1. ~tangled /\ crashed' = crashed /\ posted' = q
    BY <1>2 DEF Leave
  <2>2. Safe /\ Calm(stack, spy, zm, obj, posted)
    BY <2>1, Facts
  <2>3. Depth = 1 /\ Len(stack') = 0
    BY <2>2, <1>1, Facts DEF Calm
  <2>4. Pending(q, zm) /\ \A y \in Objects : obj[y] = "running" => y = zm
    BY <2>2, <2>3 DEF Calm
  <2>. QED BY <2>1, <2>2, <2>3, <2>4 DEF Calm
<1>. QED BY <1>1, <1>2, Facts, Enough DEF Leave

\* wait, with a spy.
LEMMA WaitsFor ==
    ASSUME SInv, Depth > 0, NEW at \in Waits, NEW s \in 0 .. Depth, s # 0, WaitFor(at, s),
           ssh' = ssh, ~tangled => s = 1 /\ zm = 0
    PROVE  SInv'
<1>. DEFINE w == Append(Below, Frame(at))
<1>1. stack' = w /\ loop' = Depth /\ spy' = s /\ UNCHANGED <<obj, zm, posted, crashed, tangled>>
  BY DEF WaitFor
<1>2. PICK n \in Nat : Depth = n + 1 /\ Depth - 1 = n
  BY Facts
<1>3. Below \in Seq(Frames) /\ Len(Below) = n
  BY <1>2, Facts, Popped DEF Below, Depth
<1>4. at \in Handlers
  BY DEF Handlers
<1>5. w \in Seq(Frames) /\ Len(w) = n + 1 /\ w[n + 1] = Frame(at) /\ Frame(at).at = at
  BY <1>3, <1>4, Pushed, FrameTypes
<1>. HIDE DEF w
<1>6. Shape(stack', spy', loop')
  BY <1>1, <1>2, <1>5 DEF Shape
<1>7. ASSUME ~tangled'
      PROVE  Safe' /\ Calm(stack', spy', zm', obj', posted')
  <2>1. ~tangled /\ Safe /\ Calm(stack, spy, zm, obj, posted)
    BY <1>1, <1>7, Facts
  <2>2. Depth = 1 /\ n = 0
    BY <2>1, <1>2 DEF Calm, Depth
  <2>3. w[1].at = at /\ Len(w) = 1
    BY <2>2, <1>5
  <2>4. Pending(posted, zm) /\ \A y \in Objects : obj[y] = "running" => y = zm
    BY <2>1 DEF Calm
  <2>5. stack' = w /\ zm' = zm /\ obj' = obj /\ posted' = posted /\ crashed' = crashed /\ spy' = s
    BY <1>1
  <2>6. s = 1 /\ zm = 0
    BY <2>1
  <2>7. Calm(w, s, zm, obj, posted)
    BY <2>3, <2>4, <2>6 DEF Calm
  <2>. QED BY <2>1, <2>5, <2>7
<1>. QED BY <1>1, <1>6, <1>7, Facts, Enough

\* createZmodem and the dialog, on top of the loops v.
LEMMA OpensDialog ==
    ASSUME SInv, NEW v, NEW q \in Seq(Items), OpenDialog(v, q), ssh' = ssh,
           Shape(v, IF spy > Len(v) THEN 0 ELSE spy, IF loop > Len(v) THEN 0 ELSE loop),
           tangled' \in BOOLEAN,
           ~tangled' => ~tangled /\ Len(v) = 0 /\ zm = 0 /\ Pending(q, 0)
    PROVE  SInv'
<1>1. PICK z \in Objects :
         /\ obj[z] = "none" /\ obj' = [obj EXCEPT ![z] = "new"] /\ zm' = z
         /\ stack' = Append(v, Frame("dialog"))
         /\ spy' = (IF spy > Len(v) THEN 0 ELSE spy) /\ loop' = (IF loop > Len(v) THEN 0 ELSE loop)
         /\ posted' = q /\ crashed' = crashed
  BY DEF OpenDialog
<1>2. Shape(stack', spy', loop')
  BY <1>1, PushShape, FrameTypes
<1>3. z \in 0 .. MaxObjects /\ z # 0
  BY SessionAssumption DEF Objects
<1>4. Points(obj', zm')
  BY <1>1, <1>3, Facts DEF Points
<1>5. ASSUME ~tangled'
      PROVE  Safe' /\ Calm(stack', spy', zm', obj', posted')
  <2>1. ~tangled /\ Len(v) = 0 /\ zm = 0 /\ Pending(q, 0)
    BY <1>5
  <2>2. Safe /\ Calm(stack, spy, zm, obj, posted)
    BY <2>1, Facts
  <2>3. Len(stack') = 1 /\ stack'[1].at = "dialog"
    <3>1. v \in Seq(Frames) /\ Len(v) + 1 = 1
      BY <2>1 DEF Shape
    <3>2. Len(stack') = Len(v) + 1 /\ stack'[Len(v) + 1] = Frame("dialog")
      BY <3>1, <1>1, Pushed, FrameTypes
    <3>. QED BY <3>1, <3>2, FrameTypes
  <2>4. obj \in [Objects -> {"none", "new", "running", "failed", "ended", "gone"}]
    BY Facts DEF Points
  <2>5. obj'[zm'] = "new" /\ \A y \in Objects : obj'[y] = "running" => y = zm'
    <3>1. \A y \in Objects : obj[y] # "running"
      BY <2>1, <2>2, SessionAssumption DEF Calm, Objects
    <3>. QED BY <3>1, <2>4, <1>1
  <2>6. NoDeletions(q) /\ Pending(q, zm')
    BY <2>1, NothingPending, NoDeletionsPend
  <2>. QED BY <2>2, <2>3, <2>5, <2>6, <1>1, <1>3 DEF Calm
<1>. QED BY <1>1, <1>2, <1>4, <1>5, Facts, Enough

----------------------------------------------------------------------------
(* The steps *)

LEMMA MenuSendKeeps == ASSUME SInv, MenuSend PROVE SInv'
<1>1. /\ ~Modal /\ zm = 0 /\ stack' = Append(stack, Frame("sleep")) /\ tangled' = (tangled \/ Probing)
      /\ UNCHANGED <<ssh, obj, zm, spy, loop, posted, crashed>>
  BY DEF MenuSend
<1>2. Shape(stack', spy', loop')
  BY <1>1, Facts, PushShape, FrameTypes
<1>3. tangled' \in BOOLEAN /\ (~tangled' => ~tangled /\ ~Probing)
  BY <1>1, Facts
<1>4. ASSUME ~tangled'
      PROVE  Safe' /\ Calm(stack', spy', zm', obj', posted')
  <2>1. Safe /\ Calm(stack, spy, zm, obj, posted) /\ Depth = 0
    BY <1>1, <1>3, <1>4, Facts, NothingNested
  <2>2. Len(stack') = 1 /\ stack'[1].at = "sleep"
    <3>1. stack \in Seq(Frames) /\ Len(stack) = 0 /\ Len(stack) + 1 = 1
      BY <2>1, Facts DEF Depth
    <3>2. Len(stack') = Len(stack) + 1 /\ stack'[Len(stack) + 1] = Frame("sleep")
      BY <3>1, <1>1, Pushed, FrameTypes
    <3>. QED BY <3>1, <3>2, FrameTypes
  <2>3. Pending(posted, zm) /\ \A y \in Objects : obj[y] = "running" => y = zm
    BY <2>1 DEF Calm
  <2>. QED BY <2>1, <2>2, <2>3, <1>1 DEF Calm
<1>. QED BY <1>1, <1>2, <1>3, <1>4, Facts, Enough

LEMMA MenuRecvKeeps == ASSUME SInv, MenuRecv PROVE SInv'
<1>1. /\ ~Modal /\ zm = 0 /\ OpenDialog(stack, posted) /\ tangled' = (tangled \/ Probing) /\ ssh' = ssh
  BY DEF MenuRecv
<1>2. tangled' \in BOOLEAN /\ (~tangled' => ~tangled /\ ~Probing)
  BY <1>1, Facts
<1>3. /\ (IF spy > Len(stack) THEN 0 ELSE spy) = spy /\ (IF loop > Len(stack) THEN 0 ELSE loop) = loop
  BY Facts DEF Depth
<1>4. ~tangled' => Len(stack) = 0 /\ Pending(posted, 0)
  BY <1>1, <1>2, Facts, NothingNested DEF Depth, Calm
<1>. QED BY <1>1, <1>2, <1>3, <1>4, Facts, OpensDialog

\* A loop told to exit changes nothing else.
LEMMA ExitKeeps ==
    ASSUME SInv, NEW i \in DOMAIN stack, NEW f \in Frames, f.at = stack[i].at,
           stack' = [stack EXCEPT ![i] = f],
           UNCHANGED <<ssh, obj, zm, spy, loop, posted, crashed, tangled>>
    PROVE  SInv'
<1>1. /\ Shape(stack', spy', loop') /\ Len(stack') = Depth
      /\ \A k \in 1 .. Depth : stack'[k].at = stack[k].at
  <2>1. spy' = spy /\ loop' = loop
    OBVIOUS
  <2>2. PICK n \in Nat : Depth = n /\ Len(stack) = n /\ stack \in [1 .. n -> Frames] /\ i \in 1 .. n
    BY Facts, LenProperties DEF Depth
  <2>4. stack' \in [1 .. n -> Frames] /\ \A k \in 1 .. n : stack'[k] = IF k = i THEN f ELSE stack[k]
    BY <2>2
  <2>5. stack' \in Seq(Frames) /\ Len(stack') = n
    BY <2>2, <2>4
  <2>6. \A k \in 1 .. n : stack'[k].at = stack[k].at
    BY <2>4
  <2>7. Shape(stack', spy, loop)
    BY <2>2, <2>5, <2>6, Facts, ExitShape
  <2>. QED BY <2>1, <2>2, <2>5, <2>6, <2>7
<1>2. ASSUME ~tangled'
      PROVE  Safe' /\ Calm(stack', spy', zm', obj', posted')
  <2>1. Safe /\ Calm(stack, spy, zm, obj, posted)
    BY <1>2, Facts
  <2>2. Len(stack') = Len(stack) /\ (Len(stack) = 1 => stack'[1].at = stack[1].at)
    BY <1>1, Facts DEF Depth
  <2>. QED BY <2>1, <2>2 DEF Calm
<1>. QED BY <1>1, <1>2, Facts, Enough

LEMMA TimerFiresKeeps == ASSUME SInv, NEW i \in DOMAIN stack, TimerFires(i) PROVE SInv'
<1>. DEFINE x == IF stack[i].at = "sleep" THEN "ok" ELSE "late"
            f == [stack[i] EXCEPT !.exit = x, !.timer = FALSE]
<1>1. stack' = [stack EXCEPT ![i] = f] /\ UNCHANGED <<ssh, obj, zm, spy, loop, posted, crashed, tangled>>
  BY DEF TimerFires, sessionVars
<1>2. x \in {"none", "ok", "late"} /\ stack[i] \in Frames
  BY Facts
<1>. HIDE DEF x
<1>3. f \in Frames /\ f.at = stack[i].at
  BY <1>2 DEF Frames
<1>. HIDE DEF f
<1>. QED BY <1>1, <1>3, ExitKeeps

LEMMA ProbeGoesOnKeeps == ASSUME SInv, ProbeGoesOn PROVE SInv'
<1>1. Depth > 0 /\ ssh' = ssh
  BY DEF ProbeGoesOn, sessionVars
<1>2. ~tangled => Depth = 1 /\ Safe /\ Calm(stack, spy, zm, obj, posted)
  BY <1>1, Facts DEF Calm, Depth
<1>3. ~tangled /\ Top.at = "sleep" => zm = 0 /\ Depth = 1
  BY <1>2 DEF Calm, Depth, Top, Waits
<1>4. ~tangled /\ Top.at \in Waits => zm = 0 /\ spy = 1 /\ Pending(posted, 0)
  BY <1>2 DEF Calm, Depth, Top, Waits
<1>5. ASSUME Leave(posted), UNCHANGED <<obj, zm>> PROVE SInv'
  BY <1>1, <1>5, Facts, Leaves
<1>6. ASSUME NEW at \in Waits, Top.at \in Waits, WaitFor(at, spy) PROVE SInv'
  <2>1. CASE spy = 0
    <3>1. tangled
      BY <2>1, <1>4, <1>6, Facts
    <3>2. Crash
      BY <2>1, <1>6 DEF WaitFor
    <3>. QED BY <3>1, <3>2, <1>1, CrashKeeps
  <2>2. CASE spy # 0
    BY <2>2, <1>1, <1>4, <1>6, Facts, WaitsFor
  <2>. QED BY <2>1, <2>2
<1>7. ASSUME Top.at = "sleep", WaitFor("input", Depth) PROVE SInv'
  <2>1. "input" \in Waits /\ Depth \in 0 .. Depth /\ Depth # 0
    BY <1>1, Facts DEF Waits
  <2>. QED BY <2>1, <1>1, <1>3, <1>7, WaitsFor
<1>8. ASSUME Top.at = "status", OpenDialog(Below, posted), UNCHANGED tangled PROVE SInv'
  <2>1. Len(Below) = Depth - 1
    BY <1>1, Facts, Popped DEF Below, Depth
  <2>2. Shape(Below, IF spy > Len(Below) THEN 0 ELSE spy, IF loop > Len(Below) THEN 0 ELSE loop)
    <3>1. /\ Shape(Below, IF spy = Depth THEN 0 ELSE spy, IF loop = Depth THEN 0 ELSE loop)
          /\ (IF spy > Depth - 1 THEN 0 ELSE spy) = IF spy = Depth THEN 0 ELSE spy
          /\ (IF loop > Depth - 1 THEN 0 ELSE loop) = IF loop = Depth THEN 0 ELSE loop
      BY <1>1, Facts, PopShape DEF Below, Depth
    <3>. QED BY <2>1, <3>1
  <2>3. ~tangled' => ~tangled /\ Len(Below) = 0 /\ zm = 0 /\ Pending(posted, 0)
    BY <2>1, <1>2, <1>4, <1>8 DEF Waits
  <2>. QED BY <2>2, <2>3, <1>1, <1>8, Facts, OpensDialog
<1>9. ASSUME Top.at = "status", spy = 0, Crash PROVE SInv'
  <2>1. tangled
    BY <1>4, <1>9, Facts DEF Waits
  <2>. QED BY <2>1, <1>1, <1>9, CrashKeeps
<1>10. "which" \in Waits /\ "status" \in Waits /\ "input" \in Waits
  BY DEF Waits
<1>11. ASSUME ssh = "orphan", Crash PROVE SInv'
  BY <1>1, <1>11, CrashKeeps
<1>. QED BY <1>5, <1>6, <1>7, <1>8, <1>9, <1>10, <1>11 DEF ProbeGoesOn

LEMMA DialogClosesKeeps == ASSUME SInv, DialogCloses PROVE SInv'
<1>1. Depth > 0 /\ Top.at = "dialog" /\ ssh' = ssh
  BY DEF DialogCloses, sessionVars
<1>2. PICK d \in Nat : Depth = d + 1 /\ Depth - 1 = d
  BY <1>1, Facts
<1>3. ~tangled => /\ Depth = 1 /\ Safe /\ Calm(stack, spy, zm, obj, posted)
                  /\ zm # 0 /\ obj[zm] = "new" /\ Pending(posted, zm)
  BY <1>1, Facts DEF Calm, Depth, Top, Waits
<1>4. /\ DeleteLater(posted, zm, Depth - 1) \in Seq(Items)
      /\ Pending(posted, zm) /\ Depth = 1 => Pending(DeleteLater(posted, zm, Depth - 1), zm)
  <2>1. posted \in Seq(Items) /\ zm \in 0 .. MaxObjects
    BY Facts
  <2>2. DeleteLater(posted, zm, d) \in Seq(Items)
        /\ (Pending(posted, zm) /\ d = 0 => Pending(DeleteLater(posted, zm, d), zm))
    BY <2>1, DeletesLater
  <2>. QED BY <2>2, <1>2
<1>5. CASE Leave(DeleteLater(posted, zm, Depth - 1)) /\ UNCHANGED <<obj, zm>>
  BY <1>1, <1>4, <1>5, Leaves
<1>6. CASE /\ posted' = DeleteLater(posted, zm, Depth - 1)
           /\ stack' = Append(Below, Frame("box"))
           /\ UNCHANGED <<obj, zm, spy, loop, crashed, tangled>>
  <2>1. Below \in Seq(Frames) /\ Len(Below) = d /\ \A i \in 1 .. d : Below[i] = stack[i]
    BY <1>1, <1>2, Facts, Popped DEF Below, Depth
  <2>2. /\ stack' \in Seq(Frames) /\ Len(stack') = d + 1 /\ stack'[d + 1] = Frame("box")
        /\ \A i \in 1 .. d : stack'[i] = Below[i]
    BY <2>1, <1>6, Pushed, FrameTypes
  <2>3. spy \in 0 .. d + 1 /\ loop \in 0 .. d + 1 /\ (loop # 0 => stack[loop].at \in Waits)
    BY <1>2, Facts DEF Shape
  <2>4. loop # 0 => loop \in 1 .. d
    BY <2>3, <1>1, <1>2 DEF Top, Waits
  <2>5. loop # 0 => stack'[loop].at \in Waits
    BY <2>1, <2>2, <2>3, <2>4
  <2>6. Shape(stack', spy', loop')
    BY <2>2, <2>3, <2>5, <1>6 DEF Shape
  <2>7. ASSUME ~tangled'
        PROVE  Safe' /\ Calm(stack', spy', zm', obj', posted')
    <3>1. ~tangled
      BY <2>7, <1>6
    <3>2. d = 0 /\ Len(stack') = 1 /\ stack'[1].at = "box"
      BY <3>1, <2>2, <1>2, <1>3, FrameTypes
    <3>3. Pending(posted', zm) /\ \A y \in Objects : obj[y] = "running" => y = zm
      BY <3>1, <1>3, <1>4, <1>6 DEF Calm
    <3>. QED BY <3>1, <3>2, <3>3, <1>1, <1>3, <1>6 DEF Calm
  <2>. QED BY <2>6, <2>7, <1>1, <1>4, <1>6, Facts, Enough
<1>7. CASE zm = 0 /\ Crash
  BY <1>1, <1>3, <1>7, Facts, CrashKeeps
<1>8. CASE /\ zm # 0
           /\ \E state \in {"running", "failed"} :
                obj' = [obj EXCEPT ![zm] = IF @ = "running" THEN @ ELSE state]
           /\ zm' = zm /\ Leave(posted)
  <2>1. PICK state \in {"running", "failed"} :
           obj' = [obj EXCEPT ![zm] = IF obj[zm] = "running" THEN obj[zm] ELSE state]
    BY <1>8
  <2>2. obj \in [Objects -> {"none", "new", "running", "failed", "ended", "gone"}] /\ zm \in Objects
    BY <1>8, Facts, SessionAssumption DEF Points, Objects
  <2>3. obj'[zm] \in {"running", "failed"} /\ \A y \in Objects : y # zm => obj'[y] = obj[y]
    BY <2>1, <2>2
  <2>4. Points(obj', zm')
    BY <2>1, <2>2, <2>3, <1>8, Facts DEF Points
  <2>5. Shape(stack', spy', loop') /\ Len(stack') = Depth - 1
    BY <1>1, <1>8, Facts, PopShape, Popped DEF Leave, Below, Depth
  <2>6. ASSUME ~tangled'
        PROVE  Safe' /\ Calm(stack', spy', zm', obj', posted')
    <3>1. ~tangled /\ crashed' = crashed /\ posted' = posted
      BY <2>6, <1>8 DEF Leave
    <3>2. Len(stack') = 0 /\ \A y \in Objects : obj'[y] = "running" => y = zm
      BY <3>1, <2>3, <2>5, <1>2, <1>3 DEF Calm
    <3>. QED BY <3>1, <3>2, <1>1, <1>3, <1>8 DEF Calm
  <2>. QED BY <2>4, <2>5, <2>6, <1>1, <1>8, Facts, Enough DEF Leave
<1>9. CASE WritesToNoTerm /\ Crash
  BY <1>1, <1>9, CrashKeeps DEF WritesToNoTerm
<1>. QED BY <1>5, <1>6, <1>7, <1>8, <1>9 DEF DialogCloses

LEMMA BoxClosesKeeps == ASSUME SInv, BoxCloses PROVE SInv'
  BY Facts, Leaves DEF BoxCloses, sessionVars

\* A deletion of what m_zmodem points to is posted outside of nested loops.
LEMMA MenuAbortKeeps == ASSUME SInv, MenuAbort PROVE SInv'
<1>1. /\ ~Modal /\ zm # 0 /\ posted' = DeleteLater(posted, zm, Depth)
      /\ UNCHANGED <<ssh, obj, zm, stack, spy, loop, crashed, tangled>>
  BY DEF MenuAbort
<1>2. posted \in Seq(Items) /\ zm \in 0 .. MaxObjects /\ Depth \in Nat
  BY Facts
<1>3. posted' \in Seq(Items) /\ (Pending(posted, zm) /\ Depth = 0 => Pending(posted', zm))
  BY <1>1, <1>2, DeletesLater
<1>4. ASSUME ~tangled'
      PROVE  Safe' /\ Calm(stack', spy', zm', obj', posted')
  <2>1. Safe /\ Calm(stack, spy, zm, obj, posted)
    BY <1>1, <1>4, Facts
  <2>2. Depth = 0
    BY <2>1, <1>1, Facts DEF Calm, Depth, Modal
  <2>. QED BY <2>1, <2>2, <1>1, <1>3 DEF Calm, Depth
<1>. QED BY <1>1, <1>3, <1>4, Facts, Enough

LEMMA FinishedKeeps == ASSUME SInv, NEW z \in Objects, Finished(z) PROVE SInv'
<1>0. CASE Crash
  <2>1. obj[z] = "running" /\ (zm = 0 \/ WritesToNoTerm) /\ ssh' = ssh
    <3>1. obj \in [Objects -> {"none", "new", "running", "failed", "ended", "gone"}]
      BY Facts DEF Points
    <3>. QED BY <3>1, <1>0 DEF Finished, sessionVars, Crash
  <2>2. ~tangled => zm # 0
    BY <2>1, Facts, SessionAssumption DEF Calm, Objects
  <2>. QED BY <2>1, <2>2, <1>0, Facts, CrashKeeps DEF WritesToNoTerm
<1>. SUFFICES ASSUME ~Crash PROVE SInv'
  BY <1>0
<1>1. /\ obj[z] = "running" /\ obj' = [obj EXCEPT ![z] = "ended"]
      /\ posted' = DeleteLater(posted, zm, Depth)
      /\ UNCHANGED <<ssh, zm, stack, spy, loop, crashed, tangled>>
  BY DEF Finished, sessionVars
<1>2. posted \in Seq(Items) /\ zm \in 0 .. MaxObjects /\ Depth \in Nat
  BY Facts
<1>3. posted' \in Seq(Items) /\ (Pending(posted, zm) /\ Depth = 0 => Pending(posted', zm))
  BY <1>1, <1>2, DeletesLater
<1>4. obj \in [Objects -> {"none", "new", "running", "failed", "ended", "gone"}]
  BY Facts DEF Points
<1>5. Points(obj', zm')
  BY <1>1, <1>4, Facts, SessionAssumption DEF Points, Objects
<1>6. ASSUME ~tangled'
      PROVE  Safe' /\ Calm(stack', spy', zm', obj', posted')
  <2>1. Safe /\ Calm(stack, spy, zm, obj, posted)
    BY <1>1, <1>6, Facts
  <2>2. z = zm /\ z # 0
    BY <2>1, <1>1, SessionAssumption DEF Calm, Objects
  <2>3. Depth = 0
    BY <2>1, <2>2, <1>1, Facts DEF Calm, Depth
  <2>4. \A y \in Objects : obj'[y] = "running" => y = zm
    BY <2>1, <1>1, <1>4 DEF Calm
  <2>. QED BY <2>1, <2>3, <2>4, <1>1, <1>3 DEF Calm, Depth
<1>. QED BY <1>1, <1>3, <1>5, <1>6, Facts, Enough

LEMMA DeliverKeeps == ASSUME SInv, Deliver PROVE SInv'
<1>1. PICK k \in DOMAIN posted :
         /\ Due(posted[k])
         /\ LET rest == SubSeq(posted, 1, k - 1) \o SubSeq(posted, k + 1, Len(posted))
            IN  \/ posted[k].do = "delete" /\ Deleted(posted[k].z, rest)
                \/ /\ posted[k].do = "start" /\ Accepts
                   /\ OpenDialog(stack, rest)
                   /\ tangled' = (tangled \/ Probing)
                \/ /\ posted[k].do = "start" /\ ~Accepts
                   /\ posted' = rest
                   /\ UNCHANGED <<obj, zm, stack, spy, loop, crashed, tangled>>
  BY DEF Deliver
<1>. DEFINE rest == SubSeq(posted, 1, k - 1) \o SubSeq(posted, k + 1, Len(posted))
<1>2. /\ rest \in Seq(Items) /\ \A z : Pending(posted, z) => Pending(rest, z)
      /\ NoDeletions(posted) => NoDeletions(rest)
      /\ \A z : Pending(posted, z) /\ posted[k].do = "delete" => NoDeletions(rest)
  BY Facts, TakenOut
<1>3. ssh' = ssh
  BY DEF Deliver, sessionVars
<1>4. \/ posted[k].do = "delete" /\ Deleted(posted[k].z, rest)
      \/ posted[k].do = "start" /\ Accepts /\ OpenDialog(stack, rest) /\ tangled' = (tangled \/ Probing)
      \/ ~Accepts /\ posted' = rest /\ UNCHANGED <<obj, zm, stack, spy, loop, crashed, tangled>>
  BY <1>1
<1>. HIDE DEF rest
<1>5. CASE posted[k].do = "delete" /\ Deleted(posted[k].z, rest)
  <2>. DEFINE z == posted[k].z
  <2>1. posted[k] \in Items /\ z \in Objects
    <3>1. posted[k] \in Items
      BY Facts, LenProperties, ElementOfSeq
    <3>. QED BY <3>1, <1>5, ItemTypes
  <2>. HIDE DEF z
  <2>0. CASE obj[z] = "running" /\ (zm = 0 \/ WritesToNoTerm)
    <3>1. ~tangled => zm # 0
      BY <2>0, <2>1, Facts, SessionAssumption DEF Calm, Objects
    <3>2. Crash
      BY <2>0, <1>5 DEF Deleted, z
    <3>. QED BY <3>1, <3>2, <2>0, <1>3, Facts, CrashKeeps DEF WritesToNoTerm
  <2>. SUFFICES ASSUME ~(obj[z] = "running" /\ (zm = 0 \/ WritesToNoTerm)) PROVE SInv'
    BY <2>0
  <2>2. /\ obj' = [obj EXCEPT ![z] = "gone"] /\ zm' = (IF zm = z THEN 0 ELSE zm)
        /\ posted' = (IF obj[z] = "running" /\ zm # z THEN DeleteLater(rest, zm, Depth) ELSE rest)
        /\ UNCHANGED <<stack, spy, loop, crashed, tangled>>
    BY <1>5 DEF Deleted, z
  <2>3. obj \in [Objects -> {"none", "new", "running", "failed", "ended", "gone"}]
    BY Facts DEF Points
  <2>4. Points(obj', zm')
    BY <2>1, <2>2, <2>3, Facts, SessionAssumption DEF Points, Objects
  <2>5. posted' \in Seq(Items)
    BY <2>2, <1>2, Facts, DeletesLater
  <2>6. ASSUME ~tangled'
        PROVE  Safe' /\ Calm(stack', spy', zm', obj', posted')
    <3>1. Safe /\ Calm(stack, spy, zm, obj, posted)
      BY <2>2, <2>6, Facts
    <3>2. z = zm /\ posted[k].depth = 0
      BY <3>1, <1>5 DEF Calm, Pending, z
    <3>3. Depth = 0
      BY <3>2, <1>1, <1>5, Facts DEF Due
    <3>4. zm' = 0 /\ posted' = rest /\ NoDeletions(rest)
      BY <3>1, <3>2, <2>2, <1>2, <1>5 DEF Calm
    <3>5. \A y \in Objects : obj'[y] # "running"
      BY <3>1, <3>2, <2>2, <2>3 DEF Calm
    <3>6. Pending(posted', zm')
      BY <3>4, NoDeletionsPend
    <3>7. Len(stack') = 0
      BY <3>3, <2>2 DEF Depth
    <3>. QED BY <3>1, <3>5, <3>6, <3>7, <1>3, <2>2 DEF Calm
  <2>. QED BY <2>2, <2>4, <2>5, <2>6, <1>3, Facts, Enough
<1>6. CASE posted[k].do = "start" /\ Accepts /\ OpenDialog(stack, rest) /\ tangled' = (tangled \/ Probing)
  <2>1. tangled' \in BOOLEAN /\ (~tangled' => ~tangled /\ ~Probing) /\ zm = 0
    BY <1>6, Facts DEF Accepts
  <2>2. /\ (IF spy > Len(stack) THEN 0 ELSE spy) = spy /\ (IF loop > Len(stack) THEN 0 ELSE loop) = loop
    BY Facts DEF Depth
  <2>3. ASSUME ~tangled'
        PROVE  ~tangled /\ Len(stack) = 0 /\ zm = 0 /\ Pending(rest, 0)
    <3>1. ~tangled /\ ~Probing /\ Calm(stack, spy, zm, obj, posted)
      BY <2>1, <2>3, Facts
    <3>2. Pending(rest, 0)
      BY <3>1, <2>1, <1>2 DEF Calm
    <3>3. Len(stack) = 0
      BY <3>1, <2>1, Facts DEF Calm, Probing, Waits, Depth
    <3>. QED BY <3>1, <3>2, <3>3, <2>1
  <2>. QED BY <2>1, <2>2, <2>3, <1>2, <1>3, <1>6, Facts, OpensDialog
<1>7. CASE ~Accepts /\ posted' = rest /\ UNCHANGED <<obj, zm, stack, spy, loop, crashed, tangled>>
  <2>1. ASSUME ~tangled'
        PROVE  Safe' /\ Calm(stack', spy', zm', obj', posted')
    <3>1. Safe /\ Calm(stack, spy, zm, obj, posted)
      BY <2>1, <1>7, Facts
    <3>2. Calm(stack, spy, zm, obj, rest)
      BY <3>1, <1>2 DEF Calm
    <3>. QED BY <3>1, <3>2, <1>3, <1>7
  <2>. QED BY <2>1, <1>2, <1>3, <1>7, Facts, Enough
<1>. QED BY <1>4, <1>5, <1>6, <1>7

LEMMA OutputKeeps == ASSUME SInv, NEW what \in {"prompt", "header"}, Output(what) PROVE SInv'
<1>1. /\ posted' = (IF what = "header" THEN Append(posted, [do |-> "start"]) ELSE posted)
      /\ stack' = (IF what = "prompt" /\ spy # 0 /\ loop # 0
                   THEN [stack EXCEPT ![loop].exit = "ok"] ELSE stack)
      /\ UNCHANGED <<ssh, obj, zm, spy, loop, crashed, tangled>>
  BY DEF Output
<1>2. CASE what = "header"
  <2>1. posted' = Append(posted, [do |-> "start"]) /\ stack' = stack
    BY <1>1, <1>2
  <2>2. /\ posted' \in Seq(Items) /\ \A z : Pending(posted, z) => Pending(posted', z)
        /\ NoDeletions(posted) => NoDeletions(posted')
    BY <2>1, Facts, StartPosted
  <2>3. ASSUME ~tangled'
        PROVE  Safe' /\ Calm(stack', spy', zm', obj', posted')
    <3>1. Safe /\ Calm(stack, spy, zm, obj, posted)
      BY <2>3, <1>1, Facts
    <3>2. Calm(stack, spy, zm, obj, posted')
      BY <3>1, <2>2 DEF Calm
    <3>. QED BY <3>1, <3>2, <2>1, <1>1
  <2>. QED BY <2>1, <2>2, <2>3, <1>1, Facts, Enough
<1>3. CASE what = "prompt" /\ spy # 0 /\ loop # 0
  <2>1. loop \in DOMAIN stack /\ posted' = posted /\ stack' = [stack EXCEPT ![loop].exit = "ok"]
    BY <1>1, <1>3, Facts
  <2>. DEFINE f == [stack[loop] EXCEPT !.exit = "ok"]
  <2>2. stack' = [stack EXCEPT ![loop] = f] /\ f \in Frames /\ f.at = stack[loop].at
    BY <2>1, Facts DEF Frames
  <2>. HIDE DEF f
  <2>. QED BY <2>1, <2>2, <1>1, ExitKeeps
<1>4. CASE what = "prompt" /\ ~(spy # 0 /\ loop # 0)
  BY <1>1, <1>4, Facts, Enough
<1>. QED BY <1>2, <1>3, <1>4

\* The widget goes, with the object or without it.
LEMMA CloseKeeps ==
    ASSUME SInv, \/ CloseAndDelete
                 \/ /\ ssh' = "closed" /\ crashed' = (stack # <<>>)
                    /\ tangled' = (tangled \/ stack # <<>>),
           UNCHANGED <<obj, zm, stack, spy, loop, posted>>
    PROVE  SInv'
<1>1. CASE ssh' = "closed" /\ crashed' = (stack # <<>>) /\ tangled' = (tangled \/ stack # <<>>)
  <2>1. tangled' \in BOOLEAN /\ crashed' \in BOOLEAN /\ (~tangled' => ~tangled /\ ~crashed')
    BY <1>1, Facts
  <2>. QED BY <1>1, <2>1, Facts, Enough
<1>2. CASE ssh' = "orphan" /\ crashed' = Modal /\ tangled' = (tangled \/ stack # <<>>)
  <2>1. tangled' \in BOOLEAN /\ crashed' \in BOOLEAN /\ (~tangled' => ~tangled)
    BY <1>2, Facts DEF Modal
  <2>. QED BY <1>2, <2>1, Facts, Enough
<1>. QED BY <1>1, <1>2 DEF CloseAndDelete

LEMMA SshKeeps ==
    ASSUME SInv, SshExits \/ MaskCloses \/ LastPaneCloses \/ OrphanWrites \/ Reconnect
    PROVE  SInv'
<1>1. CASE SshExits
  <2>1. UNCHANGED <<obj, zm, stack, spy, loop, posted>> /\ ~crashed
    BY <1>1 DEF SshExits, Alive
  <2>2. CASE ssh' = "down" /\ UNCHANGED <<crashed, tangled>>
    BY <2>1, <2>2, Facts, Enough
  <2>. QED BY <1>1, <2>1, <2>2, CloseKeeps DEF SshExits
<1>2. CASE MaskCloses \/ LastPaneCloses
  BY <1>2, CloseKeeps DEF MaskCloses, LastPaneCloses
<1>3. CASE OrphanWrites
  BY <1>3, CrashKeeps DEF OrphanWrites, WritesToNoTerm, sessionVars
<1>4. CASE Reconnect
  <2>1. ssh' = "up" /\ ~crashed /\ UNCHANGED <<obj, zm, stack, spy, loop, posted, crashed, tangled>>
    BY <1>4 DEF Reconnect, Alive
  <2>. QED BY <2>1, Facts, Enough
<1>. QED BY <1>1, <1>2, <1>3, <1>4

LEMMA SInvInit == Init => SInv
<1>. SUFFICES ASSUME Init PROVE SInv
  OBVIOUS
<1>1. /\ ssh = "up" /\ obj = [z \in Objects |-> "none"] /\ zm = 0 /\ stack = <<>> /\ spy = 0
      /\ loop = 0 /\ posted = <<>> /\ crashed = FALSE /\ tangled = FALSE
  BY DEF Init
<1>2. <<>> \in Seq(Frames) /\ <<>> \in Seq(Items) /\ Len(<<>>) = 0 /\ DOMAIN <<>> = {}
  BY EmptySeq
<1>3. Shape(stack, spy, loop) /\ Points(obj, zm)
  BY <1>1, <1>2, SessionAssumption DEF Shape, Points
<1>4. Calm(stack, spy, zm, obj, posted)
  BY <1>1, <1>2 DEF Calm, Pending
<1>. QED BY <1>1, <1>2, <1>3, <1>4 DEF SInv, STypes

\* The invariant holds in every state of every session.
THEOREM SessionInvariant == Spec => []SInv
<1>1. SInv /\ [Next]_vars => SInv'
  <2>. SUFFICES ASSUME SInv, [Next]_vars PROVE SInv'
    OBVIOUS
  <2>1. CASE UNCHANGED vars
    <3>1. UNCHANGED <<ssh, obj, zm, stack, spy, loop, posted, crashed, tangled>>
      BY <2>1 DEF vars
    <3>. QED BY <3>1, Facts, Enough
  <2>2. CASE Next
    BY <2>2, MenuSendKeeps, MenuRecvKeeps, MenuAbortKeeps, ProbeGoesOnKeeps, DialogClosesKeeps,
       BoxClosesKeeps, DeliverKeeps, TimerFiresKeeps, FinishedKeeps, OutputKeeps, SshKeeps DEF Next
  <2>. QED BY <2>1, <2>2
<1>. QED BY <1>1, SInvInit, PTL DEF Spec

\* The types of SessionTypeOK: no pointer is left to an object that is gone, and
\* m_eventLoop is a loop that is on the stack and waits.
THEOREM SessionTypes == Spec => []SessionTypeOK
<1>1. SInv => SessionTypeOK
  <2>. SUFFICES ASSUME SInv PROVE SessionTypeOK
    OBVIOUS
  <2>1. \A i \in DOMAIN stack : stack[i].at \in Waits \cup {"sleep", "dialog", "box"}
                                /\ stack[i].exit \in {"none", "ok", "late"}
    BY Facts DEF Frames, Handlers
  <2>. QED BY <2>1, Facts DEF SessionTypeOK, Shape, Points
<1>. QED BY <1>1, SessionInvariant, PTL

\* No null or dangling pointer is used in a session that was not entered again, or
\* closed, inside a nested loop, and still has its terminal (CrashesOnlyTangled).
THEOREM PointersAreGood == Spec => []CrashesOnlyTangled
<1>1. SInv => CrashesOnlyTangled
  BY DEF SInv, CrashesOnlyTangled
<1>. QED BY <1>1, SessionInvariant, PTL

\* Two transfers run at the same time in no such session (OneTransfer).
THEOREM OneAtATime == Spec => []OneTransfer
<1>1. SInv => OneTransfer
  <2>. SUFFICES ASSUME SInv, ~tangled
                PROVE  ~(Cardinality({z \in Objects : obj[z] = "running"}) > 1)
    BY Facts DEF OneTransfer
  <2>. DEFINE R == {z \in Objects : obj[z] = "running"}
  <2>1. R \subseteq {zm}
    BY Facts DEF Calm
  <2>2. IsFiniteSet({zm}) /\ Cardinality({zm}) = 1
    BY FS_Singleton
  <2>. HIDE DEF R
  <2>3. Cardinality(R) <= 1 /\ Cardinality(R) \in Nat
    BY <2>1, <2>2, FS_Subset, FS_CardinalityType
  <2>4. ~(Cardinality(R) > 1)
    BY <2>3
  <2>. QED BY <2>4 DEF R
<1>. QED BY <1>1, SessionInvariant, PTL

=============================================================================
