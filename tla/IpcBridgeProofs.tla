-------------------------- MODULE IpcBridgeProofs ----------------------------
(***************************************************************************)
(* The size of the terminal reaches the remote end: for any number of      *)
(* changes, passwords and starts of ssh, any frame lengths and any order   *)
(* of the steps of the three threads.                                      *)
(***************************************************************************)
EXTENDS IpcBridge, SequenceTheorems, WellFoundedInduction, NaturalsInduction, TLAPS

\* A size w that is being replaced by r, with the reader thread at pc.
Torn(pc, w, r) ==
    /\ pc = "height" => w[1] = r[1]
    /\ pc = "raise" => w = r

\* The last size that is on its way, or has come, to ssh.
Latest(d, pc, r, w) ==
    IF d # <<>> THEN d[Len(d)] ELSE IF pc \in {"width", "height"} THEN r ELSE w

\* getwinsize is on its way to woterm.
Asks(u) == \E i \in DOMAIN u : u[i] = "getwinsize"

\* What the main thread m knows of win_width and win_height, w, as long as the
\* reader thread has not written them and no signal is to be handled: x is what it
\* has read of the width, and t what it has told the server.
Told(m, o, w, x, t) ==
    /\ m \in {"pty", "change"} => x = w[1]
    /\ m = "loop" /\ o => t = w

\* The pty request opens the channel; the end of ssh ends its reader thread.
Where(m, o, pc, d) ==
    /\ m \in {"start", "login", "pty"} => ~o
    /\ m = "change" => o
    /\ m = "dead" => pc = "recv" /\ d = <<>>

Reaches ==
    /\ Torn(rpc, win, rsz) /\ Where(mpc, open, rpc, down)
    /\ hdl /\ rpc \in {"recv", "width"} /\ ~flag => Told(mpc, open, win, rdw, remote)
    /\ apc = "next" => m_ipc = gen
    /\ hdl /\ mpc # "dead" /\ open =>
         /\ m_ipc = gen \/ Asks(up)
         /\ queued \/ font \/ Asks(up) \/ Latest(down, rpc, rsz, win) = size

\* The inductive invariant.
IpcInv == IpcTypeOK /\ Reaches

-----------------------------------------------------------------------------
(* The bytes of a sequence of calls *)

LEMMA Least ==
    ASSUME NEW T, T \subseteq Nat, T # {}
    PROVE  \E x \in T : \A y \in T : x <= y
<1>. DEFINE R == OpToRel(<, Nat)
<1>1. IsWellFoundedOn(R, Nat)
  BY NatLessThanWellFounded
<1>2. \A x, y \in Nat : x < y => <<x, y>> \in R
  BY DEF OpToRel
<1>. HIDE DEF R
<1>3. PICK x \in T : \A y \in T : ~ (<<y, x>> \in R)
  BY <1>1, WFMin
<1>4. \A y \in T : ~(y < x)
  BY <1>2, <1>3
<1>. QED BY <1>4

\* Induction up to n, over a set.
LEMMA UpTo ==
    ASSUME NEW n \in Nat, NEW B, 0 \in B, \A i \in 1 .. n : i - 1 \in B => i \in B
    PROVE  \A i \in 0 .. n : i \in B
<1>. DEFINE T == (0 .. n) \ B
<1>1. CASE T = {}
  BY <1>1
<1>2. CASE T # {}
  <2>1. T \subseteq Nat
    OBVIOUS
  <2>. HIDE DEF T
  <2>2. PICK x \in T : \A y \in T : x <= y
    BY <1>2, <2>1, Least
  <2>. USE DEF T
  <2>3. x \in 1 .. n /\ x \notin B
    BY <2>2
  <2>4. x - 1 \in 0 .. n /\ ~(x <= x - 1)
    BY <2>3
  <2>. QED BY <2>2, <2>3, <2>4
<1>. QED BY <1>1, <1>2

LEMMA FrameIsPositive ==
    \A c \in Calls : FrameLen(c) \in Nat /\ FrameLen(c) > 0 /\ BodyLen[c] \in Nat /\ BodyLen[c] > 0
<1>1. \A c \in Calls : BodyLen[c] \in Nat \ {0}
  BY IpcAssumption
<1>2. IntSize \in Nat \ {0}
  BY IpcAssumption
<1>. QED BY <1>1, <1>2 DEF FrameLen

\* h[i] is the length of the first i calls of q, up to call n.
Sums(h, q, n) ==
    /\ h \in [0 .. n -> Nat] /\ h[0] = 0
    /\ \A i \in 1 .. n : h[i] = h[i - 1] + FrameLen(q[i])

LEMMA SumsExist ==
    ASSUME NEW q \in Seq(Calls)
    PROVE  \E h : Sums(h, q, Len(q))
<1>1. PICK n \in Nat : Len(q) = n
  BY LenProperties
<1>2. \A i \in 1 .. n : FrameLen(q[i]) \in Nat
  <2>1. \A i \in 1 .. n : q[i] \in Calls
    BY <1>1
  <2>. QED BY <2>1, FrameIsPositive
<1>. DEFINE B == {k \in 0 .. n : \E h : Sums(h, q, k)}
<1>3. 0 \in B
  <2>1. Sums([i \in 0 .. 0 |-> 0], q, 0)
    BY DEF Sums
  <2>. QED BY <2>1
<1>4. ASSUME NEW k \in 1 .. n, k - 1 \in B
      PROVE  k \in B
  <2>1. PICK h : Sums(h, q, k - 1)
    BY <1>4
  <2>. DEFINE g == [i \in 0 .. k |-> IF i = k THEN h[k - 1] + FrameLen(q[k]) ELSE h[i]]
  <2>2. h \in [0 .. k - 1 -> Nat] /\ h[0] = 0 /\ \A i \in 1 .. k - 1 : h[i] = h[i - 1] + FrameLen(q[i])
    BY <2>1 DEF Sums
  <2>3. g \in [0 .. k -> Nat] /\ g[0] = 0
    BY <2>2, <1>2
  <2>4. ASSUME NEW i \in 1 .. k
        PROVE  g[i] = g[i - 1] + FrameLen(q[i])
    BY <2>2, <1>2
  <2>5. Sums(g, q, k)
    <3>. HIDE DEF g
    <3>. QED BY <2>3, <2>4 DEF Sums
  <2>. QED BY <2>5
<1>. HIDE DEF B
<1>5. n \in B
  <2>1. \A i \in 0 .. n : i \in B
    BY <1>3, <1>4, UpTo
  <2>. QED BY <2>1
<1>. QED BY <1>5, <1>1 DEF B

LEMMA SumsAgree ==
    ASSUME NEW q, NEW n \in Nat, NEW h, NEW g, Sums(h, q, n), Sums(g, q, n)
    PROVE  h[n] = g[n]
<1>. DEFINE B == {k \in 0 .. n : h[k] = g[k]}
<1>1. 0 \in B
  BY DEF Sums
<1>2. ASSUME NEW k \in 1 .. n, k - 1 \in B
      PROVE  k \in B
  BY <1>2 DEF Sums
<1>. HIDE DEF B
<1>3. \A i \in 0 .. n : i \in B
  BY <1>1, <1>2, UpTo
<1>. QED BY <1>3 DEF B

\* Whatever adds up the lengths of the calls in q computes Bytes(q).
LEMMA BytesIsSum ==
    ASSUME NEW q \in Seq(Calls), NEW h, Sums(h, q, Len(q))
    PROVE  Bytes(q) = h[Len(q)] /\ Bytes(q) \in Nat
<1>1. PICK n \in Nat : Len(q) = n
  BY LenProperties
<1>. DEFINE Step(g) == [i \in 0 .. Len(q) |-> IF i = 0 THEN 0 ELSE g[i - 1] + FrameLen(q[i])]
            f == CHOOSE g : g = Step(g)
<1>2. h = Step(h)
  <2>1. h = [i \in 0 .. n |-> h[i]]
    BY <1>1 DEF Sums
  <2>2. \A i \in 0 .. n : h[i] = IF i = 0 THEN 0 ELSE h[i - 1] + FrameLen(q[i])
    BY <1>1 DEF Sums
  <2>. QED BY <2>1, <2>2, <1>1
<1>3. f = Step(f)
  <2>. HIDE DEF Step
  <2>. QED BY <1>2
<1>4. Bytes(q) = f[Len(q)]
  BY DEF Bytes
<1>. HIDE DEF f
<1>5. Sums(f, q, n)
  <2>1. \A i \in 1 .. n : FrameLen(q[i]) \in Nat
    <3>1. \A i \in 1 .. n : q[i] \in Calls
      BY <1>1
    <3>. QED BY <3>1, FrameIsPositive
  <2>2. f[0] = 0 /\ \A i \in 1 .. n : f[i] = f[i - 1] + FrameLen(q[i])
    BY <1>1, <1>3
  <2>. DEFINE B == {k \in 0 .. n : f[k] \in Nat}
  <2>3. 0 \in B
    BY <2>2
  <2>4. ASSUME NEW k \in 1 .. n, k - 1 \in B
        PROVE  k \in B
    BY <2>4, <2>1, <2>2
  <2>. HIDE DEF B
  <2>5. \A i \in 0 .. n : i \in B
    BY <2>3, <2>4, UpTo
  <2>6. \A i \in 0 .. n : f[i] \in Nat
    BY <2>5 DEF B
  <2>7. f = [i \in 0 .. n |-> f[i]]
    <3>1. DOMAIN f = 0 .. n
      BY <1>1, <1>3
    <3>. DEFINE F == Step(f)
    <3>2. F = [i \in DOMAIN F |-> F[i]]
      OBVIOUS
    <3>. HIDE DEF F
    <3>3. f = F
      BY <1>3 DEF F
    <3>. QED BY <3>1, <3>2, <3>3
  <2>8. f \in [0 .. n -> Nat]
    BY <2>6, <2>7
  <2>. QED BY <2>2, <2>8 DEF Sums
<1>6. f[n] = h[n]
  BY <1>1, <1>5, SumsAgree
<1>7. f[n] \in Nat
  BY <1>5 DEF Sums
<1>. QED BY <1>1, <1>4, <1>6, <1>7

LEMMA BytesEmpty == Bytes(<<>>) = 0
<1>1. Sums([i \in 0 .. 0 |-> 0], <<>>, 0)
  BY DEF Sums
<1>2. <<>> \in Seq(Calls) /\ Len(<<>>) = 0
  OBVIOUS
<1>. DEFINE h == [i \in 0 .. 0 |-> 0]
<1>3. h[0] = 0
  OBVIOUS
<1>. HIDE DEF h
<1>. QED BY <1>1, <1>2, <1>3, BytesIsSum DEF h

LEMMA BytesAppend ==
    ASSUME NEW q \in Seq(Calls), NEW c \in Calls
    PROVE  /\ Bytes(q) \in Nat /\ Bytes(Append(q, c)) \in Nat
           /\ Bytes(Append(q, c)) = Bytes(q) + FrameLen(c)
<1>1. PICK n \in Nat : Len(q) = n
  BY LenProperties
<1>2. PICK h : Sums(h, q, n)
  BY <1>1, SumsExist
<1>. DEFINE r == Append(q, c)
            g == [i \in 0 .. n + 1 |-> IF i = n + 1 THEN h[n] + FrameLen(c) ELSE h[i]]
<1>3. /\ r \in Seq(Calls) /\ Len(r) = n + 1 /\ r[n + 1] = c
      /\ \A i \in 1 .. n : r[i] = q[i]
  BY <1>1, AppendProperties
<1>4. h \in [0 .. n -> Nat] /\ h[0] = 0 /\ \A i \in 1 .. n : h[i] = h[i - 1] + FrameLen(q[i])
  BY <1>2 DEF Sums
<1>5. FrameLen(c) \in Nat
  BY FrameIsPositive
<1>. HIDE DEF r
<1>6. g \in [0 .. n + 1 -> Nat] /\ g[0] = 0
  BY <1>4, <1>5
<1>7. ASSUME NEW i \in 1 .. n + 1
      PROVE  g[i] = g[i - 1] + FrameLen(r[i])
  <2>1. CASE i = n + 1
    BY <2>1, <1>3, <1>4
  <2>2. CASE i # n + 1
    <3>1. i \in 1 .. n
      BY <2>2
    <3>2. r[i] = q[i] /\ h[i] = h[i - 1] + FrameLen(q[i])
      BY <3>1, <1>3, <1>4
    <3>3. g[i] = h[i] /\ g[i - 1] = h[i - 1]
      BY <3>1
    <3>. QED BY <3>2, <3>3
  <2>. QED BY <2>1, <2>2
<1>8. g[n + 1] = h[n] + FrameLen(c)
  OBVIOUS
<1>. HIDE DEF g
<1>9. Sums(g, r, Len(r))
  BY <1>3, <1>6, <1>7 DEF Sums
<1>10. Bytes(r) = g[n + 1] /\ Bytes(r) \in Nat
  BY <1>3, <1>9, BytesIsSum
<1>11. Bytes(q) = h[n] /\ Bytes(q) \in Nat
  BY <1>1, <1>2, BytesIsSum
<1>. QED BY <1>8, <1>10, <1>11 DEF r

LEMMA BytesTail ==
    ASSUME NEW q \in Seq(Calls), q # <<>>
    PROVE  Bytes(q) = FrameLen(Head(q)) + Bytes(Tail(q)) /\ Bytes(Tail(q)) \in Nat
<1>. DEFINE r == Tail(q)
<1>1. PICK n \in Nat : Len(q) = n + 1
  BY EmptySeq, LenProperties
<1>2. r \in Seq(Calls) /\ Len(r) = n /\ \A i \in 1 .. n : r[i] = q[i + 1]
  BY <1>1, HeadTailProperties
<1>3. Head(q) = q[1] /\ Head(q) \in Calls
  BY HeadTailProperties
<1>. HIDE DEF r
<1>4. PICK h : Sums(h, r, n)
  BY <1>2, SumsExist
<1>5. h \in [0 .. n -> Nat] /\ h[0] = 0 /\ \A i \in 1 .. n : h[i] = h[i - 1] + FrameLen(r[i])
  BY <1>4 DEF Sums
<1>. DEFINE a == FrameLen(q[1])
            g == [i \in 0 .. n + 1 |-> IF i = 0 THEN 0 ELSE a + h[i - 1]]
<1>6. a \in Nat
  BY <1>3, FrameIsPositive
<1>. HIDE DEF a
<1>7. g \in [0 .. n + 1 -> Nat] /\ g[0] = 0
  BY <1>5, <1>6
<1>8. ASSUME NEW i \in 1 .. n + 1
      PROVE  g[i] = g[i - 1] + FrameLen(q[i])
  <2>1. CASE i = 1
    <3>1. g[1] = a + h[0] /\ g[0] = 0
      OBVIOUS
    <3>. QED BY <2>1, <3>1, <1>5, <1>6 DEF a
  <2>2. CASE i # 1
    <3>1. PICK j \in 1 .. n : i = j + 1
      BY <2>2
    <3>2. g[j + 1] = a + h[j] /\ g[j] = a + h[j - 1]
      BY <3>1
    <3>3. h[j] = h[j - 1] + FrameLen(q[j + 1])
      BY <3>1, <1>2, <1>5
    <3>4. h[j - 1] \in Nat /\ FrameLen(q[j + 1]) \in Nat
      <4>1. q[j + 1] \in Calls
        BY <1>1
      <4>. QED BY <4>1, <3>1, <1>5, FrameIsPositive
    <3>5. i - 1 = j
      BY <3>1
    <3>. HIDE DEF g
    <3>. QED BY <3>1, <3>2, <3>3, <3>4, <3>5, <1>6
  <2>. QED BY <2>1, <2>2
<1>9. g[n + 1] = a + h[n]
  OBVIOUS
<1>. HIDE DEF g
<1>10. Sums(g, q, Len(q))
  BY <1>1, <1>7, <1>8 DEF Sums
<1>11. Bytes(q) = g[n + 1]
  BY <1>1, <1>10, BytesIsSum
<1>12. Bytes(r) = h[n] /\ Bytes(r) \in Nat
  BY <1>2, <1>4, BytesIsSum
<1>. QED BY <1>3, <1>9, <1>11, <1>12 DEF r, a

-----------------------------------------------------------------------------
(* The calls and sizes on the way *)

LEMMA AsksAppend ==
    ASSUME NEW q \in Seq(Calls), NEW c \in Calls
    PROVE  /\ Append(q, c) \in Seq(Calls)
           /\ Asks(q) \/ c = "getwinsize" => Asks(Append(q, c))
<1>1. PICK n \in Nat : Len(q) = n
  BY LenProperties
<1>2. /\ Append(q, c) \in Seq(Calls) /\ DOMAIN Append(q, c) = 1 .. n + 1 /\ DOMAIN q = 1 .. n
      /\ Append(q, c)[n + 1] = c /\ \A i \in 1 .. n : Append(q, c)[i] = q[i]
  BY <1>1, AppendProperties
<1>. QED BY <1>2 DEF Asks

LEMMA AsksTail ==
    ASSUME NEW q \in Seq(Calls), q # <<>>
    PROVE  /\ Tail(q) \in Seq(Calls) /\ Head(q) \in Calls
           /\ Asks(q) => Head(q) = "getwinsize" \/ Asks(Tail(q))
<1>1. PICK n \in Nat : Len(q) = n + 1
  BY EmptySeq, LenProperties
<1>2. /\ Tail(q) \in Seq(Calls) /\ DOMAIN Tail(q) = 1 .. n /\ DOMAIN q = 1 .. n + 1
      /\ Head(q) = q[1] /\ Head(q) \in Calls
      /\ \A i \in 1 .. n : Tail(q)[i] = q[i + 1]
  BY <1>1, HeadTailProperties
<1>3. ASSUME NEW i \in 1 .. n + 1, i # 1
      PROVE  i - 1 \in 1 .. n /\ Tail(q)[i - 1] = q[i]
  <2>1. i - 1 \in 1 .. n /\ (i - 1) + 1 = i
    BY <1>3
  <2>. QED BY <2>1, <1>2
<1>. QED BY <1>2, <1>3 DEF Asks

\* A size that is sent is the latest; the one ssh receives is the latest when no
\* other follows.
LEMMA LatestSent ==
    ASSUME NEW d \in Seq(Sizes), NEW s \in Sizes
    PROVE  /\ Append(d, s) \in Seq(Sizes) /\ Append(d, s) # <<>>
           /\ \A pc, r, w : Latest(Append(d, s), pc, r, w) = s
<1>1. PICK n \in Nat : Len(d) = n
  BY LenProperties
<1>2. /\ Append(d, s) \in Seq(Sizes) /\ Len(Append(d, s)) = n + 1 /\ Append(d, s)[n + 1] = s
      /\ Append(d, s) # <<>>
  BY <1>1, AppendProperties
<1>. QED BY <1>2 DEF Latest

LEMMA LatestReceived ==
    ASSUME NEW d \in Seq(Sizes), d # <<>>
    PROVE  /\ Tail(d) \in Seq(Sizes) /\ Head(d) \in Sizes
           /\ \A pc, r, w, pc2, r2, w2 :
                Latest(d, pc, r, w) = IF Tail(d) = <<>> THEN Head(d) ELSE Latest(Tail(d), pc2, r2, w2)
<1>1. PICK n \in Nat : Len(d) = n + 1
  BY EmptySeq, LenProperties
<1>2. /\ Tail(d) \in Seq(Sizes) /\ Len(Tail(d)) = n /\ Head(d) = d[1] /\ Head(d) \in Sizes
      /\ \A i \in 1 .. n : Tail(d)[i] = d[i + 1]
  BY <1>1, HeadTailProperties
<1>3. CASE n = 0
  <2>1. Tail(d) = <<>>
    BY <1>2, <1>3, EmptySeq
  <2>. QED BY <1>1, <1>2, <1>3, <2>1 DEF Latest
<1>4. CASE n # 0
  <2>0. Len(<<>>) = 0
    OBVIOUS
  <2>1. Tail(d) # <<>> /\ n \in 1 .. n
    <3>1. Tail(d) = <<>> => n = 0
      BY <1>2, <2>0
    <3>. QED BY <3>1, <1>4
  <2>2. Tail(d)[n] = d[n + 1]
    BY <1>2, <2>1
  <2>. QED BY <1>1, <1>2, <2>1, <2>2 DEF Latest
<1>. QED BY <1>3, <1>4

-----------------------------------------------------------------------------
(* The invariant holds initially *)

LEMMA Consts ==
    /\ FirstSize \in Sizes /\ FirstSize \in Nat \X Nat /\ Sizes \subseteq Nat \X Nat
    /\ MaxResize \in Nat /\ MaxAsk \in Nat /\ MaxStarts \in Nat /\ MaxStarts >= 1
  BY IpcAssumption

LEMMA IpcInvInit == IpcInit => IpcInv
<1>. SUFFICES ASSUME IpcInit PROVE IpcInv
  OBVIOUS
<1>. USE DEF IpcInit
<1>1. IpcTypeOK
  <2>1. up \in Seq(Calls) /\ down \in Seq(Sizes)
    OBVIOUS
  <2>2. gen \in 1 .. MaxStarts /\ asked \in 0 .. MaxAsk /\ resizes \in 0 .. MaxResize /\ m_ipc \in 0 .. gen
    BY Consts
  <2>3. {size, rsz} \subseteq Sizes /\ win \in Nat \X Nat /\ remote \in Nat \X Nat
    BY Consts
  <2>4. m_ipc = gen => buf <= Bytes(up)
    OBVIOUS
  <2>. QED BY <2>1, <2>2, <2>3, <2>4 DEF IpcTypeOK
<1>2. Reaches
  BY DEF Reaches, Torn, Where, Told
<1>. QED BY <1>1, <1>2 DEF IpcInv

-----------------------------------------------------------------------------
(* woterm keeps the invariant *)

LEMMA ResizeKeeps == IpcInv /\ Resize => IpcInv'
<1>. SUFFICES ASSUME IpcInv, Resize PROVE IpcInv'
  OBVIOUS
<1>. USE DEF Resize, sshv, readerv
<1>1. IpcTypeOK'
  <2>1. queued' \in BOOLEAN /\ font' \in BOOLEAN
    BY DEF IpcInv, IpcTypeOK
  <2>2. resizes' \in 0 .. MaxResize /\ size' \in Sizes
    BY Consts DEF IpcInv, IpcTypeOK
  <2>. QED BY <2>1, <2>2 DEF IpcInv, IpcTypeOK
<1>2. Reaches'
  BY DEF IpcInv, Reaches
<1>. QED BY <1>1, <1>2 DEF IpcInv

\* What updateTermSize does with the size.
LEMMA SizeSent ==
    ASSUME IpcTypeOK, UpdateTermSize
    PROVE  /\ down' \in Seq(Sizes) /\ font' = FALSE
           /\ mpc = "dead" => down' = down
           /\ m_ipc = gen /\ mpc # "dead" => \A pc, r, w : Latest(down', pc, r, w) = size
           /\ m_ipc # gen => down' = down
<1>1. down \in Seq(Sizes) /\ size \in Sizes
  BY DEF IpcTypeOK
<1>2. CASE m_ipc = gen /\ mpc # "dead"
  BY <1>1, <1>2, LatestSent DEF UpdateTermSize
<1>3. CASE ~(m_ipc = gen /\ mpc # "dead")
  BY <1>1, <1>3 DEF UpdateTermSize
<1>. QED BY <1>2, <1>3

LEMMA QueuedKeeps == IpcInv /\ OnQueuedUpdate => IpcInv'
<1>. SUFFICES ASSUME IpcInv, OnQueuedUpdate PROVE IpcInv'
  OBVIOUS
<1>. USE DEF OnQueuedUpdate, sshv, readerv
<1>0. /\ down' \in Seq(Sizes) /\ font' = FALSE
      /\ mpc = "dead" => down' = down
      /\ m_ipc = gen /\ mpc # "dead" => Latest(down', rpc, rsz, win) = size
  BY SizeSent DEF IpcInv
<1>1. IpcTypeOK'
  BY <1>0 DEF IpcInv, IpcTypeOK
<1>2. Reaches'
  BY <1>0 DEF IpcInv, Reaches, Where
<1>. QED BY <1>1, <1>2 DEF IpcInv

LEMMA ConnectionKeeps == IpcInv /\ OnNewConnection => IpcInv'
<1>. SUFFICES ASSUME IpcInv, OnNewConnection PROVE IpcInv'
  OBVIOUS
<1>. USE DEF OnNewConnection, sshv, readerv
<1>0. Bytes(up) \in Nat
  <2>1. up \in Seq(Calls)
    BY DEF IpcInv, IpcTypeOK
  <2>. QED BY <2>1, SumsExist, BytesIsSum
<1>1. IpcTypeOK'
  <2>1. m_ipc' \in 0 .. gen' /\ buf' <= Bytes(up')
    <3>1. gen \in 1 .. MaxStarts
      BY DEF IpcInv, IpcTypeOK
    <3>. QED BY <1>0, <3>1, Consts
  <2>. QED BY <2>1 DEF IpcInv, IpcTypeOK
<1>2. Reaches'
  BY DEF IpcInv, Reaches
<1>. QED BY <1>1, <1>2 DEF IpcInv

LEMMA DisconnectedKeeps == IpcInv /\ OnClientDisconnected => IpcInv'
<1>. SUFFICES ASSUME IpcInv, OnClientDisconnected PROVE IpcInv'
  OBVIOUS
<1>. USE DEF OnClientDisconnected, sshv, readerv
<1>1. IpcTypeOK'
  BY Consts DEF IpcInv, IpcTypeOK
<1>2. Reaches'
  BY DEF IpcInv, Reaches
<1>. QED BY <1>1, <1>2 DEF IpcInv

LEMMA ReadyReadKeeps == IpcInv /\ OnClientReadyRead => IpcInv'
<1>. SUFFICES ASSUME IpcInv, OnClientReadyRead PROVE IpcInv'
  OBVIOUS
<1>. USE DEF OnClientReadyRead, sshv, readerv
<1>0. Bytes(up) \in Nat
  <2>1. up \in Seq(Calls)
    BY DEF IpcInv, IpcTypeOK
  <2>. QED BY <2>1, SumsExist, BytesIsSum
<1>1. IpcTypeOK'
  BY <1>0 DEF IpcInv, IpcTypeOK
<1>2. Reaches'
  BY DEF IpcInv, Reaches
<1>. QED BY <1>1, <1>2 DEF IpcInv

\* A call is taken only when all its bytes are there, and no byte of another
\* with it: what is left in m_buf is the beginning of what follows.
LEMMA TakeNextKeeps == IpcInv /\ TakeNext => IpcInv'
<1>. SUFFICES ASSUME IpcInv, TakeNext PROVE IpcInv'
  OBVIOUS
<1>0. UNCHANGED <<gen, sshv, readerv, pending, m_ipc, queued, size, resizes>> /\ apc = "next"
  BY DEF TakeNext
<1>1. CASE UNCHANGED <<up, down, buf, font>> /\ apc' \in {"idle", "aborted"}
  <2>1. IpcTypeOK'
    BY <1>0, <1>1 DEF IpcInv, IpcTypeOK, sshv, readerv
  <2>2. Reaches'
    BY <1>0, <1>1 DEF IpcInv, Reaches, sshv, readerv
  <2>. QED BY <2>1, <2>2 DEF IpcInv
<1>2. CASE /\ buf > 0 /\ Decoded /\ up' = Tail(up) /\ buf' = buf - Removed(Head(up))
           /\ IF Head(up) = "getwinsize" THEN UpdateTermSize ELSE UNCHANGED <<down, font>>
           /\ UNCHANGED apc
  <2>1. up \in Seq(Calls) /\ m_ipc = gen /\ buf \in Nat /\ buf <= Bytes(up)
    BY <1>0 DEF IpcInv, IpcTypeOK, Reaches
  <2>2. up # <<>>
    BY <1>2, <2>1, BytesEmpty
  <2>3. /\ Head(up) \in Calls /\ Tail(up) \in Seq(Calls)
        /\ Asks(up) => Head(up) = "getwinsize" \/ Asks(Tail(up))
    BY <2>1, <2>2, AsksTail
  <2>4. /\ FrameLen(Head(up)) \in Nat /\ Bytes(Tail(up)) \in Nat
        /\ Bytes(up) = FrameLen(Head(up)) + Bytes(Tail(up))
    BY <2>1, <2>2, <2>3, BytesTail, FrameIsPositive
  <2>5. buf' \in Nat /\ buf' <= Bytes(up')
    BY <1>2, <2>1, <2>4 DEF Decoded, Removed
  <2>6. /\ down' \in Seq(Sizes) /\ font' \in BOOLEAN
        /\ mpc = "dead" => down' = down
        /\ Head(up) = "getwinsize" /\ mpc # "dead" => Latest(down', rpc, rsz, win) = size
        /\ Head(up) # "getwinsize" => down' = down /\ font' = font
    BY <1>2, <2>1, SizeSent DEF IpcInv, IpcTypeOK
  <2>7. IpcTypeOK'
    BY <1>0, <1>2, <2>3, <2>5, <2>6 DEF IpcInv, IpcTypeOK, sshv, readerv
  <2>8. Reaches'
    BY <1>0, <1>2, <2>1, <2>3, <2>6 DEF IpcInv, Reaches, Where, sshv, readerv
  <2>. QED BY <2>7, <2>8 DEF IpcInv
<1>. QED BY <1>1, <1>2 DEF TakeNext

-----------------------------------------------------------------------------
(* ssh keeps the invariant *)

\* A call that ssh makes.
LEMMA CallSent ==
    ASSUME IpcTypeOK, NEW c \in Calls, IpcCall(c)
    PROVE  /\ up' \in Seq(Calls) /\ Bytes(up) \in Nat /\ Bytes(up') \in Nat /\ Bytes(up) <= Bytes(up')
           /\ Asks(up) \/ (hdl /\ c = "getwinsize") => Asks(up')
<1>1. up \in Seq(Calls) /\ up' = IF hdl THEN Append(up, c) ELSE up
  BY DEF IpcTypeOK, IpcCall
<1>2. FrameLen(c) \in Nat
  BY FrameIsPositive
<1>. QED BY <1>1, <1>2, AsksAppend, BytesAppend

LEMMA StartKeeps == IpcInv /\ IpcBridgeStart => IpcInv'
<1>. SUFFICES ASSUME IpcInv, IpcBridgeStart PROVE IpcInv'
  OBVIOUS
<1>. USE DEF IpcBridgeStart, readerv, appv
<1>1. IpcTypeOK'
  BY DEF IpcInv, IpcTypeOK
<1>2. Reaches'
  BY DEF IpcInv, Reaches, Where, Told
<1>. QED BY <1>1, <1>2 DEF IpcInv

LEMMA AskPasswordKeeps == IpcInv /\ AskPassword => IpcInv'
<1>. SUFFICES ASSUME IpcInv, AskPassword PROVE IpcInv'
  OBVIOUS
<1>. DEFINE q == Append(up, "requestpassword")
<1>1. up \in Seq(Calls) /\ "requestpassword" \in Calls /\ "updatepassword" \in Calls
  BY DEF IpcInv, IpcTypeOK, Calls
<1>2. q \in Seq(Calls) /\ up' \in {up, Append(q, "updatepassword")}
  <2>1. \A x, y \in Calls : up \o <<x, y>> = Append(Append(up, x), y)
    BY <1>1, AppendProperties, ConcatProperties
  <2>. QED BY <1>1, <2>1 DEF AskPassword
<1>. HIDE DEF q
<1>3. up' \in Seq(Calls) /\ (Asks(up) => Asks(up'))
  <2>1. Asks(up) => Asks(q)
    BY <1>1, AsksAppend DEF q
  <2>. QED BY <1>1, <1>2, <2>1, AsksAppend
<1>5. Bytes(up) \in Nat /\ Bytes(up') \in Nat /\ Bytes(up) <= Bytes(up')
  <2>1. Bytes(up) \in Nat /\ Bytes(q) = Bytes(up) + FrameLen("requestpassword")
    BY <1>1, BytesAppend DEF q
  <2>2. \/ Bytes(up') \in Nat /\ Bytes(up') = Bytes(q) + FrameLen("updatepassword")
        \/ up' = up
    BY <1>1, <1>2, BytesAppend
  <2>. QED BY <1>1, <2>1, <2>2, FrameIsPositive
<1>. USE DEF AskPassword, readerv, appv
<1>6. IpcTypeOK'
  BY <1>3, <1>5, Consts DEF IpcInv, IpcTypeOK
<1>7. Reaches'
  BY <1>3 DEF IpcInv, Reaches
<1>. QED BY <1>6, <1>7 DEF IpcInv

LEMMA EnterLoopKeeps == IpcInv /\ EnterClientLoop => IpcInv'
<1>. SUFFICES ASSUME IpcInv, EnterClientLoop PROVE IpcInv'
  OBVIOUS
<1>. USE DEF EnterClientLoop, readerv, appv
<1>0. /\ up' \in Seq(Calls) /\ Bytes(up) \in Nat /\ Bytes(up') \in Nat /\ Bytes(up) <= Bytes(up')
      /\ Asks(up) => Asks(up')
  <2>1. "successToLogin" \in Calls
    BY DEF Calls
  <2>. QED BY <2>1, CallSent DEF IpcInv
<1>1. IpcTypeOK'
  BY <1>0 DEF IpcInv, IpcTypeOK
<1>2. Reaches'
  BY <1>0 DEF IpcInv, Reaches, Where, Told
<1>. QED BY <1>1, <1>2 DEF IpcInv

LEMMA RequestPtyKeeps == IpcInv /\ RequestPty => IpcInv'
<1>. SUFFICES ASSUME IpcInv, RequestPty PROVE IpcInv'
  OBVIOUS
<1>. USE DEF RequestPty, ReadWidth, readerv, appv
<1>1. IpcTypeOK'
  BY DEF IpcInv, IpcTypeOK
<1>2. Reaches'
  BY DEF IpcInv, Reaches, Where, Told
<1>. QED BY <1>1, <1>2 DEF IpcInv

\* The server is told of a size and woterm is asked for it: if the reader thread
\* has not written win_width since it was read, and has no signal to raise, the
\* size is that of win_width and win_height; and the answer will be the latest.
LEMMA TellKeeps ==
    ASSUME IpcInv, TellRemote, mpc \in {"pty", "change"}, open' = TRUE
    PROVE  IpcInv'
<1>. USE DEF TellRemote, readerv, appv
<1>0. /\ up' \in Seq(Calls) /\ Bytes(up) \in Nat /\ Bytes(up') \in Nat /\ Bytes(up) <= Bytes(up')
      /\ hdl => Asks(up')
  <2>1. "getwinsize" \in Calls
    BY DEF Calls
  <2>. QED BY <2>1, CallSent DEF IpcInv
<1>1. IpcTypeOK'
  <2>1. remote' \in Nat \X Nat
    BY DEF IpcInv, IpcTypeOK
  <2>. QED BY <1>0, <2>1 DEF IpcInv, IpcTypeOK
<1>2. hdl /\ rpc \in {"recv", "width"} /\ ~flag => remote' = win
  <2>1. win = <<win[1], win[2]>>
    BY DEF IpcInv, IpcTypeOK
  <2>. QED BY <2>1 DEF IpcInv, Reaches, Told
<1>3. Reaches'
  BY <1>0, <1>2 DEF IpcInv, Reaches, Where, Told
<1>. QED BY <1>1, <1>3 DEF IpcInv

LEMMA CheckKeeps == IpcInv /\ CheckWindowChange => IpcInv'
<1>. SUFFICES ASSUME IpcInv, CheckWindowChange PROVE IpcInv'
  OBVIOUS
<1>. USE DEF CheckWindowChange, ReadWidth, readerv, appv
<1>1. IpcTypeOK'
  BY DEF IpcInv, IpcTypeOK
<1>2. Reaches'
  BY DEF IpcInv, Reaches, Where, Told
<1>. QED BY <1>1, <1>2 DEF IpcInv

LEMMA ExitKeeps == IpcInv /\ SshExits => IpcInv'
<1>. SUFFICES ASSUME IpcInv, SshExits PROVE IpcInv'
  OBVIOUS
<1>. USE DEF SshExits, appv
<1>1. IpcTypeOK'
  BY DEF IpcInv, IpcTypeOK
<1>2. Reaches'
  BY DEF IpcInv, Reaches, Where, Told, Torn
<1>. QED BY <1>1, <1>2 DEF IpcInv

LEMMA ReconnectKeeps == IpcInv /\ Reconnect => IpcInv'
<1>. SUFFICES ASSUME IpcInv, Reconnect PROVE IpcInv'
  OBVIOUS
<1>. USE DEF Reconnect, readerv, appv
<1>1. IpcTypeOK'
  <2>1. gen' \in 1 .. MaxStarts /\ asked' \in 0 .. MaxAsk /\ m_ipc' \in 0 .. gen' /\ m_ipc' # gen'
    <3>1. gen \in 1 .. MaxStarts /\ m_ipc \in 0 .. gen
      BY DEF IpcInv, IpcTypeOK
    <3>. QED BY <3>1, Consts
  <2>2. up' \in Seq(Calls) /\ win' \in Nat \X Nat
    BY Consts
  <2>. QED BY <2>1, <2>2 DEF IpcInv, IpcTypeOK
<1>2. Reaches'
  BY DEF IpcInv, Reaches, Where, Told, Torn
<1>. QED BY <1>1, <1>2 DEF IpcInv

-----------------------------------------------------------------------------
(* ssh's reader thread keeps the invariant *)

LEMMA RecvKeeps == IpcInv /\ Recv => IpcInv'
<1>. SUFFICES ASSUME IpcInv, Recv PROVE IpcInv'
  OBVIOUS
<1>. USE DEF Recv, sshv, appv
<1>0. down \in Seq(Sizes) /\ down # <<>>
  BY DEF IpcInv, IpcTypeOK
<1>1. down' \in Seq(Sizes) /\ rsz' \in Sizes
  BY <1>0, LatestReceived
<1>2. rsz' \in Nat \X Nat /\ win \in Nat \X Nat
  BY <1>1, Consts DEF IpcInv, IpcTypeOK
<1>3. rpc' = "recv" => win = rsz'
  <2>1. win = <<win[1], win[2]>> /\ rsz' = <<rsz'[1], rsz'[2]>>
    BY <1>2
  <2>. QED BY <2>1 DEF Differs
<1>4. Latest(down, rpc, rsz, win) = Latest(down', rpc', rsz', win')
  <2>1. Latest(down, rpc, rsz, win)
          = IF Tail(down) = <<>> THEN Head(down) ELSE Latest(Tail(down), rpc', rsz', win')
    BY <1>0, LatestReceived
  <2>. QED BY <2>1, <1>3 DEF Latest
<1>5. IpcTypeOK'
  BY <1>1 DEF IpcInv, IpcTypeOK
<1>6. Reaches'
  BY <1>4 DEF IpcInv, Reaches, Where, Torn
<1>. QED BY <1>5, <1>6 DEF IpcInv

LEMMA SetSizeKeeps == IpcInv /\ SetSize => IpcInv'
<1>. SUFFICES ASSUME IpcInv, SetSize PROVE IpcInv'
  OBVIOUS
<1>0. rsz \in Sizes /\ rsz = <<rsz[1], rsz[2]>> /\ rsz \in Nat \X Nat /\ win \in Nat \X Nat
  <2>1. rsz \in Sizes /\ win \in Nat \X Nat
    BY DEF IpcInv, IpcTypeOK
  <2>2. rsz \in Nat \X Nat
    BY <2>1, Consts
  <2>. QED BY <2>1, <2>2
<1>. USE DEF SetSize, appv
<1>1. IpcTypeOK'
  BY <1>0 DEF IpcInv, IpcTypeOK
<1>2. Reaches'
  BY <1>0 DEF IpcInv, Reaches, Where, Torn, Latest
<1>. QED BY <1>1, <1>2 DEF IpcInv

LEMMA RaiseKeeps == IpcInv /\ Raise => IpcInv'
<1>. SUFFICES ASSUME IpcInv, Raise PROVE IpcInv'
  OBVIOUS
<1>. USE DEF Raise, appv
<1>1. IpcTypeOK'
  BY DEF IpcInv, IpcTypeOK
<1>2. Reaches'
  BY DEF IpcInv, Reaches, Where, Torn, Told, Latest
<1>. QED BY <1>1, <1>2 DEF IpcInv

-----------------------------------------------------------------------------
(* The theorems *)

\* Every step of the event loop, of ssh's main thread and of its reader thread,
\* the end of ssh and its restart keep the invariant.
THEOREM IpcInvariant == IpcSpec => []IpcInv
<1>1. IpcInit => IpcInv
  BY IpcInvInit
<1>2. IpcInv /\ [IpcNext]_ipcVars => IpcInv'
  <2>. SUFFICES ASSUME IpcInv, [IpcNext]_ipcVars PROVE IpcInv'
    OBVIOUS
  <2>1. CASE Resize
    BY <2>1, ResizeKeeps
  <2>2. CASE AppStep
    BY <2>2, QueuedKeeps, ConnectionKeeps, DisconnectedKeeps, ReadyReadKeeps, TakeNextKeeps DEF AppStep
  <2>3. CASE MainStep
    <3>1. CASE SendPtyReq
      BY <3>1, TellKeeps DEF SendPtyReq
    <3>2. CASE SendWindowChange
      <4>1. open' = TRUE
        BY <3>2 DEF SendWindowChange, IpcInv, Reaches, Where, IpcTypeOK
      <4>. QED BY <3>2, <4>1, TellKeeps DEF SendWindowChange
    <3>. QED BY <2>3, <3>1, <3>2, StartKeeps, AskPasswordKeeps, EnterLoopKeeps, RequestPtyKeeps,
                CheckKeeps DEF MainStep
  <2>4. CASE ReaderStep
    BY <2>4, RecvKeeps, SetSizeKeeps, RaiseKeeps DEF ReaderStep
  <2>5. CASE SshExits \/ Reconnect
    BY <2>5, ExitKeeps, ReconnectKeeps
  <2>6. CASE UNCHANGED ipcVars
    <3>. USE <2>6 DEF ipcVars, sshv, readerv, appv
    <3>1. IpcTypeOK'
      BY DEF IpcInv, IpcTypeOK
    <3>2. Reaches'
      BY DEF IpcInv, Reaches
    <3>. QED BY <3>1, <3>2 DEF IpcInv
  <2>. QED BY <2>1, <2>2, <2>3, <2>4, <2>5, <2>6 DEF IpcNext
<1>. QED BY <1>1, <1>2, PTL DEF IpcSpec

\* The variables of the three threads keep their types; in particular m_buf
\* never holds more than what ssh has written (FunArgReader::next removes whole
\* frames), however the bytes are cut.
THEOREM IpcTypes == IpcSpec => []IpcTypeOK
<1>1. IpcInv => IpcTypeOK
  BY DEF IpcInv
<1>. QED BY <1>1, IpcInvariant, PTL

\* Whenever nothing is under way the server has the size of the terminal,
\* whatever torn reads, ignored signals, lost updates, changes of the font and
\* reconnections came before: only a font changed after the last update, and an
\* ssh that never connected, can make them differ.
THEOREM SizeAgrees == IpcSpec => []SizeAgreesWhenQuiet
<1>1. IpcInv => SizeAgreesWhenQuiet
  <2>. SUFFICES ASSUME IpcInv, Quiet, hdl, ~font PROVE remote = size
    BY DEF SizeAgreesWhenQuiet
  <2>1. ~Asks(up)
    <3>1. \A u : u = <<>> => ~Asks(u)
      BY DEF Asks
    <3>. QED BY <3>1 DEF Quiet
  <2>2. remote = win
    BY DEF IpcInv, Reaches, Told, Quiet
  <2>3. win = size
    BY <2>1 DEF IpcInv, Reaches, Latest, Quiet
  <2>. QED BY <2>2, <2>3
<1>. QED BY <1>1, IpcInvariant, PTL
=============================================================================
