------------------------- MODULE ScriptShellProofs ---------------------------
(***************************************************************************)
(* What a script is told of its remote shells: for any number of hosts,    *)
(* calls, ends of ssh and stops by the user, and whatever prompts arrive   *)
(* late.                                                                   *)
(***************************************************************************)
EXTENDS ScriptShell, SequenceTheorems, FiniteSetTheorems,
        WellFoundedInduction, NaturalsInduction, TLAPS

Steps == {"login", "nl", "cmd", "su", "pwd", "echo", "ls", "lsecho", "zm"}
Lines == [k : LineKinds, n : 0 .. MaxCalls]
Living == {"starting", "up", "gone", "reaped"}
Shells == [st : Living \cup {"none", "deleted"}, lines : Seq(Lines), out : Seq(Units),
           zero : BOOLEAN, asking : BOOLEAN, ran : BOOLEAN]
AllCalls == [op : Ops \cup {"none"}, who : 0 .. MaxProcs, good : BOOLEAN, n : 0 .. MaxCalls,
             transfers : Nat]

Typed ==
    /\ tpc \in {"script", "wait", "sleep", "end", "crashed"} /\ call \in AllCalls
    /\ m_all \in Seq(Procs) /\ cur \in Nat /\ goal \in 0 .. MaxProcs
    /\ step \in Steps \cup {"none"} /\ code \in Codes \cup {"none"} /\ armed \in BOOLEAN
    /\ seen \in Answers \cup {"prompt"} /\ zm \in {"none", "running", "killed", "done"}
    /\ passed \in BOOLEAN /\ codes \subseteq BOOLEAN
    /\ res \in [failed : BOOLEAN, err : BOOLEAN] /\ stop \in BOOLEAN /\ aborted \in BOOLEAN
    /\ sh \in [Procs -> Shells] /\ troubles \in 0 .. MaxTroubles
    /\ claimed \subseteq Procs /\ drained \subseteq Procs /\ astray \subseteq Procs

\* The processes were started in the order of their numbers.
InOrder(s, k) == \A p \in Procs : /\ s[p].st # "none" <=> p <= k
                                  /\ s[p].st = "none" => s[p] = NoShell

\* The shells v logged in to are the processes s that live, as long as the
\* thread does.
Logged(v, s, alive) ==
    /\ \A i, j \in DOMAIN v : v[i] = v[j] => i = j
    /\ \A p \in Procs : s[p].st \in Living <=> alive /\ \E i \in DOMAIN v : v[i] = p

\* The steps an operation goes through.
StepsOf(op) ==
    CASE op = "login" -> {"login"}
      [] op = "exec" -> {"nl", "cmd", "echo"}
      [] op = "su" -> {"nl", "su", "pwd", "echo"}
      [] op = "upload" -> {"nl", "zm"}
      [] op = "download" -> {"nl", "ls", "lsecho", "zm"}
      [] OTHER -> {}

\* Where the call c is, with k processes started.
Placed(t, c, v, i, g, s, z, k) ==
    /\ Len(v) <= k /\ (z # "none" => s = "zm")
    /\ c.op \notin {"upload", "download"} => c.good
    /\ c.op \notin {"exec", "su"} => c.who = 0
    /\ t \in {"wait", "sleep"} =>
         /\ c.op # "none" /\ i \in 1 .. Len(v) /\ g >= i /\ s \in StepsOf(c.op)
         /\ IF c.op = "login" THEN i = Len(v) /\ k + (g - i) <= MaxProcs ELSE g = Len(v)
    /\ t = "sleep" => c.op \in {"upload", "download"} /\ z = "none"

-----------------------------------------------------------------------------
(* One shell *)

\* No answer to an "echo $?" is to come from shell s.
NoEcho(q) == \A i \in DOMAIN q : q[i].k # "echo"
NoAnswer(u) == \A i \in DOMAIN u : u[i] \notin Answers
Settled(s) == NoEcho(s.lines) /\ NoAnswer(s.out)

\* At most one is to come, to the line written last.
OneEcho(s) ==
    /\ \A i \in DOMAIN s.lines : s.lines[i].k = "echo" => i = Len(s.lines) /\ NoAnswer(s.out)

\* Line l is the command or the password of call n.
IsCommand(l, n) == l.n = n /\ l.k \in {"cmd", "su", "pwd"}

\* The shell is done with its lines: $? is 0 only if it ran the command.
Earned(s) == s.asking \/ (s.zero => s.ran)

\* The command of call n is what s was written last.
Asked(s, n) == IF s.lines = <<>> THEN Earned(s) ELSE IsCommand(s.lines[Len(s.lines)], n)

\* The answer to the echo of call n is 0 only when its command ran.
EchoEarned(s, n) ==
    /\ \A i \in DOMAIN s.out : s.out[i] = "zero" => s.ran
    /\ \A i \in DOMAIN s.lines : s.lines[i].k = "echo" =>
          IF i = 1 THEN Earned(s) ELSE IsCommand(s.lines[i - 1], n)

\* What a shell that no download has left behind may still have to say, where here says that
\* the thread waits for it in step p of call n and its text has answer a.
InHand(s, here, p, a, n) ==
    /\ IF here /\ p \in {"echo", "lsecho"} /\ a = "prompt" THEN OneEcho(s) ELSE Settled(s)
    /\ here /\ p \in {"cmd", "su", "pwd"} /\ s.st = "up" => Asked(s, n)
    /\ here /\ p = "echo" =>
         /\ a = "prompt" => EchoEarned(s, n)
         /\ a = "zero" => s.ran

\* A shell that has not printed its first prompt is waited for.
Fresh(s, here, p, c) ==
    s.st = "starting" => here /\ p = "login" /\ c # "normal" /\ s.lines = <<>> /\ s.out = <<>>

Here(p) == tpc = "wait" /\ p = m_all[cur]

ShellsOK ==
    \A p \in Procs :
       /\ p \notin astray => InHand(sh[p], Here(p), step, seen, call.n)
       /\ Fresh(sh[p], Here(p), step, code)
       /\ p \in claimed \ astray => sh[p].ran \/ sh[p].st = "deleted"

\* The shells before place i have done the call for every host.
DoneBefore(i, c, v, d) ==
    c.op \in {"exec", "su"} /\ c.who = 0 => \A j \in DOMAIN v : j < i => v[j] \in d

ScInv ==
    /\ Typed
    /\ \E k \in 0 .. MaxProcs : /\ InOrder(sh, k)
                                /\ Placed(tpc, call, m_all, cur, goal, step, zm, k)
    /\ Logged(m_all, sh, Alive) /\ ShellsOK
    /\ InLoop => DoneBefore(cur, call, m_all, claimed)
    /\ tpc = "script" => /\ DoneBefore(Len(m_all) + 1, call, m_all, claimed)
                         /\ call.op \in {"login", "exec", "su"} /\ res.failed => res.err

-----------------------------------------------------------------------------
(* Sequences *)

LEMMA Appended ==
    ASSUME NEW S, NEW q \in Seq(S), NEW x \in S
    PROVE  /\ Append(q, x) \in Seq(S) /\ Append(q, x) # <<>>
           /\ \E n \in Nat : /\ Len(q) = n /\ Len(Append(q, x)) = n + 1
                             /\ DOMAIN q = 1 .. n /\ DOMAIN Append(q, x) = 1 .. n + 1
                             /\ Append(q, x)[n + 1] = x
                             /\ \A i \in 1 .. n : Append(q, x)[i] = q[i]
<1>1. PICK n \in Nat : Len(q) = n
  BY LenProperties
<1>2. /\ Append(q, x) \in Seq(S) /\ DOMAIN Append(q, x) = 1 .. n + 1 /\ DOMAIN q = 1 .. n
      /\ Append(q, x) # <<>> /\ Len(Append(q, x)) = n + 1
      /\ Append(q, x)[n + 1] = x /\ \A i \in 1 .. n : Append(q, x)[i] = q[i]
  BY <1>1, AppendProperties
<1>. QED BY <1>1, <1>2

LEMMA Shortened ==
    ASSUME NEW S, NEW q \in Seq(S), q # <<>>
    PROVE  /\ Tail(q) \in Seq(S) /\ Head(q) \in S /\ Head(q) = q[1]
           /\ \E n \in Nat : /\ Len(q) = n + 1 /\ Len(Tail(q)) = n
                             /\ DOMAIN q = 1 .. n + 1 /\ DOMAIN Tail(q) = 1 .. n
                             /\ Tail(q) = <<>> <=> n = 0
                             /\ \A i \in 1 .. n : Tail(q)[i] = q[i + 1]
<1>1. PICK n \in Nat : Len(q) = n + 1
  BY EmptySeq, LenProperties
<1>2. /\ Tail(q) \in Seq(S) /\ DOMAIN Tail(q) = 1 .. n /\ DOMAIN q = 1 .. n + 1
      /\ Head(q) = q[1] /\ Head(q) \in S /\ Len(Tail(q)) = n
      /\ \A i \in 1 .. n : Tail(q)[i] = q[i + 1]
  BY <1>1, HeadTailProperties
<1>3. Tail(q) = <<>> <=> n = 0
  BY <1>2, EmptySeq
<1>. QED BY <1>1, <1>2, <1>3

-----------------------------------------------------------------------------
(* One shell *)

\* What a shell t is after s has read the line l.
After(s, l, t, n) ==
    /\ t \in Shells /\ t.st = s.st /\ t.lines = Tail(s.lines) /\ (s.ran => t.ran)
    /\ \/ t.out = s.out
       \/ t.out = Append(s.out, "prompt")
       \/ ~s.asking /\ l.k = "echo" /\ t.out = Append(s.out, IF s.zero THEN "zero" ELSE "other")
    /\ IsCommand(l, n) => Earned(t)

LEMMA ReadsFacts ==
    ASSUME NEW s \in Shells, s.lines # <<>>, NEW t \in Reads(s, Head(s.lines))
    PROVE  After(s, Head(s.lines), t, call.n)
<1>. DEFINE l == Head(s.lines)
            u == [s EXCEPT !.lines = Tail(@)]
            Ran(good) == [u EXCEPT !.asking = FALSE, !.zero = good, !.out = Append(@, "prompt"),
                                   !.ran = @ \/ (good /\ l.n = call.n)]
<1>1. s.lines \in Seq(Lines) /\ s.out \in Seq(Units)
  BY DEF Shells
<1>2. l \in Lines /\ Tail(s.lines) \in Seq(Lines)
  BY <1>1, Shortened
<1>3. /\ Append(s.out, "prompt") \in Seq(Units) /\ Append(s.out, "zero") \in Seq(Units)
      /\ Append(s.out, "other") \in Seq(Units)
  <2>1. {"prompt", "zero", "other"} \subseteq Units
    BY DEF Units, Answers
  <2>. QED BY <1>1, <2>1, Appended
<1>4. /\ u \in Shells /\ u.st = s.st /\ u.lines = Tail(s.lines) /\ u.ran = s.ran /\ u.out = s.out
      /\ u.zero = s.zero /\ u.asking = s.asking
  BY <1>2 DEF Shells
<1>. HIDE DEF u
<1>5. ASSUME NEW good \in BOOLEAN
      PROVE  After(s, l, Ran(good), call.n)
  <2>. DEFINE r == Ran(good)
  <2>1. r \in Shells
    <3>1. (u.ran \/ (good /\ l.n = call.n)) \in BOOLEAN
      OBVIOUS
    <3>. QED BY <1>3, <1>4, <3>1 DEF Shells
  <2>2. /\ r.st = s.st /\ r.lines = Tail(s.lines) /\ r.out = Append(s.out, "prompt")
        /\ r.zero = good /\ r.asking = FALSE /\ r.ran = (s.ran \/ (good /\ l.n = call.n))
    BY <1>4 DEF Shells
  <2>. HIDE DEF r
  <2>3. After(s, l, r, call.n)
    BY <2>1, <2>2 DEF After, Earned, IsCommand
  <2>. QED BY <2>3 DEF r
<1>6. CASE s.asking
  <2>1. t = Ran(FALSE) \/ t = Ran(TRUE)
    BY <1>6 DEF Reads, u
  <2>. QED BY <2>1, <1>5
<1>7. CASE ~s.asking /\ l.k = "nl"
  <2>1. t = [u EXCEPT !.out = Append(@, "prompt")]
    BY <1>7 DEF Reads, u
  <2>. QED BY <2>1, <1>3, <1>4, <1>7 DEF After, Shells, IsCommand
<1>8. CASE ~s.asking /\ l.k = "echo"
  <2>1. t = [u EXCEPT !.zero = TRUE, !.out = Append(@, IF u.zero THEN "zero" ELSE "other")]
    BY <1>8 DEF Reads, u
  <2>. QED BY <2>1, <1>3, <1>4, <1>8 DEF After, Shells, IsCommand
<1>9. CASE ~s.asking /\ l.k = "cmd"
  <2>1. t = Ran(FALSE) \/ t = Ran(TRUE)
    BY <1>9 DEF Reads, u
  <2>. QED BY <2>1, <1>5
<1>10. CASE ~s.asking /\ l.k = "su"
  <2>1. t = Ran(FALSE) \/ t = Ran(TRUE) \/ t = [u EXCEPT !.asking = TRUE]
    BY <1>10 DEF Reads, u
  <2>2. CASE t = [u EXCEPT !.asking = TRUE]
    BY <2>2, <1>4 DEF After, Shells, Earned
  <2>. QED BY <2>1, <2>2, <1>5
<1>11. CASE ~s.asking /\ l.k \in {"pwd", "ls", "transfer"}
  <2>1. PICK good \in BOOLEAN : /\ t = [u EXCEPT !.zero = good, !.out = Append(@, "prompt")]
                                /\ l.k = "pwd" => good = FALSE
    BY <1>11 DEF Reads, u
  <2>. QED BY <2>1, <1>3, <1>4, <1>11 DEF After, Shells, IsCommand, Earned
<1>12. l.k \in {"nl", "cmd", "su", "pwd", "echo", "ls", "transfer"}
  BY <1>2 DEF Lines, LineKinds
<1>. QED BY <1>6, <1>7, <1>8, <1>9, <1>10, <1>11, <1>12

\* Reading a line keeps what is known of a shell.
LEMMA ReadsKeep ==
    ASSUME NEW s \in Shells, s.lines # <<>>, NEW t, NEW n, After(s, Head(s.lines), t, n),
           NEW here \in BOOLEAN, NEW p, NEW a, InHand(s, here, p, a, n)
    PROVE  InHand(t, here, p, a, n)
<1>1. s.lines \in Seq(Lines) /\ s.out \in Seq(Units)
  BY DEF Shells
<1>2. PICK m \in Nat : /\ Len(s.lines) = m + 1 /\ Len(t.lines) = m
                       /\ DOMAIN s.lines = 1 .. m + 1 /\ DOMAIN t.lines = 1 .. m
                       /\ t.lines = <<>> <=> m = 0
                       /\ \A i \in 1 .. m : t.lines[i] = s.lines[i + 1]
  BY <1>1, Shortened DEF After
<1>3. Head(s.lines) = s.lines[1] /\ 1 \in 1 .. m + 1
  BY <1>1, Shortened
<1>4. \A i \in 1 .. m : i + 1 \in 1 .. m + 1 /\ i + 1 # 1
  OBVIOUS
<1>5. \/ t.out = s.out
      \/ \E u \in Units, k \in Nat :
           /\ DOMAIN s.out = 1 .. k /\ DOMAIN t.out = 1 .. k + 1
           /\ t.out[k + 1] = u /\ \A i \in 1 .. k : t.out[i] = s.out[i]
           /\ u \in Answers => ~s.asking /\ Head(s.lines).k = "echo"
           /\ u = "zero" => s.zero
  <2>. DEFINE u == IF t.out = Append(s.out, "prompt") THEN "prompt" ELSE IF s.zero THEN "zero" ELSE "other"
  <2>1. u \in Units /\ (u = "zero" => s.zero)
    BY DEF Units, Answers
  <2>2. CASE t.out = s.out
    BY <2>2
  <2>3. CASE t.out # s.out
    <3>1. t.out = Append(s.out, u) /\ (u \in Answers => ~s.asking /\ Head(s.lines).k = "echo")
      BY <2>3 DEF After, Answers
    <3>. HIDE DEF u
    <3>2. PICK k \in Nat : /\ DOMAIN s.out = 1 .. k /\ DOMAIN Append(s.out, u) = 1 .. k + 1
                           /\ Append(s.out, u)[k + 1] = u
                           /\ \A i \in 1 .. k : Append(s.out, u)[i] = s.out[i]
      BY <1>1, <2>1, Appended
    <3>. QED BY <2>1, <3>1, <3>2
  <2>. QED BY <2>2, <2>3
<1>6. NoAnswer(s.out) /\ Head(s.lines).k # "echo" => NoAnswer(t.out)
  BY <1>5 DEF NoAnswer
<1>7. NoEcho(s.lines) => NoEcho(t.lines)
  BY <1>2, <1>4 DEF NoEcho
<1>8. Settled(s) => Settled(t)
  BY <1>6, <1>7, <1>3, <1>2 DEF Settled, NoEcho
<1>9. OneEcho(s) => OneEcho(t)
  <2>. SUFFICES ASSUME OneEcho(s), NEW i \in 1 .. m, t.lines[i].k = "echo"
                PROVE  i = m /\ NoAnswer(t.out)
    BY <1>2 DEF OneEcho
  <2>1. s.lines[i + 1].k = "echo" /\ i + 1 \in DOMAIN s.lines /\ i + 1 # 1
    BY <1>2, <1>4
  <2>2. i + 1 = m + 1 /\ NoAnswer(s.out)
    BY <2>1, <1>2 DEF OneEcho
  <2>3. Head(s.lines).k # "echo"
    <3>1. 1 \in DOMAIN s.lines /\ 1 # m + 1
      BY <1>2, <1>3, <2>2
    <3>. QED BY <3>1, <1>2, <1>3 DEF OneEcho
  <2>. QED BY <2>2, <2>3, <1>6
<1>10. Asked(s, n) => Asked(t, n)
  <2>1. CASE m = 0
    BY <2>1, <1>2, <1>3 DEF Asked, After
  <2>2. CASE m # 0
    <3>1. m \in 1 .. m
      BY <2>2
    <3>2. t.lines[m] = s.lines[m + 1]
      BY <3>1, <1>2
    <3>. QED BY <2>2, <3>2, <1>2 DEF Asked
  <2>. QED BY <2>1, <2>2
<1>11. EchoEarned(s, n) => EchoEarned(t, n)
  <2>. SUFFICES ASSUME EchoEarned(s, n) PROVE EchoEarned(t, n)
    OBVIOUS
  <2>1. ASSUME NEW i \in DOMAIN t.out, t.out[i] = "zero"
        PROVE  t.ran
    <3>1. CASE \E j \in DOMAIN s.out : s.out[j] = "zero"
      BY <3>1 DEF EchoEarned, After
    <3>2. CASE ~ \E j \in DOMAIN s.out : s.out[j] = "zero"
      <4>1. s.zero /\ ~s.asking /\ Head(s.lines).k = "echo"
        BY <2>1, <3>2, <1>5 DEF Answers
      <4>2. Earned(s)
        BY <4>1, <1>2, <1>3 DEF EchoEarned
      <4>. QED BY <4>1, <4>2 DEF Earned, After
    <3>. QED BY <3>1, <3>2
  <2>2. ASSUME NEW i \in 1 .. m, t.lines[i].k = "echo"
        PROVE  IF i = 1 THEN Earned(t) ELSE IsCommand(t.lines[i - 1], n)
    <3>1. s.lines[i + 1].k = "echo" /\ i + 1 \in DOMAIN s.lines /\ i + 1 # 1 /\ (i + 1) - 1 = i
      BY <2>2, <1>2, <1>4
    <3>2. IsCommand(s.lines[i], n)
      BY <3>1 DEF EchoEarned
    <3>3. CASE i = 1
      BY <3>2, <3>3, <1>3 DEF After
    <3>4. CASE i # 1
      <4>1. i - 1 \in 1 .. m /\ (i - 1) + 1 = i
        BY <3>4
      <4>. QED BY <3>2, <3>4, <4>1, <1>2
    <3>. QED BY <3>3, <3>4
  <2>. QED BY <2>1, <2>2, <1>2 DEF EchoEarned
<1>. QED BY <1>8, <1>9, <1>10, <1>11 DEF InHand, After

\* What is written before the wait of step step'.
LEMMA Written ==
    ASSUME NEW s \in Shells, call' \in AllCalls, step' \in Steps
    PROVE  /\ Write(s) \in Shells /\ Write(s).st = s.st /\ Write(s).ran = s.ran
           /\ \/ Write(s) = s /\ (s.st # "up" \/ step' = "login")
              \/ \E l \in Lines :
                   /\ s.st = "up" /\ Write(s) = [s EXCEPT !.lines = Append(s.lines, l)]
                   /\ l.k = "echo" <=> step' \in {"echo", "lsecho"}
                   /\ step' \in {"cmd", "su", "pwd"} => IsCommand(l, call'.n)
<1>1. CASE s.st # "up"
  BY <1>1 DEF Write
<1>2. CASE s.st = "up" /\ step' = "login"
  <2>1. s.lines \in Seq(Lines)
    BY DEF Shells
  <2>2. s.lines \o <<>> = s.lines
    BY <2>1, ConcatEmptySeq
  <2>3. LineOf(step') = <<>>
    BY <1>2 DEF LineOf
  <2>4. Write(s) = [s EXCEPT !.lines = s.lines]
    BY <1>2, <2>2, <2>3 DEF Write
  <2>5. [s EXCEPT !.lines = s.lines] = s
    BY DEF Shells
  <2>. QED BY <1>2, <2>4, <2>5
<1>3. CASE s.st = "up" /\ step' # "login"
  <2>. DEFINE l == [k |-> CASE step' \in {"echo", "lsecho"} -> "echo" [] step' = "zm" -> "transfer"
                            [] OTHER -> step',
                    n |-> IF step' \in {"cmd", "su", "pwd"} THEN call'.n ELSE 0]
  <2>0. call'.n \in 0 .. MaxCalls /\ MaxCalls \in Nat
    BY ScriptAssumption DEF AllCalls
  <2>1. l \in Lines
    BY <2>0, <1>3 DEF Lines, LineKinds, Steps
  <2>2. l.k = "echo" <=> step' \in {"echo", "lsecho"}
    OBVIOUS
  <2>3. step' \in {"cmd", "su", "pwd"} => IsCommand(l, call'.n)
    BY DEF IsCommand
  <2>4. LineOf(step') = <<l>>
    BY <1>3 DEF LineOf, Steps
  <2>. HIDE DEF l
  <2>5. s.lines \in Seq(Lines)
    BY DEF Shells
  <2>6. s.lines \o <<l>> = Append(s.lines, l) /\ Append(s.lines, l) \in Seq(Lines)
    BY <2>1, <2>5, AppendProperties, ConcatProperties
  <2>7. Write(s) = [s EXCEPT !.lines = Append(s.lines, l)]
    BY <1>3, <2>4, <2>6 DEF Write
  <2>8. [s EXCEPT !.lines = Append(s.lines, l)] \in Shells
    BY <2>6 DEF Shells
  <2>. QED BY <1>3, <2>1, <2>2, <2>3, <2>7, <2>8 DEF Shells
<1>. QED BY <1>1, <1>2, <1>3

\* A shell from which no answer is to come is waited for in step step' of call n.
LEMMA WriteKeeps ==
    ASSUME NEW s \in Shells, call' \in AllCalls, step' \in Steps, Settled(s),
           step' = "echo" /\ s.st = "up" => Asked(s, call'.n)
    PROVE  InHand(Write(s), TRUE, step', "prompt", call'.n)
<1>. DEFINE t == Write(s)
<1>0. s.lines \in Seq(Lines) /\ s.out \in Seq(Units)
  BY DEF Shells
<1>1. CASE t = s /\ (s.st # "up" \/ step' = "login")
  <2>1. OneEcho(s)
    BY DEF Settled, NoEcho, OneEcho
  <2>2. EchoEarned(s, call'.n)
    BY DEF Settled, NoEcho, NoAnswer, EchoEarned, Answers
  <2>. QED BY <1>1, <2>1, <2>2 DEF InHand
<1>2. CASE ~(t = s /\ (s.st # "up" \/ step' = "login"))
  <2>1. PICK l \in Lines :
           /\ s.st = "up" /\ t = [s EXCEPT !.lines = Append(s.lines, l)]
           /\ l.k = "echo" <=> step' \in {"echo", "lsecho"}
           /\ step' \in {"cmd", "su", "pwd"} => IsCommand(l, call'.n)
    BY <1>2, Written
  <2>2. PICK m \in Nat : /\ Len(s.lines) = m /\ Len(Append(s.lines, l)) = m + 1
                         /\ DOMAIN s.lines = 1 .. m /\ DOMAIN Append(s.lines, l) = 1 .. m + 1
                         /\ Append(s.lines, l)[m + 1] = l
                         /\ \A i \in 1 .. m : Append(s.lines, l)[i] = s.lines[i]
    BY <1>0, Appended
  <2>3. Append(s.lines, l) # <<>>
    BY <1>0, Appended
  <2>. DEFINE q == Append(s.lines, l)
  <2>4. t.lines = q /\ t.out = s.out /\ t.st = "up" /\ t.zero = s.zero /\ t.ran = s.ran /\ t.asking = s.asking
    BY <2>1 DEF Shells
  <2>. HIDE DEF q, t
  <2>5. /\ Len(q) = m + 1 /\ DOMAIN q = 1 .. m + 1 /\ q[m + 1] = l /\ q # <<>>
        /\ \A i \in 1 .. m : q[i] = s.lines[i] /\ q[i].k # "echo"
    BY <2>2, <2>3 DEF q, Settled, NoEcho
  <2>6. ASSUME NEW i \in 1 .. m + 1, q[i].k = "echo"
        PROVE  i = m + 1 /\ l.k = "echo"
    BY <2>5, <2>6
  <2>7. l.k # "echo" => Settled(t)
    BY <2>4, <2>5, <2>6 DEF Settled, NoEcho
  <2>8. OneEcho(t)
    BY <2>4, <2>5, <2>6 DEF OneEcho, Settled
  <2>9. IsCommand(l, call'.n) => Asked(t, call'.n)
    BY <2>4, <2>5 DEF Asked
  <2>10. step' = "echo" => EchoEarned(t, call'.n)
    <3>. SUFFICES ASSUME step' = "echo" PROVE EchoEarned(t, call'.n)
      OBVIOUS
    <3>1. Asked(s, call'.n)
      BY <2>1
    <3>2. \A i \in DOMAIN t.out : t.out[i] # "zero"
      BY <2>4 DEF Settled, NoAnswer, Answers
    <3>3. CASE m = 0
      <4>1. s.lines = <<>>
        BY <1>0, <2>2, <3>3, EmptySeq
      <4>2. Earned(t)
        BY <3>1, <4>1, <2>4 DEF Asked, Earned
      <4>. QED BY <3>2, <3>3, <4>2, <2>4, <2>5 DEF EchoEarned
    <3>4. CASE m # 0
      <4>1. s.lines # <<>> /\ m \in 1 .. m
        BY <2>2, <3>4
      <4>2. IsCommand(q[m], call'.n)
        BY <3>1, <4>1, <2>2, <2>5 DEF Asked
      <4>3. \A i \in DOMAIN t.lines : t.lines[i].k = "echo" => i # 1 /\ i - 1 = m
        BY <2>4, <2>5, <2>6, <3>4
      <4>. QED BY <3>2, <4>2, <4>3, <2>4 DEF EchoEarned
    <3>. QED BY <3>3, <3>4
  <2>11. InHand(t, TRUE, step', "prompt", call'.n)
    BY <2>1, <2>7, <2>8, <2>9, <2>10 DEF InHand
  <2>. QED BY <2>11 DEF t
<1>. QED BY <1>1, <1>2

LEMMA NotHere ==
    \A s, p, a, n : InHand(s, FALSE, p, a, n) <=> Settled(s)
  BY DEF InHand

LEMMA NoneIsSettled ==
    /\ NoShell \in Shells /\ Settled(NoShell)
    /\ [NoShell EXCEPT !.st = "deleted"] \in Shells /\ Settled([NoShell EXCEPT !.st = "deleted"])
    /\ [NoShell EXCEPT !.st = "starting"] \in Shells /\ Settled([NoShell EXCEPT !.st = "starting"])
<1>1. <<>> \in Seq(Lines) /\ <<>> \in Seq(Units) /\ DOMAIN <<>> = {}
  OBVIOUS
<1>2. NoShell \in Shells
  BY <1>1 DEF NoShell, Shells, Living
<1>. QED BY <1>1, <1>2 DEF NoShell, Shells, Living, Settled, NoEcho, NoAnswer

-----------------------------------------------------------------------------
(* Where the call goes next *)

LEMMA HowMany ==
    ASSUME NEW k \in 0 .. MaxProcs, MaxProcs \in Nat, InOrder(sh, k)
    PROVE  Started = k
<1>1. {p \in Procs : sh[p].st # "none"} = 1 .. k
  BY DEF InOrder, Procs
<1>2. Cardinality(1 .. k) = k
  BY FS_Interval
<1>. QED BY <1>1, <1>2 DEF Started

LEMMA LeastOf ==
    ASSUME NEW T, T \subseteq Nat, T # {}
    PROVE  \E x \in T : \A y \in T : x <= y
<1>. DEFINE R == OpToRel(<, Nat)
<1>1. IsWellFoundedOn(R, Nat)
  BY NatLessThanWellFounded
<1>2. \A x, y \in Nat : x < y => <<x, y>> \in R
  BY DEF OpToRel
<1>. HIDE DEF R
<1>3. PICK x \in T : \A y \in T : ~ (<<y, x>> \in R)
  BY <1>1, WFMin
<1>4. \A y \in T : ~(y < x)
  BY <1>2, <1>3
<1>. QED BY <1>4

LEMMA FirstOf ==
    ASSUME NEW i \in Nat, i >= 1, NEW g \in Nat, NEW every \in BOOLEAN,
           NEW fit, fit \subseteq i .. g, every => fit = i .. g,
           NEW h, h = IF fit = {} THEN g + 1 ELSE Min(fit)
    PROVE  /\ h \in Nat /\ h >= 1
           /\ h \in i .. g \/ h = g + 1
           /\ every /\ i <= g => h = i
           /\ every /\ i > g => h = g + 1
<1>1. fit \subseteq Nat
  OBVIOUS
<1>2. CASE fit = {}
  <2>1. every => ~(i <= g)
    <3>1. i <= g => i \in i .. g
      OBVIOUS
    <3>. QED BY <1>2, <3>1
  <2>2. h = g + 1
    BY <1>2
  <2>. QED BY <2>1, <2>2
<1>3. CASE fit # {}
  <2>1. \E x \in fit : \A y \in fit : x <= y
    BY <1>1, <1>3, LeastOf
  <2>2. h \in fit /\ \A y \in fit : h <= y
    BY <1>3, <2>1 DEF Min
  <2>3. h \in i .. g
    BY <2>2
  <2>4. every => i \in fit
    BY <2>3
  <2>. QED BY <2>2, <2>3, <2>4
<1>. QED BY <1>2, <1>3

LEMMA HostAfter ==
    ASSUME NEW i \in Nat, i >= 1, goal' \in Nat
    PROVE  /\ NextHost(i) \in Nat /\ NextHost(i) >= 1
           /\ NextHost(i) \in i .. goal' \/ NextHost(i) = goal' + 1
           /\ call'.who = 0 /\ i <= goal' => NextHost(i) = i
           /\ call'.who = 0 /\ i > goal' => NextHost(i) = goal' + 1
<1>. DEFINE every == call'.who = 0
            fit == {j \in i .. goal' : every \/ m_all[j] = call'.who}
<1>1. NextHost(i) = IF fit = {} THEN goal' + 1 ELSE Min(fit)
  BY DEF NextHost
<1>2. fit \subseteq i .. goal' /\ (every => fit = i .. goal') /\ every \in BOOLEAN
  OBVIOUS
<1>. HIDE DEF fit, every
<1>3. /\ NextHost(i) \in Nat /\ NextHost(i) >= 1
      /\ NextHost(i) \in i .. goal' \/ NextHost(i) = goal' + 1
      /\ every /\ i <= goal' => NextHost(i) = i
      /\ every /\ i > goal' => NextHost(i) = goal' + 1
  BY <1>1, <1>2, FirstOf
<1>. QED BY <1>3 DEF every

LEMMA Consts ==
    /\ NHosts \in Nat /\ NHosts >= 1 /\ MaxProcs \in Nat /\ MaxCalls \in Nat /\ MaxTroubles \in Nat
    /\ Ops \subseteq {"login", "exec", "su", "upload", "download"}
  BY ScriptAssumption

\* A shell between two calls, or between its turn in one and the next shell's.
Rested(s, lost, done) ==
    /\ ~lost => Settled(s)
    /\ s.st # "starting"
    /\ done /\ ~lost => s.ran \/ s.st = "deleted"

\* The call c may go on with place i of v, with k processes started.
MayGoOn(c, v, i, g, k) ==
    IF c.op = "login" THEN i = Len(v) + 1 /\ k + (g - Len(v)) <= MaxProcs
                      ELSE g = Len(v)

LEMMA NextShellKeeps ==
    ASSUME m_all \in Seq(Procs), NEW calm \in [Procs -> Shells], NEW k \in 0 .. MaxProcs,
           NEW i \in Nat, i >= 1, NextShell(i, calm), Started = k,
           InOrder(calm, k), Logged(m_all, calm, TRUE), Len(m_all) <= k,
           \A p \in Procs : Rested(calm[p], p \in astray, p \in claimed'),
           call' \in AllCalls, call'.op # "none", goal' \in 0 .. MaxProcs, passed' \in BOOLEAN,
           codes' \subseteq BOOLEAN, stop' \in BOOLEAN, aborted' \in BOOLEAN,
           troubles' \in 0 .. MaxTroubles, claimed' \subseteq Procs /\ drained' \subseteq Procs, astray' = astray,
           astray \subseteq Procs,
           call'.op \notin {"upload", "download"} => call'.good,
           call'.op \notin {"exec", "su"} => call'.who = 0,
           i <= goal' => MayGoOn(call', m_all, i, goal', k) /\ DoneBefore(i, call', m_all, claimed'),
           i > goal' => DoneBefore(Len(m_all) + 1, call', m_all, claimed')
    PROVE  ScInv'
<1>0. PICK n \in Nat : Len(m_all) = n /\ DOMAIN m_all = 1 .. n
  BY LenProperties
<1>1. CASE i > goal' /\ CallReturns(FALSE) /\ m_all' = m_all /\ sh' = calm
  <2>1. /\ tpc' = "script" /\ code' = "none" /\ zm' = "none" /\ step' = "none" /\ cur' = 0
        /\ armed' = FALSE /\ seen' = "prompt" /\ res' = [failed |-> FALSE, err |-> HasError(codes')]
    BY <1>1 DEF CallReturns
  <2>2. Typed'
    <3>1. HasError(codes') \in BOOLEAN
      BY DEF HasError
    <3>2. res' \in [failed : BOOLEAN, err : BOOLEAN]
      BY <2>1, <3>1
    <3>. QED BY <1>1, <2>1, <3>2 DEF Typed
  <2>3. InOrder(sh', k) /\ Placed(tpc', call', m_all', cur', goal', step', zm', k)
    BY <1>1, <2>1 DEF Placed
  <2>4a. Alive' = TRUE /\ InLoop' = FALSE
    BY <2>1 DEF Alive, InLoop
  <2>4. Logged(m_all', sh', Alive')
    BY <1>1, <2>4a
  <2>5. ShellsOK'
    <3>. SUFFICES ASSUME NEW p \in Procs
                  PROVE  /\ p \notin astray => InHand(calm[p], FALSE, step', seen', call'.n)
                         /\ Fresh(calm[p], FALSE, step', code')
                         /\ p \in claimed' \ astray => calm[p].ran \/ calm[p].st = "deleted"
      <4>1. \A p \in Procs : Here(p)' = FALSE
        BY <2>1 DEF Here
      <4>. QED BY <1>1, <4>1 DEF ShellsOK
    <3>1. Rested(calm[p], p \in astray, p \in claimed')
      OBVIOUS
    <3>. QED BY <3>1, NotHere DEF Rested, Fresh
  <2>6. DoneBefore(Len(m_all') + 1, call', m_all', claimed') /\ ~res'.failed
    BY <1>1, <2>1
  <2>. QED BY <2>1, <2>2, <2>3, <2>4, <2>4a, <2>5, <2>6 DEF ScInv
<1>2. CASE /\ i <= goal' /\ cur' = i /\ Enter(FirstStep(call'.op)) /\ res' = NoResult
           /\ IF call'.op = "login"
              THEN /\ m_all' = Append(m_all, Started + 1)
                   /\ sh' = [calm EXCEPT ![Started + 1].st = "starting"]
              ELSE m_all' = m_all /\ sh' = [calm EXCEPT ![m_all[i]] = Write(@)]
  <2>1. /\ tpc' = "wait" /\ step' = FirstStep(call'.op) /\ code' = "none" /\ armed' = TRUE
        /\ seen' = "prompt" /\ zm' = "none"
    BY <1>2 DEF Enter, TimerStart, FirstStep
  <2>2. step' \in {"login", "nl"} /\ (step' = "login" <=> call'.op = "login")
    BY <2>1 DEF FirstStep
  <2>3. call'.op \in {"login", "exec", "su", "upload", "download"} /\ step' \in StepsOf(call'.op)
    BY <2>1, <2>2, Consts DEF AllCalls, StepsOf
  <2>4. res' \in [failed : BOOLEAN, err : BOOLEAN] /\ step' \in Steps
    BY <1>2, <2>2 DEF NoResult, Steps
  <2>5. MayGoOn(call', m_all, i, goal', k) /\ DoneBefore(i, call', m_all, claimed')
    BY <1>2
  <2>6. Alive' = TRUE /\ InLoop' = TRUE
    BY <2>1 DEF Alive, InLoop
  <2>7. CASE call'.op = "login"
    <3>. DEFINE w == Append(m_all, k + 1)
                x == [NoShell EXCEPT !.st = "starting"]
    <3>1. i = n + 1 /\ k + (goal' - n) <= MaxProcs /\ i <= goal'
      BY <1>0, <1>2, <2>5, <2>7 DEF MayGoOn
    <3>2. k + 1 \in 0 .. MaxProcs /\ k + 1 \in Procs /\ (k + 1) + (goal' - i) <= MaxProcs
      <4>1. goal' \in Nat /\ k \in Nat /\ MaxProcs \in Nat
        BY Consts
      <4>2. \A g \in Nat : n + 1 <= g /\ k + (g - n) <= MaxProcs
                              => k + 1 <= MaxProcs /\ (k + 1) + (g - (n + 1)) <= MaxProcs
        BY <4>1
      <4>3. k + 1 <= MaxProcs /\ (k + 1) + (goal' - (n + 1)) <= MaxProcs
        BY <4>1, <4>2, <3>1
      <4>4. k + 1 \in 0 .. MaxProcs /\ k + 1 \in 1 .. MaxProcs
        BY <4>1, <4>3
      <4>. QED BY <3>1, <4>3, <4>4 DEF Procs
    <3>3. /\ w \in Seq(Procs) /\ Len(w) = n + 1 /\ DOMAIN w = 1 .. n + 1 /\ w[n + 1] = k + 1
          /\ \A j \in 1 .. n : w[j] = m_all[j]
      BY <1>0, <3>2, Appended
    <3>4. calm[k + 1] = NoShell /\ k + 1 > k
      BY <3>2 DEF InOrder
    <3>5. x \in Shells /\ Settled(x) /\ x.st = "starting" /\ x.lines = <<>> /\ x.out = <<>>
      BY NoneIsSettled DEF NoShell
    <3>6. m_all' = w /\ sh' = [calm EXCEPT ![k + 1] = x]
      BY <1>2, <2>7, <3>2, <3>4
    <3>. HIDE DEF w, x
    <3>7. sh' \in [Procs -> Shells] /\ sh'[k + 1] = x /\ \A p \in Procs : p # k + 1 => sh'[p] = calm[p]
      BY <3>2, <3>5, <3>6
    <3>8. Typed'
      BY <1>2, <2>1, <2>4, <3>3, <3>6, <3>7 DEF Typed
    <3>9. InOrder(sh', k + 1)
      <4>. SUFFICES ASSUME NEW p \in Procs
                    PROVE  /\ sh'[p].st # "none" <=> p <= k + 1
                           /\ sh'[p].st = "none" => sh'[p] = NoShell
        BY DEF InOrder
      <4>1. p \in 1 .. MaxProcs
        BY DEF Procs
      <4>2. CASE p = k + 1
        BY <4>2, <3>5, <3>7
      <4>3. CASE p # k + 1
        <5>1. sh'[p] = calm[p] /\ (p <= k + 1 <=> p <= k)
          BY <4>1, <4>3, <3>7, Consts
        <5>. QED BY <5>1 DEF InOrder
      <4>. QED BY <4>2, <4>3
    <3>10. Placed(tpc', call', m_all', cur', goal', step', zm', k + 1)
      BY <1>2, <2>1, <2>3, <2>7, <3>1, <3>2, <3>3, <3>6 DEF Placed
    <3>11. Logged(m_all', sh', TRUE)
      <4>1. \A j \in 1 .. n : m_all[j] # k + 1
        <5>1. calm[k + 1].st \notin Living
          BY <3>4 DEF NoShell, Living
        <5>. QED BY <5>1, <3>2, <1>0 DEF Logged
      <4>2. ASSUME NEW a \in 1 .. n + 1, NEW b \in 1 .. n + 1, w[a] = w[b]
            PROVE  a = b
        <5>1. \A a1, b1 \in 1 .. n : m_all[a1] = m_all[b1] => a1 = b1
          BY <1>0 DEF Logged
        <5>2. (a = n + 1 \/ a \in 1 .. n) /\ (b = n + 1 \/ b \in 1 .. n)
          OBVIOUS
        <5>. QED BY <4>1, <4>2, <5>1, <5>2, <3>3
      <4>3. ASSUME NEW p \in Procs
            PROVE  sh'[p].st \in Living <=> \E j \in 1 .. n + 1 : w[j] = p
        <5>1. CASE p = k + 1
          <6>1. n + 1 \in 1 .. n + 1 /\ "starting" \in Living
            BY DEF Living
          <6>. QED BY <5>1, <6>1, <3>3, <3>5, <3>7
        <5>2. CASE p # k + 1
          <6>1. calm[p].st \in Living <=> \E j \in 1 .. n : m_all[j] = p
            BY <1>0 DEF Logged
          <6>2. (\E j \in 1 .. n : m_all[j] = p) <=> \E j \in 1 .. n + 1 : w[j] = p
            <7>1. \A j \in 1 .. n + 1 : j = n + 1 \/ j \in 1 .. n
              OBVIOUS
            <7>2. \A j \in 1 .. n : j \in 1 .. n + 1
              OBVIOUS
            <7>. QED BY <7>1, <7>2, <5>2, <3>3
          <6>. QED BY <5>2, <6>1, <6>2, <3>7
        <5>. QED BY <5>1, <5>2
      <4>. QED BY <4>2, <4>3, <3>3, <3>6 DEF Logged
    <3>12. ShellsOK'
      <4>. SUFFICES ASSUME NEW p \in Procs
                    PROVE  /\ p \notin astray => InHand(sh'[p], Here(p)', step', seen', call'.n)
                           /\ Fresh(sh'[p], Here(p)', step', code')
                           /\ p \in claimed' \ astray => sh'[p].ran \/ sh'[p].st = "deleted"
        BY DEF ShellsOK
      <4>0. Rested(calm[p], p \in astray, p \in claimed')
        OBVIOUS
      <4>1. CASE p = k + 1
        <5>1. Here(p)' = TRUE
          BY <4>1, <1>2, <2>1, <3>1, <3>3, <3>6 DEF Here
        <5>2. InHand(x, TRUE, "login", "prompt", call'.n)
          BY <3>5 DEF InHand
        <5>3. Fresh(x, TRUE, "login", "none")
          BY <3>5 DEF Fresh
        <5>4. p \in claimed' \ astray => x.ran \/ x.st = "deleted"
          BY <4>0, <4>1, <3>4 DEF Rested, NoShell
        <5>. QED BY <4>1, <5>1, <5>2, <5>3, <5>4, <2>1, <2>2, <2>7, <3>7
      <4>2. CASE p # k + 1
        <5>1. Here(p)' = FALSE
          BY <4>2, <1>2, <2>1, <3>1, <3>3, <3>6 DEF Here
        <5>. QED BY <4>0, <4>2, <5>1, <3>7, NotHere DEF Rested, Fresh
      <4>. QED BY <4>1, <4>2
    <3>13. DoneBefore(cur', call', m_all', claimed')
      BY <2>7 DEF DoneBefore
    <3>14. \E kk \in 0 .. MaxProcs : /\ InOrder(sh', kk)
                                     /\ Placed(tpc', call', m_all', cur', goal', step', zm', kk)
      BY <3>2, <3>9, <3>10
    <3>. QED BY <2>1, <2>6, <3>8, <3>11, <3>12, <3>13, <3>14 DEF ScInv
  <2>8. CASE call'.op # "login"
    <3>. DEFINE q == m_all[i]
    <3>1. goal' = n /\ i \in 1 .. n
      BY <1>0, <1>2, <2>5, <2>8 DEF MayGoOn
    <3>2. q \in Procs /\ m_all' = m_all
      BY <1>0, <1>2, <2>8, <3>1
    <3>. HIDE DEF q
    <3>. DEFINE y == Write(calm[q])
    <3>3. y \in Shells /\ y.st = calm[q].st /\ y.ran = calm[q].ran /\ step' = "nl"
      BY <2>2, <2>4, <2>8, <3>2, Written
    <3>4. sh' = [calm EXCEPT ![q] = y]
      BY <1>2, <2>8 DEF q
    <3>4a. Settled(calm[q]) => InHand(y, TRUE, step', "prompt", call'.n)
      BY <2>4, <3>2, <3>3, WriteKeeps
    <3>. HIDE DEF y
    <3>5. sh' \in [Procs -> Shells] /\ sh'[q] = y /\ \A p \in Procs : p # q => sh'[p] = calm[p]
      BY <3>2, <3>3, <3>4
    <3>6. Typed'
      BY <1>2, <2>1, <2>4, <3>2, <3>5 DEF Typed
    <3>7. \A p \in Procs : sh'[p].st = calm[p].st /\ sh'[p].ran = calm[p].ran
      BY <3>3, <3>5
    <3>8. InOrder(sh', k)
      <4>1. \A p \in Procs : calm[p].st = "none" => sh'[p] = calm[p]
        <5>1. calm[q].st \in Living
          BY <1>0, <3>1, <3>2 DEF Logged, q
        <5>. QED BY <5>1, <3>5 DEF Living
      <4>. QED BY <4>1, <3>7 DEF InOrder
    <3>9. Placed(tpc', call', m_all', cur', goal', step', zm', k)
      BY <1>0, <1>2, <2>1, <2>3, <2>8, <3>1, <3>2 DEF Placed
    <3>10. Logged(m_all', sh', TRUE)
      BY <3>2, <3>7 DEF Logged
    <3>11. ShellsOK'
      <4>. SUFFICES ASSUME NEW p \in Procs
                    PROVE  /\ p \notin astray => InHand(sh'[p], Here(p)', step', seen', call'.n)
                           /\ Fresh(sh'[p], Here(p)', step', code')
                           /\ p \in claimed' \ astray => sh'[p].ran \/ sh'[p].st = "deleted"
        BY DEF ShellsOK
      <4>0. Rested(calm[p], p \in astray, p \in claimed')
        OBVIOUS
      <4>1. CASE p = q
        <5>1. Here(p)' = TRUE
          BY <4>1, <1>2, <2>1, <3>2 DEF Here, q
        <5>. QED BY <4>0, <4>1, <5>1, <2>1, <3>3, <3>4a, <3>5 DEF Rested, Fresh
      <4>2. CASE p # q
        <5>1. Here(p)' = FALSE
          BY <4>2, <1>2, <2>1, <3>2 DEF Here, q
        <5>. QED BY <4>0, <4>2, <5>1, <3>5, NotHere DEF Rested, Fresh
      <4>. QED BY <4>1, <4>2
    <3>. QED BY <1>2, <2>1, <2>5, <2>6, <3>2, <3>6, <3>8, <3>9, <3>10, <3>11 DEF ScInv
  <2>. QED BY <2>7, <2>8
<1>. QED BY <1>1, <1>2 DEF NextShell

-----------------------------------------------------------------------------
(* The end of the shells *)

LEMMA DeletedFacts ==
    ASSUME sh \in [Procs -> Shells], NEW k, InOrder(sh, k)
    PROVE  /\ Deleted \in [Procs -> Shells] /\ InOrder(Deleted, k)
           /\ \A p \in Procs : /\ Settled(Deleted[p]) /\ Deleted[p].st \in {"none", "deleted"}
                               /\ sh[p].st # "none" => Deleted[p].st = "deleted"
<1>. DEFINE d == [NoShell EXCEPT !.st = "deleted"]
<1>1. /\ NoShell \in Shells /\ Settled(NoShell) /\ d \in Shells /\ Settled(d) /\ NoShell.st = "none"
      /\ d.st = "deleted"
  BY NoneIsSettled DEF NoShell
<1>2. Deleted = [p \in Procs |-> IF sh[p].st = "none" THEN NoShell ELSE d]
  BY DEF Deleted
<1>. HIDE DEF d
<1>3. \A p \in Procs : Deleted[p] = IF sh[p].st = "none" THEN NoShell ELSE d
  BY <1>2
<1>4. Deleted \in [Procs -> Shells]
  BY <1>1, <1>2
<1>. QED BY <1>1, <1>3, <1>4 DEF InOrder

\* What was returned for a shell, it is known of: it was started.
LEMMA ClaimedStarted ==
    ASSUME ShellsOK, sh \in [Procs -> Shells], NEW k, InOrder(sh, k)
    PROVE  \A p \in Procs : p \in claimed \ astray => sh[p].st # "none"
<1>1. NoShell.ran = FALSE
  BY DEF NoShell
<1>. QED BY <1>1 DEF ShellsOK, InOrder

LEMMA EndKeeps ==
    ASSUME ScInv, tpc' \in {"end", "crashed"}, sh' = Deleted,
           UNCHANGED <<callv, astray, code, armed, stop, aborted, seen, troubles>>
    PROVE  ScInv'
<1>0. /\ UNCHANGED <<call, m_all, cur, goal, step, passed, codes, zm, claimed, drained, astray, res>>
      /\ UNCHANGED <<code, armed, stop, aborted, seen, troubles>>
  BY DEF callv
<1>1. PICK k \in 0 .. MaxProcs : /\ InOrder(sh, k)
                                 /\ Placed(tpc, call, m_all, cur, goal, step, zm, k)
  BY DEF ScInv
<1>2. Typed /\ Logged(m_all, sh, Alive) /\ ShellsOK
  BY DEF ScInv
<1>3. sh \in [Procs -> Shells]
  BY <1>2 DEF Typed
<1>4. /\ sh' \in [Procs -> Shells] /\ InOrder(sh', k)
      /\ \A p \in Procs : /\ Settled(sh'[p]) /\ sh'[p].st \in {"none", "deleted"}
                          /\ sh[p].st # "none" => sh'[p].st = "deleted"
  BY <1>1, <1>3, DeletedFacts
<1>5. Typed'
  BY <1>0, <1>2, <1>4 DEF Typed
<1>6. Placed(tpc', call', m_all', cur', goal', step', zm', k)
  BY <1>0, <1>1 DEF Placed
<1>7. Alive' = FALSE /\ InLoop' = FALSE /\ tpc' # "script" /\ tpc' # "wait"
  BY DEF Alive, InLoop
<1>8. Logged(m_all', sh', FALSE)
  BY <1>0, <1>2, <1>4 DEF Logged, Living
<1>9. ShellsOK'
  <2>1. \A p \in Procs : p \in claimed \ astray => sh[p].st # "none"
    BY <1>1, <1>2, <1>3, ClaimedStarted
  <2>2. \A p \in Procs : Here(p)' = FALSE
    BY <1>7 DEF Here
  <2>3. \A p \in Procs : /\ InHand(sh'[p], FALSE, step', seen', call'.n)
                         /\ Fresh(sh'[p], FALSE, step', code')
    BY <1>4, NotHere DEF Fresh
  <2>. QED BY <1>0, <1>4, <2>1, <2>2, <2>3 DEF ShellsOK
<1>. QED BY <1>1, <1>4, <1>5, <1>6, <1>7, <1>8, <1>9 DEF ScInv

-----------------------------------------------------------------------------
(* Steps within a wait *)

\* The step leaves the call where it is, and no shell comes or goes.
LEMMA StaysPlaced ==
    ASSUME ScInv, UNCHANGED <<tpc, call, m_all, cur, goal, claimed, res>>, Typed', ShellsOK',
           tpc = "wait" => step' = step \/ step' \in StepsOf(call.op),
           tpc = "sleep" => step' = step /\ zm' = zm,
           zm' # "none" => step' = "zm",
           \A p \in Procs : /\ sh'[p].st \in Living <=> sh[p].st \in Living
                            /\ sh[p].st \notin Living => sh'[p] = sh[p]
    PROVE  ScInv'
<1>1. PICK k \in 0 .. MaxProcs : /\ InOrder(sh, k)
                                 /\ Placed(tpc, call, m_all, cur, goal, step, zm, k)
  BY DEF ScInv
<1>2. InOrder(sh', k)
  BY <1>1 DEF InOrder, Living
<1>3. Placed(tpc', call', m_all', cur', goal', step', zm', k)
  BY <1>1 DEF Placed
<1>4. Alive' = Alive /\ InLoop' = InLoop
  BY DEF Alive, InLoop
<1>5. Logged(m_all', sh', Alive')
  BY <1>4 DEF ScInv, Logged
<1>6. InLoop' => DoneBefore(cur', call', m_all', claimed')
  BY <1>4 DEF ScInv
<1>7. tpc' = "script" => /\ DoneBefore(Len(m_all') + 1, call', m_all', claimed')
                         /\ call'.op \in {"login", "exec", "su"} /\ res'.failed => res'.err
  BY DEF ScInv
<1>. QED BY <1>1, <1>2, <1>3, <1>5, <1>6, <1>7 DEF ScInv

\* One shell changes and stays alive, and the thread stays in its step.
LEMMA OneChanges ==
    ASSUME ScInv, NEW p \in Procs, NEW s \in Shells, sh' = [sh EXCEPT ![p] = s],
           sh[p].st \in Living, s.st \in Living, sh[p].ran => s.ran,
           UNCHANGED <<tpc, callv, aborted, armed, code, seen>>, astray' \in {astray, astray \cup {p}},
           stop' \in BOOLEAN, troubles' \in 0 .. MaxTroubles,
           p \notin astray' /\ InHand(sh[p], Here(p), step, seen, call.n) => InHand(s, Here(p), step, seen, call.n),
           Fresh(sh[p], Here(p), step, code) => Fresh(s, Here(p), step, code)
    PROVE  ScInv'
<1>0. UNCHANGED <<call, m_all, cur, goal, step, passed, codes, zm, claimed, drained, res>>
  BY DEF callv
<1>1. sh' \in [Procs -> Shells] /\ sh'[p] = s /\ \A x \in Procs : x # p => sh'[x] = sh[x]
  BY DEF ScInv, Typed
<1>2. Typed'
  <2>1. astray' \subseteq Procs
    BY DEF ScInv, Typed
  <2>. QED BY <2>1, <1>0, <1>1 DEF ScInv, Typed
<1>3. \A x \in Procs : Here(x)' = Here(x)
  BY <1>0 DEF Here
<1>4. ShellsOK'
  <2>. SUFFICES ASSUME NEW x \in Procs
                PROVE  /\ x \notin astray' => InHand(sh'[x], Here(x), step, seen, call.n)
                       /\ Fresh(sh'[x], Here(x), step, code)
                       /\ x \in claimed \ astray' => sh'[x].ran \/ sh'[x].st = "deleted"
    BY <1>0, <1>3 DEF ShellsOK
  <2>1. /\ x \notin astray => InHand(sh[x], Here(x), step, seen, call.n)
        /\ Fresh(sh[x], Here(x), step, code)
        /\ x \in claimed \ astray => sh[x].ran \/ sh[x].st = "deleted"
    BY DEF ScInv, ShellsOK
  <2>2. CASE x = p
    <3>1. sh[p].st # "deleted"
      BY DEF Living
    <3>. QED BY <2>1, <2>2, <3>1, <1>1
  <2>3. CASE x # p
    BY <2>1, <2>3, <1>1
  <2>. QED BY <2>2, <2>3
<1>5. zm' # "none" => step' = "zm"
  BY <1>0 DEF ScInv, Placed
<1>6. \A x \in Procs : /\ sh'[x].st \in Living <=> sh[x].st \in Living
                       /\ sh[x].st \notin Living => sh'[x] = sh[x]
  <2>. SUFFICES ASSUME NEW x \in Procs
                PROVE  /\ sh'[x].st \in Living <=> sh[x].st \in Living
                       /\ sh[x].st \notin Living => sh'[x] = sh[x]
    OBVIOUS
  <2>1. CASE x = p
    BY <2>1, <1>1
  <2>2. CASE x # p
    BY <2>2, <1>1
  <2>. QED BY <2>1, <2>2
<1>. QED BY <1>0, <1>2, <1>4, <1>5, <1>6, StaysPlaced

LEMMA UserStopsKeeps == ScInv /\ UserStops => ScInv'
<1>. SUFFICES ASSUME ScInv, UserStops PROVE ScInv'
  OBVIOUS
<1>0. /\ UNCHANGED <<tpc, call, m_all, cur, goal, step, passed, codes, zm, claimed, drained, astray, res>>
      /\ UNCHANGED <<code, armed, aborted, seen, sh>> /\ stop' \in BOOLEAN
  BY DEF UserStops, threadv, callv
<1>1. troubles' \in 0 .. MaxTroubles
  BY Consts DEF UserStops, Trouble, ScInv, Typed
<1>2. Typed'
  BY <1>0, <1>1 DEF ScInv, Typed
<1>3. ShellsOK'
  BY <1>0 DEF ScInv, ShellsOK, Here
<1>4. zm' # "none" => step' = "zm"
  BY <1>0 DEF ScInv, Placed
<1>. QED BY <1>0, <1>2, <1>3, <1>4, StaysPlaced

\* The end of ssh, and woterm's notice of it.
LEMMA Ends ==
    ASSUME NEW s \in Shells, NEW x \in {"gone", "reaped"}, NEW t, t = [s EXCEPT !.st = x]
    PROVE  /\ t \in Shells /\ t.st = x /\ t.st \in Living /\ t.ran = s.ran
           /\ \A here, p, a, n : InHand(s, here, p, a, n) => InHand(t, here, p, a, n)
           /\ \A here, p, c : Fresh(t, here, p, c)
<1>1. /\ t \in Shells /\ t.st = x /\ t.lines = s.lines /\ t.out = s.out /\ t.ran = s.ran
      /\ t.zero = s.zero /\ t.asking = s.asking /\ t.st \in Living /\ t.st \notin {"up", "starting"}
  BY DEF Shells, Living
<1>. QED BY <1>1 DEF InHand, Fresh, Settled, OneEcho, EchoEarned, Earned

LEMMA SshEndsKeeps == ScInv /\ SshEnds => ScInv'
<1>. SUFFICES ASSUME ScInv, SshEnds PROVE ScInv'
  OBVIOUS
<1>1. PICK p \in Procs : sh[p].st \in {"starting", "up"} /\ sh' = [sh EXCEPT ![p].st = "gone"]
  BY DEF SshEnds
<1>2. sh \in [Procs -> Shells] /\ sh[p] \in Shells /\ stop \in BOOLEAN
  BY DEF ScInv, Typed
<1>. DEFINE s == [sh[p] EXCEPT !.st = "gone"]
<1>3. /\ s \in Shells /\ s.st \in Living /\ s.ran = sh[p].ran
      /\ InHand(sh[p], Here(p), step, seen, call.n) => InHand(s, Here(p), step, seen, call.n)
      /\ Fresh(s, Here(p), step, code)
  BY <1>2, Ends
<1>4. sh' = [sh EXCEPT ![p] = s] /\ sh[p].st \in Living
  BY <1>1, <1>2 DEF Living
<1>. HIDE DEF s
<1>5. UNCHANGED <<tpc, callv, astray, aborted, armed, code, seen>> /\ stop' = stop
  BY DEF SshEnds, threadv
<1>6. troubles' \in 0 .. MaxTroubles
  BY Consts DEF SshEnds, Trouble, ScInv, Typed
<1>. QED BY <1>2, <1>3, <1>4, <1>5, <1>6, OneChanges

\* What is printed that is no answer.
Printed(s, u) == [s EXCEPT !.st = "up", !.out = Append(s.out, u)]
LEMMA Prints ==
    ASSUME NEW s \in Shells, NEW u \in {"prompt", "keypad"}, NEW t, t = Printed(s, u)
    PROVE  /\ t \in Shells /\ t.st = "up" /\ t.ran = s.ran /\ t.lines = s.lines /\ t.zero = s.zero
           /\ t.asking = s.asking
           /\ NoAnswer(s.out) => NoAnswer(t.out)
           /\ \A n : EchoEarned(s, n) => EchoEarned(t, n)
<1>1. s.out \in Seq(Units) /\ u \in Units /\ u \notin Answers /\ u # "zero"
  BY DEF Shells, Units, Answers
<1>2. PICK n \in Nat : /\ DOMAIN s.out = 1 .. n /\ DOMAIN Append(s.out, u) = 1 .. n + 1
                       /\ Append(s.out, u)[n + 1] = u
                       /\ \A i \in 1 .. n : Append(s.out, u)[i] = s.out[i]
  BY <1>1, Appended
<1>3. Append(s.out, u) \in Seq(Units)
  BY <1>1, Appended
<1>4. /\ t \in Shells /\ t.st = "up" /\ t.ran = s.ran /\ t.lines = s.lines /\ t.out = Append(s.out, u)
      /\ t.zero = s.zero /\ t.asking = s.asking
  BY <1>3 DEF Shells, Living, Printed
<1>5. \A i \in DOMAIN t.out : i = n + 1 \/ i \in DOMAIN s.out
  BY <1>2, <1>4
<1>. QED BY <1>1, <1>2, <1>4, <1>5 DEF NoAnswer, EchoEarned, Earned

LEMMA KeypadOnKeeps == ScInv /\ KeypadOn => ScInv'
<1>. SUFFICES ASSUME ScInv, KeypadOn PROVE ScInv'
  OBVIOUS
<1>1. PICK p \in Procs : sh[p].st = "up" /\ sh' = [sh EXCEPT ![p].out = Append(@, "keypad")]
  BY DEF KeypadOn
<1>2. sh \in [Procs -> Shells] /\ sh[p] \in Shells /\ stop \in BOOLEAN
  BY DEF ScInv, Typed
<1>. DEFINE s == [sh[p] EXCEPT !.st = "up", !.out = Append(sh[p].out, "keypad")]
<1>3. "up" \in Living \ {"starting"}
  BY DEF Living
<1>4. /\ s \in Shells /\ s.st = "up" /\ s.ran = sh[p].ran /\ s.lines = sh[p].lines
      /\ s.zero = sh[p].zero /\ s.asking = sh[p].asking
      /\ NoAnswer(sh[p].out) => NoAnswer(s.out)
      /\ \A n : EchoEarned(sh[p], n) => EchoEarned(s, n)
  <2>1. s = Printed(sh[p], "keypad") /\ "keypad" \in {"prompt", "keypad"}
    BY DEF Printed
  <2>. HIDE DEF s
  <2>. QED BY <1>2, <1>3, <2>1, Prints
<1>5. sh' = [sh EXCEPT ![p] = s]
  <2>1. s = [sh[p] EXCEPT !.out = Append(sh[p].out, "keypad")]
    BY <1>1, <1>2 DEF Shells
  <2>. HIDE DEF s
  <2>. QED BY <1>1, <2>1
<1>. HIDE DEF s
<1>6. InHand(sh[p], Here(p), step, seen, call.n) => InHand(s, Here(p), step, seen, call.n)
  <2>1. Settled(sh[p]) => Settled(s)
    BY <1>4 DEF Settled
  <2>2. OneEcho(sh[p]) => OneEcho(s)
    BY <1>4 DEF OneEcho
  <2>3. Asked(sh[p], call.n) => Asked(s, call.n)
    BY <1>4 DEF Asked, Earned
  <2>. QED BY <1>1, <1>4, <2>1, <2>2, <2>3 DEF InHand
<1>7. Fresh(s, Here(p), step, code)
  BY <1>4 DEF Fresh
<1>8. UNCHANGED <<tpc, callv, astray, aborted, armed, code, seen>> /\ stop' = stop
  BY DEF KeypadOn, threadv
<1>9. troubles' \in 0 .. MaxTroubles
  BY Consts DEF KeypadOn, Trouble, ScInv, Typed
<1>10. sh[p].st \in Living /\ s.st \in Living
  BY <1>1, <1>3, <1>4
<1>. QED BY <1>2, <1>4, <1>5, <1>6, <1>7, <1>8, <1>9, <1>10, OneChanges

LEMMA ShellStartsKeeps == ScInv /\ ShellStarts => ScInv'
<1>. SUFFICES ASSUME ScInv, ShellStarts PROVE ScInv'
  OBVIOUS
<1>1. PICK p \in Procs : /\ sh[p].st = "starting"
                         /\ sh' = [sh EXCEPT ![p].st = "up", ![p].out = Append(@, "prompt")]
  BY DEF ShellStarts
<1>2. sh \in [Procs -> Shells] /\ sh[p] \in Shells /\ stop \in BOOLEAN /\ troubles \in 0 .. MaxTroubles
  BY DEF ScInv, Typed
<1>. DEFINE s == [sh[p] EXCEPT !.st = "up", !.out = Append(sh[p].out, "prompt")]
<1>3. "up" \in Living \ {"starting"} /\ "starting" \in Living
  BY DEF Living
<1>4. /\ s \in Shells /\ s.st = "up" /\ s.ran = sh[p].ran /\ s.lines = sh[p].lines
      /\ NoAnswer(sh[p].out) => NoAnswer(s.out)
  <2>1. s = Printed(sh[p], "prompt") /\ "prompt" \in {"prompt", "keypad"}
    BY DEF Printed
  <2>. HIDE DEF s
  <2>. QED BY <1>2, <1>3, <2>1, Prints
<1>5. sh' = [sh EXCEPT ![p] = s]
  BY <1>1, <1>2 DEF Shells
<1>. HIDE DEF s
<1>6. Fresh(sh[p], Here(p), step, code)
  BY DEF ScInv, ShellsOK
<1>7. InHand(sh[p], Here(p), step, seen, call.n) => InHand(s, Here(p), step, seen, call.n)
  <2>1. step = "login"
    BY <1>1, <1>6 DEF Fresh
  <2>2. Settled(sh[p]) => Settled(s)
    BY <1>4 DEF Settled
  <2>. QED BY <2>1, <2>2 DEF InHand
<1>8. Fresh(s, Here(p), step, code)
  BY <1>4 DEF Fresh
<1>9. UNCHANGED <<tpc, callv, astray, aborted, armed, code, seen>> /\ stop' = stop /\ troubles' = troubles
  BY DEF ShellStarts, threadv
<1>10. sh[p].st \in Living /\ s.st \in Living
  BY <1>1, <1>3, <1>4
<1>. QED BY <1>2, <1>4, <1>5, <1>7, <1>8, <1>9, <1>10, OneChanges

LEMMA ShellReadsKeeps == ScInv /\ ShellReads => ScInv'
<1>. SUFFICES ASSUME ScInv, ShellReads PROVE ScInv'
  OBVIOUS
<1>1. PICK p \in Procs : /\ sh[p].st = "up" /\ sh[p].lines # <<>>
                         /\ \E s \in Reads(sh[p], Head(sh[p].lines)) : sh' = [sh EXCEPT ![p] = s]
  BY DEF ShellReads
<1>2. PICK s \in Reads(sh[p], Head(sh[p].lines)) : sh' = [sh EXCEPT ![p] = s]
  BY <1>1
<1>3. sh \in [Procs -> Shells] /\ sh[p] \in Shells /\ stop \in BOOLEAN /\ troubles \in 0 .. MaxTroubles
  BY DEF ScInv, Typed
<1>4. After(sh[p], Head(sh[p].lines), s, call.n)
  BY <1>1, <1>2, <1>3, ReadsFacts
<1>5. s \in Shells /\ s.st = "up" /\ (sh[p].ran => s.ran)
  BY <1>1, <1>4 DEF After
<1>6. Here(p) \in BOOLEAN
  BY DEF Here
<1>7. InHand(sh[p], Here(p), step, seen, call.n) => InHand(s, Here(p), step, seen, call.n)
  BY <1>1, <1>3, <1>4, <1>6, ReadsKeep
<1>8. Fresh(s, Here(p), step, code)
  BY <1>5 DEF Fresh
<1>9. UNCHANGED <<tpc, callv, astray, aborted, armed, code, seen>> /\ stop' = stop /\ troubles' = troubles
  BY DEF ShellReads, threadv
<1>10. sh[p].st \in Living /\ s.st \in Living
  BY <1>1, <1>5 DEF Living
<1>. QED BY <1>2, <1>3, <1>5, <1>7, <1>8, <1>9, <1>10, OneChanges

LEMMA ShellMisleadsKeeps == ScInv /\ ShellMisleads => ScInv'
<1>. SUFFICES ASSUME ScInv, ShellMisleads PROVE ScInv'
  OBVIOUS
<1>0. PICK p \in Procs :
         /\ sh[p].st = "up" /\ \E i \in 2 .. Len(sh[p].lines) : sh[p].lines[i].k = "echo"
         /\ \E s \in Reads(sh[p], Head(sh[p].lines)), a \in Answers :
              sh' = [sh EXCEPT ![p] = [s EXCEPT !.out = Append(sh[p].out, a)]]
         /\ astray' = astray \cup {p}
  BY DEF ShellMisleads, Answers
<1>1. PICK s \in Reads(sh[p], Head(sh[p].lines)), a \in Answers :
         sh' = [sh EXCEPT ![p] = [s EXCEPT !.out = Append(sh[p].out, a)]]
  BY <1>0
<1>. DEFINE t == [s EXCEPT !.out = Append(sh[p].out, a)]
<1>2. sh \in [Procs -> Shells] /\ sh[p] \in Shells /\ stop \in BOOLEAN /\ troubles \in 0 .. MaxTroubles
  BY DEF ScInv, Typed
<1>3. sh[p].lines # <<>>
  BY <1>0, <1>1, EmptySeq
<1>4. After(sh[p], Head(sh[p].lines), s, call.n)
  BY <1>0, <1>1, <1>2, <1>3, ReadsFacts
<1>5. s \in Shells /\ s.st = "up" /\ (sh[p].ran => s.ran)
  BY <1>0, <1>1, <1>4 DEF After
<1>6. Append(sh[p].out, a) \in Seq(Units)
  <2>1. sh[p].out \in Seq(Units) /\ a \in Units
    BY <1>2 DEF Shells, Units
  <2>. QED BY <2>1, Appended
<1>7. t \in Shells /\ t.st = "up" /\ (sh[p].ran => t.ran)
  BY <1>5, <1>6 DEF Shells
<1>8. sh' = [sh EXCEPT ![p] = t] /\ p \in astray'
  BY <1>0, <1>1
<1>. HIDE DEF t
<1>9. Fresh(t, Here(p), step, code)
  BY <1>7 DEF Fresh
<1>10. UNCHANGED <<tpc, callv, aborted, armed, code, seen>> /\ stop' = stop
  BY DEF ShellMisleads, threadv
<1>12. troubles' \in 0 .. MaxTroubles
  BY <1>2, Consts DEF ShellMisleads, Trouble
<1>11. sh[p].st \in Living /\ t.st \in Living
  BY <1>0, <1>1, <1>7 DEF Living
<1>. QED BY <1>0, <1>1, <1>2, <1>7, <1>8, <1>9, <1>10, <1>11, <1>12, OneChanges

\* The thread stays in its step, whatever becomes of the wait.
LEMMA WaitChanges ==
    ASSUME ScInv, Typed',
           UNCHANGED <<tpc, call, m_all, cur, goal, step, passed, codes, claimed, drained, astray, res>>,
           zm' # "none" => step = "zm", tpc = "sleep" => zm' = zm,
           \A p \in Procs :
              /\ sh'[p].st \in Living <=> sh[p].st \in Living
              /\ sh[p].st \notin Living => sh'[p] = sh[p]
              /\ sh[p].ran => sh'[p].ran
              /\ p \notin astray /\ InHand(sh[p], Here(p), step, seen, call.n)
                    => InHand(sh'[p], Here(p), step, seen', call.n)
              /\ Fresh(sh[p], Here(p), step, code) => Fresh(sh'[p], Here(p), step, code')
    PROVE  ScInv'
<1>1. \A p \in Procs : Here(p)' = Here(p)
  BY DEF Here
<1>2. ShellsOK'
  <2>. SUFFICES ASSUME NEW p \in Procs
                PROVE  /\ p \notin astray => InHand(sh'[p], Here(p), step, seen', call.n)
                       /\ Fresh(sh'[p], Here(p), step, code')
                       /\ p \in claimed \ astray => sh'[p].ran \/ sh'[p].st = "deleted"
    BY <1>1 DEF ShellsOK
  <2>1. /\ p \notin astray => InHand(sh[p], Here(p), step, seen, call.n)
        /\ Fresh(sh[p], Here(p), step, code)
        /\ p \in claimed \ astray => sh[p].ran \/ sh[p].st = "deleted"
    BY DEF ScInv, ShellsOK
  <2>2. sh[p].st = "deleted" => sh'[p] = sh[p]
    BY DEF Living
  <2>. QED BY <2>1, <2>2
<1>3. \A p \in Procs : /\ sh'[p].st \in Living <=> sh[p].st \in Living
                       /\ sh[p].st \notin Living => sh'[p] = sh[p]
  OBVIOUS
<1>. QED BY <1>2, <1>3, StaysPlaced

LEMMA TimerFiresKeeps == ScInv /\ TimerFires => ScInv'
<1>. SUFFICES ASSUME ScInv, TimerFires PROVE ScInv'
  OBVIOUS
<1>0. /\ UNCHANGED <<tpc, call, m_all, cur, goal, step, passed, codes, zm, claimed, drained, astray, res>>
      /\ UNCHANGED <<stop, aborted, seen, sh, troubles>> /\ armed' = FALSE /\ code' = "timeout"
  BY DEF TimerFires, callv
<1>1. Typed'
  BY <1>0 DEF ScInv, Typed, Codes
<1>2. zm' # "none" => step = "zm"
  BY <1>0 DEF ScInv, Placed
<1>3. \A p \in Procs : Fresh(sh[p], Here(p), step, code) => Fresh(sh'[p], Here(p), step, code')
  BY <1>0 DEF Fresh
<1>. QED BY <1>0, <1>1, <1>2, <1>3, WaitChanges

LEMMA OnStopKeeps == ScInv /\ OnStop => ScInv'
<1>. SUFFICES ASSUME ScInv, OnStop PROVE ScInv'
  OBVIOUS
<1>0. /\ UNCHANGED <<tpc, call, m_all, cur, goal, step, passed, codes, zm, claimed, drained, astray, res>>
      /\ UNCHANGED <<armed, seen, sh, troubles>> /\ stop' = FALSE /\ aborted' = TRUE
      /\ code' = code \/ code' = "stop"
  BY DEF OnStop, callv
<1>1. Typed'
  <2>1. stop' \in BOOLEAN /\ aborted' \in BOOLEAN
    BY <1>0
  <2>2. code' \in Codes \cup {"none"}
    BY <1>0 DEF ScInv, Typed, Codes
  <2>3. /\ UNCHANGED <<tpc, call, m_all, cur, goal, step, passed, codes, zm, claimed, drained, astray, res>>
        /\ UNCHANGED <<armed, seen, sh, troubles>>
    BY <1>0
  <2>. QED BY <2>1, <2>2, <2>3 DEF ScInv, Typed
<1>2. zm' # "none" => step = "zm"
  BY <1>0 DEF ScInv, Placed
<1>3. \A p \in Procs : Fresh(sh[p], Here(p), step, code) => Fresh(sh'[p], Here(p), step, code')
  BY <1>0 DEF Fresh
<1>. QED BY <1>0, <1>1, <1>2, <1>3, WaitChanges

LEMMA ZmodemFinishedKeeps == ScInv /\ OnZmodemFinished => ScInv'
<1>. SUFFICES ASSUME ScInv, OnZmodemFinished PROVE ScInv'
  OBVIOUS
<1>0. /\ UNCHANGED <<tpc, call, m_all, cur, goal, step, passed, codes, claimed, drained, astray, res>>
      /\ UNCHANGED <<armed, stop, aborted, seen, sh, troubles>> /\ zm' = "done" /\ code' = "normal"
      /\ zm # "none" /\ tpc = "wait"
  BY DEF OnZmodemFinished
<1>1. Typed'
  BY <1>0 DEF ScInv, Typed, Codes
<1>2. step = "zm"
  BY <1>0 DEF ScInv, Placed
<1>3. \A p \in Procs : Fresh(sh[p], Here(p), step, code) => Fresh(sh'[p], Here(p), step, code')
  BY <1>0, <1>2 DEF Fresh
<1>. QED BY <1>0, <1>1, <1>2, <1>3, WaitChanges

\* One shell changes.
LEMMA OthersKeep ==
    ASSUME ScInv, Typed',
           UNCHANGED <<tpc, call, m_all, cur, goal, step, passed, codes, claimed, drained, astray, res>>,
           zm' # "none" => step = "zm", tpc = "sleep" => zm' = zm,
           NEW p \in Procs, NEW s \in Shells, sh' = [sh EXCEPT ![p] = s],
           sh[p].st \in Living, s.st \in Living, sh[p].ran => s.ran,
           p \notin astray /\ InHand(sh[p], Here(p), step, seen, call.n)
              => InHand(s, Here(p), step, seen', call.n),
           Fresh(s, Here(p), step, code'),
           Here(p) \/ code' = code,
           Here(p) \/ seen' = seen
    PROVE  ScInv'
<1>1. sh'[p] = s /\ \A x \in Procs : x # p => sh'[x] = sh[x]
  BY DEF ScInv, Typed
<1>. SUFFICES ASSUME NEW x \in Procs
              PROVE  /\ sh'[x].st \in Living <=> sh[x].st \in Living
                     /\ sh[x].st \notin Living => sh'[x] = sh[x]
                     /\ sh[x].ran => sh'[x].ran
                     /\ x \notin astray /\ InHand(sh[x], Here(x), step, seen, call.n)
                           => InHand(sh'[x], Here(x), step, seen', call.n)
                     /\ Fresh(sh[x], Here(x), step, code) => Fresh(sh'[x], Here(x), step, code')
  BY WaitChanges
<1>2. CASE x = p
  BY <1>1, <1>2
<1>3. CASE x # p
  <2>1. Here(p) => Here(x) = FALSE
    BY <1>3 DEF Here
  <2>2. CASE Here(p)
    <3>1. Here(x) = FALSE
      BY <2>1, <2>2
    <3>2. InHand(sh[x], FALSE, step, seen, call.n) => InHand(sh[x], FALSE, step, seen', call.n)
      BY NotHere
    <3>3. Fresh(sh[x], FALSE, step, code) => Fresh(sh[x], FALSE, step, code')
      BY DEF Fresh
    <3>. QED BY <1>1, <1>3, <3>1, <3>2, <3>3
  <2>3. CASE ~Here(p)
    BY <1>1, <1>3, <2>3
  <2>. QED BY <2>2, <2>3
<1>. QED BY <1>2, <1>3

LEMMA FinishedKeeps == ScInv /\ OnFinished => ScInv'
<1>. SUFFICES ASSUME ScInv, OnFinished PROVE ScInv'
  OBVIOUS
<1>0. /\ UNCHANGED <<tpc, call, m_all, cur, goal, step, passed, codes, claimed, drained, astray, res>>
      /\ UNCHANGED <<armed, stop, aborted, seen, troubles>>
  BY DEF OnFinished
<1>1. PICK p \in Procs : /\ sh[p].st = "gone" /\ sh' = [sh EXCEPT ![p].st = "reaped"]
                         /\ code' = IF Waiting(p) THEN "finish" ELSE code
                         /\ zm' = IF Waiting(p) /\ zm = "running" THEN "killed" ELSE zm
  BY DEF OnFinished
<1>2. Waiting(p) <=> Here(p)
  BY DEF Waiting, Here
<1>3. sh \in [Procs -> Shells] /\ sh[p] \in Shells
  BY DEF ScInv, Typed
<1>. DEFINE s == [sh[p] EXCEPT !.st = "reaped"]
<1>4. /\ s \in Shells /\ s.st \in Living /\ s.ran = sh[p].ran
      /\ InHand(sh[p], Here(p), step, seen, call.n) => InHand(s, Here(p), step, seen, call.n)
      /\ Fresh(s, Here(p), step, code')
  BY <1>3, Ends
<1>5. sh' = [sh EXCEPT ![p] = s] /\ sh[p].st \in Living
  BY <1>1, <1>3 DEF Living
<1>. HIDE DEF s
<1>6. sh' \in [Procs -> Shells]
  BY <1>3, <1>4, <1>5
<1>7. Typed'
  BY <1>0, <1>1, <1>6 DEF ScInv, Typed, Codes
<1>8. zm' # "none" => step = "zm"
  BY <1>1 DEF ScInv, Placed
<1>9. tpc = "sleep" => zm' = zm
  BY <1>1 DEF Waiting
<1>10. (Here(p) \/ code' = code) /\ (Here(p) \/ seen' = seen)
  BY <1>0, <1>1, <1>2
<1>. QED BY <1>0, <1>4, <1>5, <1>7, <1>8, <1>9, <1>10, OthersKeep

-----------------------------------------------------------------------------
(* What has arrived is read *)

LEMMA LookedAt ==
    ASSUME NEW q \in Seq(Units), q # <<>>
    PROVE  \E i \in DOMAIN q : Last(Looked(q)) = q[i]
<1>1. PICK n \in Nat : Len(q) = n /\ n >= 1 /\ DOMAIN q = 1 .. n
  BY EmptySeq, LenProperties
<1>. DEFINE stops == {i \in 1 .. Len(q) : q[i] # "keypad"}
            m == IF stops = {} THEN Len(q) ELSE Min(stops)
<1>2. m \in 1 .. n
  <2>1. stops \subseteq 1 .. n /\ stops \subseteq Nat
    BY <1>1
  <2>. HIDE DEF stops
  <2>2. CASE stops = {}
    BY <1>1, <2>2
  <2>3. CASE stops # {}
    <3>1. \E x \in stops : \A y \in stops : x <= y
      BY <2>1, <2>3, LeastOf
    <3>2. Min(stops) \in stops
      BY <3>1 DEF Min
    <3>. QED BY <2>1, <2>3, <3>2
  <2>. QED BY <2>2, <2>3
<1>3. Looked(q) = SubSeq(q, 1, m)
  BY DEF Looked
<1>. HIDE DEF m
<1>4. Len(SubSeq(q, 1, m)) = m /\ SubSeq(q, 1, m)[m] = q[m]
  BY <1>1, <1>2
<1>. QED BY <1>1, <1>2, <1>3, <1>4 DEF Last

\* All that has arrived is read: a is the answer found in it, or what was known.
LEMMA Emptied ==
    ASSUME NEW s \in Shells, NEW t, t = [s EXCEPT !.out = <<>>], NEW here \in BOOLEAN, NEW p, NEW n,
           NEW a, NEW b, InHand(s, here, p, a, n),
           b = a \/ (here /\ a = "prompt" /\ b \in Answers /\ \E i \in DOMAIN s.out : s.out[i] = b)
    PROVE  InHand(t, here, p, b, n)
<1>1. /\ t.st = s.st /\ t.lines = s.lines /\ t.out = <<>> /\ t.ran = s.ran
      /\ t.zero = s.zero /\ t.asking = s.asking
  BY DEF Shells
<1>2. DOMAIN t.out = {}
  BY <1>1
<1>3. NoAnswer(t.out)
  BY <1>2 DEF NoAnswer
<1>4. Settled(s) => Settled(t)
  BY <1>1, <1>3 DEF Settled
<1>5. OneEcho(s) => OneEcho(t)
  BY <1>1, <1>3 DEF OneEcho
<1>6. Asked(s, n) => Asked(t, n)
  BY <1>1 DEF Asked, Earned
<1>7. EchoEarned(s, n) => EchoEarned(t, n)
  BY <1>1, <1>2 DEF EchoEarned, Earned
<1>8. CASE b = a
  BY <1>1, <1>4, <1>5, <1>6, <1>7, <1>8 DEF InHand
<1>9. CASE here /\ a = "prompt" /\ b \in Answers /\ \E i \in DOMAIN s.out : s.out[i] = b
  <2>1. ~NoAnswer(s.out)
    BY <1>9 DEF NoAnswer
  <2>2. p \in {"echo", "lsecho"} /\ OneEcho(s)
    BY <1>9, <2>1 DEF InHand, Settled
  <2>3. Settled(t)
    BY <1>1, <1>3, <2>1, <2>2 DEF OneEcho, Settled, NoEcho
  <2>4. p = "echo" /\ b = "zero" => t.ran
    BY <1>1, <1>9 DEF InHand, EchoEarned
  <2>5. b # "prompt"
    BY <1>9 DEF Answers
  <2>. QED BY <2>2, <2>3, <2>4, <2>5 DEF InHand
<1>. QED BY <1>8, <1>9

LEMMA ReadyReadKeeps == ScInv /\ OnReadyRead => ScInv'
<1>. SUFFICES ASSUME ScInv, OnReadyRead PROVE ScInv'
  OBVIOUS
<1>1. PICK p \in Procs :
        /\ sh[p].st \in {"up", "gone"} /\ sh[p].out # <<>>
        /\ \/ Crash
           \/ /\ sh' = [sh EXCEPT ![p].out = <<>>]
              /\ UNCHANGED <<tpc, callv, astray, armed, stop, aborted, troubles>>
              /\ \/ UNCHANGED <<code, seen>>
                 \/ /\ Waiting(p)
                    /\ LET u == Looked(sh[p].out)
                       IN /\ seen' = IF seen = "prompt" /\ Last(u) \in Answers THEN Last(u) ELSE seen
                          /\ code' = IF Last(u) = "keypad" THEN "keypad" ELSE "normal"
  BY DEF OnReadyRead
<1>2. CASE Crash
  BY <1>2, EndKeeps DEF Crash
<1>3. CASE /\ sh' = [sh EXCEPT ![p].out = <<>>]
           /\ UNCHANGED <<tpc, callv, astray, armed, stop, aborted, troubles>>
           /\ \/ UNCHANGED <<code, seen>>
              \/ /\ Waiting(p)
                 /\ LET u == Looked(sh[p].out)
                    IN /\ seen' = IF seen = "prompt" /\ Last(u) \in Answers THEN Last(u) ELSE seen
                       /\ code' = IF Last(u) = "keypad" THEN "keypad" ELSE "normal"
  <2>0. UNCHANGED <<call, m_all, cur, goal, step, passed, codes, zm, claimed, drained, astray, res>>
    BY <1>3 DEF callv
  <2>1. sh \in [Procs -> Shells] /\ sh[p] \in Shells /\ sh[p].out \in Seq(Units)
    BY DEF ScInv, Typed, Shells
  <2>. DEFINE s == [sh[p] EXCEPT !.out = <<>>]
              b == Last(Looked(sh[p].out))
  <2>2. \E i \in DOMAIN sh[p].out : sh[p].out[i] = b
    BY <1>1, <2>1, LookedAt
  <2>. HIDE DEF b
  <2>3. \/ UNCHANGED <<code, seen>>
        \/ /\ Waiting(p) /\ code' \in {"keypad", "normal"}
           /\ seen' = seen \/ (seen = "prompt" /\ seen' = b /\ b \in Answers)
    BY <1>3 DEF b
  <2>4. s \in Shells /\ s.st = sh[p].st /\ s.ran = sh[p].ran
    <3>1. <<>> \in Seq(Units)
      OBVIOUS
    <3>. QED BY <2>1, <3>1 DEF Shells
  <2>5. sh' = [sh EXCEPT ![p] = s] /\ sh' \in [Procs -> Shells]
    BY <1>3, <2>1, <2>4
  <2>6. Typed'
    BY <1>3, <2>0, <2>3, <2>5 DEF ScInv, Typed, Codes
  <2>7. Waiting(p) <=> Here(p)
    BY DEF Waiting, Here
  <2>8. Here(p) \in BOOLEAN
    BY DEF Here
  <2>9. InHand(sh[p], Here(p), step, seen, call.n) => InHand(s, Here(p), step, seen', call.n)
    <3>1. seen' = seen \/ (Here(p) /\ seen = "prompt" /\ seen' \in Answers
                             /\ \E i \in DOMAIN sh[p].out : sh[p].out[i] = seen')
      BY <2>2, <2>3, <2>7
    <3>. QED BY <2>1, <2>8, <3>1, Emptied
  <2>10. s.st \in Living /\ sh[p].st \in Living /\ Fresh(s, Here(p), step, code')
    BY <1>1, <2>4 DEF Living, Fresh
  <2>. HIDE DEF s
  <2>11. zm' # "none" => step = "zm"
    BY <2>0 DEF ScInv, Placed
  <2>12. (Here(p) \/ code' = code) /\ (Here(p) \/ seen' = seen)
    BY <2>3, <2>7
  <2>13. tpc' = tpc /\ zm' = zm
    BY <1>3, <2>0
  <2>. QED BY <2>0, <2>4, <2>5, <2>6, <2>9, <2>10, <2>11, <2>12, <2>13, OthersKeep
<1>. QED BY <1>1, <1>2, <1>3

-----------------------------------------------------------------------------
(* The wait returns *)

LEMMA FollowsFacts ==
    ASSUME step \in StepsOf(call.op), call.op \in {"login", "exec", "su", "upload", "download"},
           call.op \notin {"upload", "download"} => call.good
    PROVE  /\ Follows \notin {"true", "false"} =>
                /\ Follows \in StepsOf(call.op) /\ Follows \in Steps \ {"login"}
                /\ step \notin {"login", "echo"}
                /\ Follows = "echo" => step \in {"cmd", "su", "pwd"}
           /\ Follows = "true" => /\ code = "normal"
                                  /\ call.op \in {"exec", "su"} => step = "echo"
           /\ step = "echo" => (Follows = "true" <=> seen = "zero" /\ code = "normal")
           /\ step = "lsecho" /\ Follows \in {"true", "false"} => seen = "zero"
           /\ Follows = "false" /\ call.op \in {"login", "exec", "su"} => CodeSet = FALSE
<1>. USE DEF Follows, StepsOf, Steps, ExitCodeIsZero, CodeSet
<1>1. CASE call.op = "login"
  BY <1>1
<1>2. CASE call.op = "exec"
  <2>1. step \in {"nl", "cmd", "echo"} /\ call.good
    BY <1>2
  <2>. QED BY <1>2, <2>1
<1>3. CASE call.op = "su"
  <2>1. step \in {"nl", "su", "pwd", "echo"} /\ call.good
    BY <1>3
  <2>. QED BY <1>3, <2>1
<1>4. CASE call.op = "upload"
  BY <1>4
<1>5. CASE call.op = "download"
  BY <1>5
<1>. QED BY <1>1, <1>2, <1>3, <1>4, <1>5

\* Where the thread is, in a wait or in the sleep after a transfer.
LEMMA LoopFacts ==
    ASSUME ScInv, InLoop
    PROVE  \E k \in 0 .. MaxProcs, n \in Nat :
             /\ InOrder(sh, k) /\ Len(m_all) = n /\ DOMAIN m_all = 1 .. n /\ n <= k
             /\ cur \in 1 .. n /\ goal \in Nat /\ goal >= cur /\ m_all[cur] \in Procs
             /\ call.op \in {"login", "exec", "su", "upload", "download"}
             /\ step \in StepsOf(call.op)
             /\ IF call.op = "login" THEN cur = n /\ k + (goal - cur) <= MaxProcs ELSE goal = n
             /\ call.op \notin {"upload", "download"} => call.good
             /\ call.op \notin {"exec", "su"} => call.who = 0
             /\ Logged(m_all, sh, TRUE)
             /\ sh[m_all[cur]].st \in Living
<1>1. PICK k \in 0 .. MaxProcs : /\ InOrder(sh, k)
                                 /\ Placed(tpc, call, m_all, cur, goal, step, zm, k)
  BY DEF ScInv
<1>2. m_all \in Seq(Procs) /\ call \in AllCalls /\ goal \in 0 .. MaxProcs
  BY DEF ScInv, Typed
<1>3. PICK n \in Nat : Len(m_all) = n /\ DOMAIN m_all = 1 .. n
  BY <1>2, LenProperties
<1>4. cur \in 1 .. n /\ m_all[cur] \in Procs /\ goal \in Nat
  BY <1>1, <1>2, <1>3, Consts DEF Placed, InLoop
<1>5. call.op \in {"login", "exec", "su", "upload", "download"} /\ step \in StepsOf(call.op)
  BY <1>1, <1>2, Consts DEF Placed, InLoop, AllCalls
<1>6. Alive = TRUE
  BY DEF InLoop, Alive
<1>7. Logged(m_all, sh, TRUE)
  BY <1>6 DEF ScInv
<1>8. sh[m_all[cur]].st \in Living
  BY <1>3, <1>4, <1>7 DEF Logged
<1>9. /\ goal >= cur /\ n <= k
      /\ IF call.op = "login" THEN cur = n /\ k + (goal - cur) <= MaxProcs ELSE goal = n
      /\ call.op \notin {"upload", "download"} => call.good
      /\ call.op \notin {"exec", "su"} => call.who = 0
  BY <1>1, <1>3 DEF Placed, InLoop
<1>. QED BY <1>1, <1>3, <1>4, <1>5, <1>7, <1>8, <1>9

\* What is known of the shells in a loop: only the one at hand may have an answer to give.
LEMMA ShellFacts ==
    ASSUME ScInv, NEW p \in Procs
    PROVE  /\ ~Here(p) => (p \notin astray => Settled(sh[p])) /\ sh[p].st # "starting"
           /\ Here(p) => (p \notin astray => InHand(sh[p], TRUE, step, seen, call.n))
           /\ sh[p].st = "starting" => step = "login" /\ code # "normal"
           /\ p \in claimed \ astray => sh[p].ran \/ sh[p].st = "deleted"
<1>1. /\ p \notin astray => InHand(sh[p], Here(p), step, seen, call.n)
      /\ Fresh(sh[p], Here(p), step, code)
      /\ p \in claimed \ astray => sh[p].ran \/ sh[p].st = "deleted"
  BY DEF ScInv, ShellsOK
<1>2. CASE Here(p)
  <2>1. Here(p) = TRUE
    BY <1>2 DEF Here
  <2>. QED BY <1>1, <2>1 DEF Fresh
<1>3. CASE ~Here(p)
  <2>1. Here(p) = FALSE
    BY <1>3 DEF Here
  <2>. QED BY <1>1, <2>1, NotHere DEF Fresh
<1>. QED BY <1>2, <1>3

LEMMA WaitGoesOnKeeps == ScInv /\ WaitGoesOn => ScInv'
<1>. SUFFICES ASSUME ScInv, WaitGoesOn PROVE ScInv'
  OBVIOUS
<1>0. /\ tpc = "wait" /\ tpc' = "wait" /\ step' = Follows /\ code' = "none" /\ armed' = TRUE
      /\ seen' = "prompt" /\ zm' = IF step' = "zm" THEN "running" ELSE "none"
      /\ Follows \notin {"true", "false"}
      /\ UNCHANGED <<call, m_all, cur, goal, passed, codes, claimed, drained, res, stop, aborted, troubles>>
      /\ sh' = [sh EXCEPT ![m_all[cur]] = Write(@)]
      /\ astray' = IF step = "lsecho" /\ seen = "prompt" THEN astray \cup {m_all[cur]} ELSE astray
  BY DEF WaitGoesOn, Enter, TimerStart
<1>1. InLoop
  BY <1>0 DEF InLoop
<1>. DEFINE q == m_all[cur]
<1>2. /\ q \in Procs /\ call.op \in {"login", "exec", "su", "upload", "download"}
      /\ step \in StepsOf(call.op) /\ (call.op \notin {"upload", "download"} => call.good)
      /\ sh[q].st \in Living
  BY <1>1, LoopFacts
<1>3. /\ step' \in StepsOf(call.op) /\ step' \in Steps \ {"login"} /\ step \notin {"login", "echo"}
      /\ step' = "echo" => step \in {"cmd", "su", "pwd"}
  BY <1>0, <1>2, FollowsFacts
<1>4. sh \in [Procs -> Shells] /\ sh[q] \in Shells /\ call' \in AllCalls /\ astray \subseteq Procs
  BY <1>0, <1>2 DEF ScInv, Typed
<1>. DEFINE t == Write(sh[q])
<1>5. t \in Shells /\ t.st = sh[q].st /\ t.ran = sh[q].ran
  BY <1>3, <1>4, Written
<1>6. sh' = [sh EXCEPT ![q] = t]
  BY <1>0
<1>7. Here(q) /\ \A x \in Procs : x # q => ~Here(x)
  BY <1>0 DEF Here
<1>8. q \notin astray' => InHand(t, TRUE, step', "prompt", call'.n)
  <2>. SUFFICES ASSUME q \notin astray' PROVE InHand(t, TRUE, step', "prompt", call'.n)
    OBVIOUS
  <2>1. q \notin astray /\ ~(step = "lsecho" /\ seen = "prompt")
    BY <1>0
  <2>2. InHand(sh[q], TRUE, step, seen, call.n)
    BY <1>2, <1>7, <2>1, ShellFacts
  <2>3. Settled(sh[q]) /\ (step' = "echo" /\ sh[q].st = "up" => Asked(sh[q], call'.n))
    <3>1. call'.n = call.n
      BY <1>0
    <3>. QED BY <1>3, <2>1, <2>2, <3>1 DEF InHand
  <2>. QED BY <1>3, <1>4, <2>3, WriteKeeps
<1>. HIDE DEF t, q
<1>9. sh' \in [Procs -> Shells] /\ sh'[q] = t /\ \A x \in Procs : x # q => sh'[x] = sh[x]
  BY <1>2, <1>4, <1>5, <1>6
<1>10. astray' \subseteq Procs /\ astray \subseteq astray'
  BY <1>0, <1>2, <1>4 DEF q
<1>11. Typed'
  BY <1>0, <1>3, <1>9, <1>10 DEF ScInv, Typed
<1>12. Here(q)' = TRUE /\ \A x \in Procs : x # q => Here(x)' = FALSE
  BY <1>0 DEF Here, q
<1>13. ShellsOK'
  <2>. SUFFICES ASSUME NEW p \in Procs
                PROVE  /\ p \notin astray' => InHand(sh'[p], Here(p)', step', seen', call'.n)
                       /\ Fresh(sh'[p], Here(p)', step', code')
                       /\ p \in claimed' \ astray' => sh'[p].ran \/ sh'[p].st = "deleted"
    BY DEF ShellsOK
  <2>1. CASE p = q
    <3>1. sh[q].st # "starting"
      BY <1>2, <1>3, ShellFacts
    <3>2. q \in claimed' \ astray' => t.ran \/ t.st = "deleted"
      BY <1>0, <1>2, <1>5, <1>10, ShellFacts
    <3>3. Fresh(t, TRUE, step', code')
      BY <3>1, <1>5 DEF Fresh
    <3>4. Here(p)' = TRUE /\ sh'[p] = t /\ seen' = "prompt"
      BY <2>1, <1>0, <1>9 DEF Here, q
    <3>5. p \notin astray' => InHand(t, TRUE, step', seen', call'.n)
      BY <2>1, <3>4, <1>8
    <3>6. p \in claimed' \ astray' => t.ran \/ t.st = "deleted"
      BY <2>1, <3>2
    <3>. QED BY <3>3, <3>4, <3>5, <3>6
  <2>2. CASE p # q
    <3>1. /\ (p \notin astray => Settled(sh[p])) /\ sh[p].st # "starting"
          /\ p \in claimed \ astray => sh[p].ran \/ sh[p].st = "deleted"
      BY <1>7, <2>2, ShellFacts
    <3>2. sh'[p] = sh[p] /\ Here(p)' = FALSE /\ claimed' = claimed
      BY <2>2, <1>0, <1>9, <1>12
    <3>3. p \notin astray' => InHand(sh[p], FALSE, step', seen', call'.n)
      BY <3>1, <1>10, NotHere
    <3>4. Fresh(sh[p], FALSE, step', code')
      BY <3>1 DEF Fresh
    <3>5. p \in claimed \ astray' => sh[p].ran \/ sh[p].st = "deleted"
      BY <3>1, <1>10
    <3>. QED BY <3>2, <3>3, <3>4, <3>5
  <2>. QED BY <2>1, <2>2
<1>14. \A x \in Procs : /\ sh'[x].st \in Living <=> sh[x].st \in Living
                        /\ sh[x].st \notin Living => sh'[x] = sh[x]
  BY <1>2, <1>5, <1>9
<1>. QED BY <1>0, <1>3, <1>11, <1>13, <1>14, StaysPlaced

\* A call that gives up forgets its shells.
LEMMA CleanKeeps ==
    ASSUME ScInv, CallReturns(TRUE), CleanAll, passed' \in BOOLEAN, codes' \subseteq BOOLEAN,
           UNCHANGED <<call, goal, claimed, astray, stop, aborted, troubles>>, drained' \subseteq Procs,
           call.op \in {"login", "exec", "su"} => FALSE \in codes'
    PROVE  ScInv'
<1>0. /\ tpc' = "script" /\ code' = "none" /\ zm' = "none" /\ step' = "none" /\ cur' = 0
      /\ armed' = FALSE /\ seen' = "prompt" /\ res' = [failed |-> TRUE, err |-> HasError(codes')]
      /\ m_all' = <<>> /\ sh' = Deleted
  BY DEF CallReturns, CleanAll
<1>1. PICK k \in 0 .. MaxProcs : /\ InOrder(sh, k)
                                 /\ Placed(tpc, call, m_all, cur, goal, step, zm, k)
  BY DEF ScInv
<1>2. Typed /\ ShellsOK /\ sh \in [Procs -> Shells]
  BY DEF ScInv, Typed
<1>3. /\ sh' \in [Procs -> Shells] /\ InOrder(sh', k)
      /\ \A p \in Procs : /\ Settled(sh'[p]) /\ sh'[p].st \in {"none", "deleted"}
                          /\ sh[p].st # "none" => sh'[p].st = "deleted"
  BY <1>0, <1>1, <1>2, DeletedFacts
<1>4. Typed'
  <2>1. m_all' \in Seq(Procs) /\ cur' \in Nat
    BY <1>0
  <2>2. HasError(codes') \in BOOLEAN
    BY DEF HasError
  <2>3. res' \in [failed : BOOLEAN, err : BOOLEAN]
    BY <1>0, <2>2
  <2>. QED BY <1>0, <1>2, <1>3, <2>1, <2>3 DEF Typed
<1>5. Placed(tpc', call', m_all', cur', goal', step', zm', k)
  <2>1. Len(m_all') <= k
    BY <1>0, Consts
  <2>. QED BY <1>0, <1>1, <2>1 DEF Placed
<1>6. Alive' = TRUE /\ InLoop' = FALSE
  BY <1>0 DEF Alive, InLoop
<1>7. DOMAIN m_all' = {} /\ Logged(m_all', sh', TRUE)
  <2>1. DOMAIN m_all' = {}
    BY <1>0
  <2>. QED BY <1>3, <2>1 DEF Logged, Living
<1>8. ShellsOK'
  <2>1. \A p \in Procs : p \in claimed \ astray => sh[p].st # "none"
    BY <1>1, <1>2, ClaimedStarted
  <2>2. \A p \in Procs : Here(p)' = FALSE
    BY <1>0 DEF Here
  <2>3. \A p \in Procs : /\ InHand(sh'[p], FALSE, step', seen', call'.n)
                         /\ Fresh(sh'[p], FALSE, step', code')
    BY <1>3, NotHere DEF Fresh
  <2>. QED BY <1>3, <2>1, <2>2, <2>3 DEF ShellsOK
<1>9. DoneBefore(Len(m_all') + 1, call', m_all', claimed')
  BY <1>7 DEF DoneBefore
<1>10. call'.op \in {"login", "exec", "su"} => res'.err
  BY <1>0 DEF HasError
<1>. QED BY <1>0, <1>1, <1>3, <1>4, <1>5, <1>6, <1>7, <1>8, <1>9, <1>10 DEF ScInv

\* The call is done with the shell at hand and goes on.
LEMMA GoesOnKeeps ==
    ASSUME ScInv, InLoop, NextShell(NextHost(cur + 1), sh), passed' \in BOOLEAN,
           codes' \subseteq BOOLEAN, claimed' \subseteq Procs /\ drained' \subseteq Procs,
           UNCHANGED <<call, goal, astray, stop, aborted, troubles>>,
           \A p \in Procs : Rested(sh[p], p \in astray, p \in claimed'),
           call.op \in {"exec", "su"} => m_all[cur] \in claimed' /\ claimed \subseteq claimed'
    PROVE  ScInv'
<1>1. PICK k \in 0 .. MaxProcs, n \in Nat :
             /\ InOrder(sh, k) /\ Len(m_all) = n /\ DOMAIN m_all = 1 .. n /\ n <= k
             /\ cur \in 1 .. n /\ goal \in Nat /\ goal >= cur
             /\ call.op \in {"login", "exec", "su", "upload", "download"}
             /\ IF call.op = "login" THEN cur = n /\ k + (goal - cur) <= MaxProcs ELSE goal = n
             /\ call.op \notin {"upload", "download"} => call.good
             /\ call.op \notin {"exec", "su"} => call.who = 0
             /\ Logged(m_all, sh, TRUE)
  BY LoopFacts
<1>2. /\ m_all \in Seq(Procs) /\ sh \in [Procs -> Shells] /\ call \in AllCalls
      /\ goal \in 0 .. MaxProcs /\ stop \in BOOLEAN /\ aborted \in BOOLEAN
      /\ troubles \in 0 .. MaxTroubles /\ astray \subseteq Procs /\ drained \subseteq Procs
  BY DEF ScInv, Typed
<1>3. DoneBefore(cur, call, m_all, claimed)
  BY DEF ScInv
<1>. DEFINE i == NextHost(cur + 1)
<1>4. cur + 1 \in Nat /\ cur + 1 >= 1 /\ cur \in Nat
  BY <1>1
<1>5. /\ i \in Nat /\ i >= 1
      /\ i \in (cur + 1) .. goal \/ i = goal + 1
      /\ call.who = 0 /\ cur + 1 <= goal => i = cur + 1
      /\ call.who = 0 /\ cur + 1 > goal => i = goal + 1
  <2>1. goal' \in Nat /\ goal' = goal /\ call' = call
    BY <1>1
  <2>2. /\ i \in Nat /\ i >= 1
        /\ i \in (cur + 1) .. goal' \/ i = goal' + 1
        /\ call'.who = 0 /\ cur + 1 <= goal' => i = cur + 1
        /\ call'.who = 0 /\ cur + 1 > goal' => i = goal' + 1
    BY <1>4, <2>1, HostAfter
  <2>. HIDE DEF i
  <2>. QED BY <2>1, <2>2
<1>6. Started = k
  BY <1>1, Consts, HowMany
<1>7. NextShell(i, sh)
  OBVIOUS
<1>. HIDE DEF i
<1>8. i <= goal /\ call.who = 0 => i = cur + 1
  BY <1>1, <1>4, <1>5
<1>9. i > goal /\ call.who = 0 => ~(cur + 1 <= goal)
  BY <1>1, <1>4, <1>5
<1>10. ASSUME i <= goal
       PROVE  MayGoOn(call, m_all, i, goal, k) /\ DoneBefore(i, call, m_all, claimed')
  <2>1. MayGoOn(call, m_all, i, goal, k)
    BY <1>1, <1>8, <1>10 DEF MayGoOn
  <2>2. ASSUME call.op \in {"exec", "su"}, call.who = 0, NEW j \in 1 .. n, j < i
        PROVE  m_all[j] \in claimed'
    <3>1. j < cur \/ j = cur
      BY <1>1, <1>4, <1>8, <1>10, <2>2
    <3>. QED BY <1>1, <1>3, <2>2, <3>1 DEF DoneBefore
  <2>. QED BY <1>1, <2>1, <2>2 DEF DoneBefore
<1>11. ASSUME i > goal
       PROVE  DoneBefore(Len(m_all) + 1, call, m_all, claimed')
  <2>1. ASSUME call.op \in {"exec", "su"}, call.who = 0, NEW j \in 1 .. n, j < n + 1
        PROVE  m_all[j] \in claimed'
    <3>1. goal = n /\ ~(cur + 1 <= n)
      BY <1>1, <1>9, <1>11, <2>1
    <3>2. j < cur \/ j = cur
      BY <1>1, <3>1, <2>1
    <3>. QED BY <1>1, <1>3, <2>1, <3>2 DEF DoneBefore
  <2>. QED BY <1>1, <2>1 DEF DoneBefore
<1>12. call' = call /\ goal' = goal /\ astray' = astray /\ call.op # "none"
  BY <1>1
<1>. QED BY <1>1, <1>2, <1>5, <1>6, <1>7, <1>10, <1>11, <1>12, NextShellKeeps

LEMMA WaitReturnsKeeps == ScInv /\ WaitReturns => ScInv'
<1>. SUFFICES ASSUME ScInv, WaitReturns PROVE ScInv'
  OBVIOUS
<1>. DEFINE q == m_all[cur]
<1>0. /\ tpc = "wait" /\ Follows \in {"true", "false"} /\ codes' = codes \cup {CodeSet}
      /\ claimed' = IF Follows = "true" /\ call.op \in {"exec", "su"} THEN claimed \cup {q} ELSE claimed
      /\ drained' \subseteq drained \cup {q}
      /\ UNCHANGED <<call, goal, astray, stop, aborted, troubles>>
  BY DEF WaitReturns
<1>1. InLoop
  BY <1>0 DEF InLoop
<1>2. /\ q \in Procs /\ call.op \in {"login", "exec", "su", "upload", "download"}
      /\ step \in StepsOf(call.op) /\ (call.op \notin {"upload", "download"} => call.good)
  BY <1>1, LoopFacts
<1>3. /\ Follows = "true" => /\ code = "normal"
                             /\ call.op \in {"exec", "su"} => step = "echo"
      /\ step = "echo" => (Follows = "true" <=> seen = "zero" /\ code = "normal")
      /\ step = "lsecho" => seen = "zero"
      /\ Follows = "false" /\ call.op \in {"login", "exec", "su"} => CodeSet = FALSE
  BY <1>0, <1>2, FollowsFacts
<1>4. codes' \subseteq BOOLEAN /\ claimed' \subseteq Procs /\ drained' \subseteq Procs /\ claimed \subseteq claimed' /\ passed \in BOOLEAN
  <2>1. CodeSet \in BOOLEAN
    BY DEF CodeSet, ExitCodeIsZero
  <2>. QED BY <1>0, <1>2, <2>1 DEF ScInv, Typed
<1>. HIDE DEF q
<1>5. Here(q) /\ \A p \in Procs : p # q => ~Here(p)
  BY <1>0 DEF Here, q
<1>6. CASE Follows = "true" \/ call.op \in {"upload", "download"}
  <2>1. q \notin astray => Settled(sh[q])
    <3>1. q \notin astray => InHand(sh[q], TRUE, step, seen, call.n)
      BY <1>2, <1>5, ShellFacts
    <3>2. ~(step \in {"echo", "lsecho"} /\ seen = "prompt")
      BY <1>2, <1>3, <1>6 DEF StepsOf
    <3>. QED BY <3>1, <3>2 DEF InHand
  <2>2. sh[q].st # "starting"
    <3>1. call.op \in {"upload", "download"} => step # "login"
      BY <1>2 DEF StepsOf
    <3>. QED BY <1>2, <1>3, <1>6, <3>1, ShellFacts
  <2>3. q \in claimed' \ astray => sh[q].ran \/ sh[q].st = "deleted"
    <3>1. CASE Follows = "true" /\ call.op \in {"exec", "su"}
      <4>1. step = "echo" /\ seen = "zero"
        BY <1>3, <3>1
      <4>2. q \notin astray => InHand(sh[q], TRUE, step, seen, call.n)
        BY <1>2, <1>5, ShellFacts
      <4>. QED BY <4>1, <4>2 DEF InHand
    <3>2. CASE ~(Follows = "true" /\ call.op \in {"exec", "su"})
      BY <1>0, <1>2, <3>2, ShellFacts
    <3>. QED BY <3>1, <3>2
  <2>4. ASSUME NEW p \in Procs
        PROVE  /\ p \notin astray => Settled(sh[p])
               /\ sh[p].st # "starting"
               /\ p \in claimed' \ astray => sh[p].ran \/ sh[p].st = "deleted"
    <3>1. CASE p = q
      BY <3>1, <2>1, <2>2, <2>3
    <3>2. CASE p # q
      <4>1. p \in claimed' => p \in claimed
        BY <1>0, <3>2
      <4>. QED BY <1>5, <3>2, <4>1, ShellFacts
    <3>. QED BY <3>1, <3>2
  <2>5. \A p \in Procs : Rested(sh[p], p \in astray, p \in claimed')
    BY <2>4 DEF Rested
  <2>6. CASE call.op \notin {"upload", "download"}
    <3>1. NextShell(NextHost(cur + 1), sh) /\ UNCHANGED passed
      BY <1>0, <1>6, <2>6 DEF WaitReturns, Conclude
    <3>2. call.op \in {"exec", "su"} => m_all[cur] \in claimed'
      BY <1>0, <1>6, <2>6 DEF q
    <3>3. passed' \in BOOLEAN
      BY <3>1, <1>4
    <3>. QED BY <1>0, <1>1, <1>4, <2>5, <3>1, <3>2, <3>3, GoesOnKeeps
  <2>7. CASE call.op \in {"upload", "download"}
    <3>1. /\ tpc' = "sleep" /\ passed' = (Follows = "true") /\ zm' = "none" /\ code' = "none"
          /\ armed' = FALSE /\ UNCHANGED <<step, m_all, cur, res, sh, seen>>
      BY <2>7 DEF WaitReturns
    <3>2. Typed'
      <4>1. passed' \in BOOLEAN /\ armed' \in BOOLEAN
        BY <3>1
      <4>. QED BY <1>0, <1>4, <3>1, <4>1 DEF ScInv, Typed
    <3>3. PICK k \in 0 .. MaxProcs : /\ InOrder(sh, k)
                                     /\ Placed(tpc, call, m_all, cur, goal, step, zm, k)
      BY DEF ScInv
    <3>4. Placed(tpc', call', m_all', cur', goal', step', zm', k)
      BY <1>0, <2>7, <3>1, <3>3 DEF Placed
    <3>5. Alive = TRUE /\ Alive' = TRUE
      BY <1>0, <3>1 DEF Alive
    <3>6. Logged(m_all', sh', Alive')
      BY <3>1, <3>5 DEF ScInv
    <3>7. ShellsOK'
      <4>1. \A p \in Procs : Here(p)' = FALSE
        BY <3>1 DEF Here
      <4>2. \A p \in Procs : p \notin astray => InHand(sh[p], FALSE, step', seen', call'.n)
        BY <2>4, NotHere
      <4>3. \A p \in Procs : Fresh(sh[p], FALSE, step', code')
        BY <2>4 DEF Fresh
      <4>. QED BY <1>0, <2>4, <3>1, <4>1, <4>2, <4>3 DEF ShellsOK
    <3>8. DoneBefore(cur', call', m_all', claimed')
      BY <1>0, <2>7 DEF DoneBefore
    <3>9. InOrder(sh', k) /\ tpc' # "script"
      BY <3>1, <3>3
    <3>. QED BY <3>2, <3>4, <3>6, <3>7, <3>8, <3>9 DEF ScInv
  <2>. QED BY <2>6, <2>7
<1>7. CASE Follows = "false" /\ call.op \notin {"upload", "download"}
  <2>1. CallReturns(TRUE) /\ CleanAll /\ UNCHANGED passed
    BY <1>7 DEF WaitReturns, Conclude
  <2>2. claimed' = claimed /\ FALSE \in codes'
    BY <1>0, <1>2, <1>3, <1>7
  <2>3. passed' \in BOOLEAN
    BY <2>1, <1>4
  <2>. QED BY <1>0, <1>4, <2>1, <2>2, <2>3, CleanKeeps
<1>. QED BY <1>0, <1>6, <1>7

LEMMA SleepReturnsKeeps == ScInv /\ SleepReturns => ScInv'
<1>. SUFFICES ASSUME ScInv, SleepReturns PROVE ScInv'
  OBVIOUS
<1>0. /\ tpc = "sleep" /\ passed' = FALSE
      /\ UNCHANGED <<call, goal, codes, claimed, drained, astray, stop, aborted, troubles>>
  BY DEF SleepReturns
<1>1. InLoop /\ call.op \in {"upload", "download"}
  BY <1>0 DEF InLoop, ScInv, Placed
<1>2. codes' \subseteq BOOLEAN /\ claimed' \subseteq Procs /\ drained' \subseteq Procs /\ passed' \in BOOLEAN
  BY <1>0 DEF ScInv, Typed
<1>3. CASE NextShell(NextHost(cur + 1), sh)
  <2>1. \A p \in Procs : ~Here(p)
    BY <1>0 DEF Here
  <2>2. \A p \in Procs : Rested(sh[p], p \in astray, p \in claimed')
    BY <1>0, <2>1, ShellFacts DEF Rested
  <2>3. UNCHANGED <<call, goal, astray, stop, aborted, troubles>> /\ call.op \notin {"exec", "su"}
    BY <1>0, <1>1
  <2>. QED BY <1>1, <1>2, <1>3, <2>2, <2>3, GoesOnKeeps
<1>4. CASE CallReturns(TRUE) /\ CleanAll
  <2>1. UNCHANGED <<call, goal, claimed, astray, stop, aborted, troubles>>
        /\ call.op \notin {"login", "exec", "su"}
    BY <1>0, <1>1
  <2>. QED BY <1>2, <1>4, <2>1, CleanKeeps
<1>. QED BY <1>3, <1>4 DEF SleepReturns, Conclude

LEMMA StartCallKeeps == ScInv /\ StartCall => ScInv'
<1>. SUFFICES ASSUME ScInv, StartCall PROVE ScInv'
  OBVIOUS
<1>. DEFINE calm == [p \in Procs |-> [sh[p] EXCEPT !.ran = FALSE]]
<1>1. PICK op \in Ops, who \in {0} \cup Procs, good \in BOOLEAN :
        /\ op \in {"exec", "su"} \/ who = 0
        /\ op \in {"upload", "download"} \/ good
        /\ op = "login" => Started + NHosts <= MaxProcs
        /\ call' = [op |-> op, who |-> who, good |-> good, n |-> call.n + 1,
                    transfers |-> call.transfers + IF op \in {"upload", "download"} THEN 1 ELSE 0]
        /\ goal' = IF op = "login" THEN Len(m_all) + NHosts ELSE Len(m_all)
        /\ codes' = {} /\ claimed' = {}
        /\ NextShell(IF op = "login" THEN Len(m_all) + 1 ELSE NextHost(1), calm)
  BY DEF StartCall
<1>2. tpc = "script" /\ call.n < MaxCalls /\ UNCHANGED <<passed, drained, astray, stop, aborted, troubles>>
  BY DEF StartCall
<1>3. PICK k \in 0 .. MaxProcs : /\ InOrder(sh, k)
                                 /\ Placed(tpc, call, m_all, cur, goal, step, zm, k)
  BY DEF ScInv
<1>4. /\ m_all \in Seq(Procs) /\ sh \in [Procs -> Shells] /\ call \in AllCalls
      /\ passed \in BOOLEAN /\ stop \in BOOLEAN /\ aborted \in BOOLEAN
      /\ troubles \in 0 .. MaxTroubles /\ astray \subseteq Procs /\ drained \subseteq Procs
  BY DEF ScInv, Typed
<1>5. PICK n \in Nat : Len(m_all) = n /\ DOMAIN m_all = 1 .. n
  BY <1>4, LenProperties
<1>6. n <= k /\ k \in Nat /\ Started = k
  BY <1>3, <1>5, Consts, HowMany DEF Placed
<1>7. Alive = TRUE /\ Logged(m_all, sh, TRUE)
  <2>1. Alive = TRUE
    BY <1>2 DEF Alive
  <2>. QED BY <2>1 DEF ScInv
<1>8. \A p \in Procs : /\ calm[p] \in Shells /\ calm[p].st = sh[p].st /\ calm[p].lines = sh[p].lines
                       /\ calm[p].out = sh[p].out
                       /\ sh[p] = NoShell => calm[p] = NoShell
  <2>. SUFFICES ASSUME NEW p \in Procs
                PROVE  /\ calm[p] \in Shells /\ calm[p].st = sh[p].st /\ calm[p].lines = sh[p].lines
                       /\ calm[p].out = sh[p].out
                       /\ sh[p] = NoShell => calm[p] = NoShell
    OBVIOUS
  <2>1. sh[p] \in Shells /\ calm[p] = [sh[p] EXCEPT !.ran = FALSE]
    BY <1>4
  <2>. HIDE DEF calm
  <2>2. /\ calm[p] \in Shells /\ calm[p].st = sh[p].st /\ calm[p].lines = sh[p].lines
        /\ calm[p].out = sh[p].out
    BY <2>1 DEF Shells
  <2>3. [NoShell EXCEPT !.ran = FALSE] = NoShell
    <3>1. NoShell \in Shells /\ NoShell.ran = FALSE
      BY NoneIsSettled DEF NoShell
    <3>2. \A s \in Shells : s.ran = FALSE => [s EXCEPT !.ran = FALSE] = s
      BY DEF Shells
    <3>. QED BY <3>1, <3>2
  <2>. QED BY <2>1, <2>2, <2>3
<1>9. calm \in [Procs -> Shells]
  <2>1. calm = [p \in Procs |-> calm[p]]
    OBVIOUS
  <2>. HIDE DEF calm
  <2>. QED BY <1>8, <2>1
<1>. HIDE DEF calm
<1>10. InOrder(calm, k) /\ Logged(m_all, calm, TRUE)
  BY <1>3, <1>7, <1>8 DEF InOrder, Logged
<1>11. \A p \in Procs : Rested(calm[p], p \in astray, p \in claimed')
  <2>1. \A p \in Procs : ~Here(p)
    BY <1>2 DEF Here
  <2>2. \A p \in Procs : (p \notin astray => Settled(sh[p])) /\ sh[p].st # "starting"
    BY <2>1, ShellFacts
  <2>. QED BY <1>1, <1>8, <2>2 DEF Rested, Settled
<1>12. /\ call' \in AllCalls /\ call'.op = op /\ call'.who = who /\ call'.good = good
  <2>1. call.n + 1 \in 0 .. MaxCalls /\ call.transfers \in Nat
    BY <1>2, <1>4, Consts DEF AllCalls
  <2>2. who \in 0 .. MaxProcs
    BY Consts DEF Procs
  <2>3. call.transfers + (IF op \in {"upload", "download"} THEN 1 ELSE 0) \in Nat
    BY <2>1
  <2>. QED BY <1>1, <2>1, <2>2, <2>3 DEF AllCalls
<1>13. op \in {"login", "exec", "su", "upload", "download"}
  BY Consts
<1>14. CASE op = "login"
  <2>1. goal' = n + NHosts /\ NextShell(n + 1, calm) /\ k + NHosts <= MaxProcs
    BY <1>1, <1>5, <1>6, <1>14
  <2>2. /\ goal' \in 0 .. MaxProcs /\ n + 1 \in Nat /\ n + 1 >= 1 /\ k + (goal' - n) <= MaxProcs
        /\ n + 1 <= goal' /\ ~(n + 1 > goal')
    <3>1. n + NHosts \in 0 .. MaxProcs /\ k + ((n + NHosts) - n) <= MaxProcs /\ n + 1 <= n + NHosts
      BY <1>6, <2>1, Consts
    <3>2. n + 1 \in Nat /\ n + 1 >= 1 /\ ~(n + 1 > n + NHosts)
      BY Consts
    <3>. QED BY <2>1, <3>1, <3>2
  <2>3. MayGoOn(call', m_all, n + 1, goal', k) /\ DoneBefore(n + 1, call', m_all, claimed')
    BY <1>5, <1>12, <1>14, <2>2 DEF MayGoOn, DoneBefore
  <2>4. /\ call'.op # "none" /\ (call'.op \notin {"upload", "download"} => call'.good)
        /\ call'.op \notin {"exec", "su"} => call'.who = 0
    BY <1>1, <1>12, <1>13
  <2>5. codes' \subseteq BOOLEAN /\ claimed' \subseteq Procs /\ drained' \subseteq Procs
    BY <1>1, <1>2, <1>4
  <2>. QED BY <1>2, <1>4, <1>5, <1>6, <1>9, <1>10, <1>11, <1>12, <2>1, <2>2, <2>3, <2>4, <2>5,
              NextShellKeeps
<1>15. CASE op # "login"
  <2>. DEFINE i == NextHost(1)
  <2>1. goal' = n /\ NextShell(i, calm) /\ goal' \in 0 .. MaxProcs /\ goal' \in Nat
    BY <1>1, <1>5, <1>6, <1>15, Consts
  <2>2. /\ i \in Nat /\ i >= 1
        /\ i \in 1 .. n \/ i = n + 1
        /\ call'.who = 0 /\ 1 <= n => i = 1
        /\ call'.who = 0 /\ 1 > n => i = n + 1
    <3>1. 1 \in Nat /\ 1 >= 1
      OBVIOUS
    <3>2. /\ i \in Nat /\ i >= 1
          /\ i \in 1 .. goal' \/ i = goal' + 1
          /\ call'.who = 0 /\ 1 <= goal' => i = 1
          /\ call'.who = 0 /\ 1 > goal' => i = goal' + 1
      BY <2>1, <3>1, HostAfter
    <3>. HIDE DEF i
    <3>. QED BY <2>1, <3>2
  <2>. HIDE DEF i
  <2>3. ASSUME i <= n
        PROVE  MayGoOn(call', m_all, i, goal', k) /\ DoneBefore(i, call', m_all, claimed')
    <3>1. call'.who = 0 => i = 1
      BY <2>2, <2>3
    <3>2. \A j \in 1 .. n : ~(j < 1)
      OBVIOUS
    <3>. QED BY <1>5, <1>12, <1>15, <2>1, <3>1, <3>2 DEF MayGoOn, DoneBefore
  <2>4. ASSUME i > n
        PROVE  DoneBefore(Len(m_all) + 1, call', m_all, claimed')
    <3>1. call'.who = 0 => n = 0
      BY <2>2, <2>4
    <3>2. n = 0 => DOMAIN m_all = {}
      BY <1>5
    <3>. QED BY <3>1, <3>2 DEF DoneBefore
  <2>5. /\ call'.op # "none" /\ (call'.op \notin {"upload", "download"} => call'.good)
        /\ call'.op \notin {"exec", "su"} => call'.who = 0
    BY <1>1, <1>12, <1>13
  <2>6. codes' \subseteq BOOLEAN /\ claimed' \subseteq Procs /\ drained' \subseteq Procs
    BY <1>1, <1>2, <1>4
  <2>. QED BY <1>2, <1>4, <1>5, <1>6, <1>9, <1>10, <1>11, <1>12, <2>1, <2>2, <2>3, <2>4, <2>5, <2>6,
              NextShellKeeps
<1>. QED BY <1>14, <1>15

-----------------------------------------------------------------------------
(* The theorems *)

LEMMA ScInvInit == ScriptInit => ScInv
<1>. SUFFICES ASSUME ScriptInit PROVE ScInv
  OBVIOUS
<1>. USE DEF ScriptInit
<1>1. NoShell \in Shells /\ Settled(NoShell) /\ NoShell.st = "none"
  BY NoneIsSettled DEF NoShell
<1>2. sh \in [Procs -> Shells] /\ \A p \in Procs : sh[p] = NoShell
  BY <1>1
<1>3. Typed
  <2>1. m_all \in Seq(Procs) /\ res \in [failed : BOOLEAN, err : BOOLEAN] /\ cur \in Nat
    BY DEF NoResult
  <2>2. call \in AllCalls /\ goal \in 0 .. MaxProcs /\ troubles \in 0 .. MaxTroubles
    BY Consts DEF AllCalls
  <2>3. seen \in Answers \cup {"prompt"} /\ codes \subseteq BOOLEAN
    OBVIOUS
  <2>. QED BY <1>2, <2>1, <2>2, <2>3 DEF Typed
<1>4. InOrder(sh, 0)
  BY <1>1, <1>2, Consts DEF InOrder, Procs
<1>5. Len(m_all) = 0 /\ DOMAIN m_all = {}
  OBVIOUS
<1>6. Placed(tpc, call, m_all, cur, goal, step, zm, 0) /\ 0 \in 0 .. MaxProcs
  BY <1>5, Consts DEF Placed
<1>7. Logged(m_all, sh, Alive)
  BY <1>1, <1>2, <1>5 DEF Logged, Living
<1>8. ShellsOK
  <2>1. \A p \in Procs : Here(p) = FALSE
    BY DEF Here
  <2>2. \A p \in Procs : InHand(sh[p], FALSE, step, seen, call.n) /\ Fresh(sh[p], FALSE, step, code)
    BY <1>1, <1>2, NotHere DEF Fresh
  <2>. QED BY <2>1, <2>2 DEF ShellsOK
<1>9. ~InLoop /\ ~res.failed
  BY DEF InLoop, NoResult
<1>10. DoneBefore(Len(m_all) + 1, call, m_all, claimed)
  BY <1>5 DEF DoneBefore
<1>. QED BY <1>3, <1>4, <1>6, <1>7, <1>8, <1>9, <1>10 DEF ScInv

LEMMA ScInvStutter == ScInv /\ UNCHANGED scriptVars => ScInv'
<1>. SUFFICES ASSUME ScInv, UNCHANGED scriptVars PROVE ScInv'
  OBVIOUS
<1>0. /\ UNCHANGED <<tpc, call, m_all, cur, goal, step, passed, codes, zm, claimed, drained, astray, res>>
      /\ UNCHANGED <<code, armed, stop, aborted, seen, sh, troubles>>
  BY DEF scriptVars, callv
<1>1. Typed'
  BY <1>0 DEF ScInv, Typed
<1>2. zm' # "none" => step = "zm"
  BY <1>0 DEF ScInv, Placed
<1>. QED BY <1>0, <1>1, <1>2, WaitChanges

\* Every step of the script's thread, of its event loops, of the user, of ssh and
\* of the remote shells keeps the invariant.
THEOREM ScriptInvariant == ScriptSpec => []ScInv
<1>1. ScInv /\ [ScriptNext]_scriptVars => ScInv'
  <2>. SUFFICES ASSUME ScInv, [ScriptNext]_scriptVars PROVE ScInv'
    OBVIOUS
  <2>1. CASE ScriptEnds
    BY <2>1, EndKeeps DEF ScriptEnds
  <2>2. CASE TransferCutOff
    BY <2>2, EndKeeps DEF TransferCutOff, Crash
  <2>. QED BY <2>1, <2>2, StartCallKeeps, WaitGoesOnKeeps, WaitReturnsKeeps, SleepReturnsKeeps,
              TimerFiresKeeps, ReadyReadKeeps, FinishedKeeps, ZmodemFinishedKeeps, OnStopKeeps,
              UserStopsKeeps, SshEndsKeeps, KeypadOnKeeps, ShellStartsKeeps, ShellReadsKeeps,
              ShellMisleadsKeeps, ScInvStutter DEF ScriptNext
<1>. QED BY <1>1, ScInvInit, PTL DEF ScriptSpec

\* The thread's variables keep their types: in a loop there is a shell at hand, a
\* transfer program exists only in the wait of a transfer, and the processes that
\* live are those of m_all, each there once.
THEOREM ScriptTypes == ScriptSpec => []ScriptTypeOK
<1>1. ScInv => ScriptTypeOK
  <2>. SUFFICES ASSUME ScInv PROVE ScriptTypeOK
    OBVIOUS
  <2>1. Typed
    BY DEF ScInv
  <2>2. /\ call.op \in Ops \cup {"none"} /\ call.who \in 0 .. MaxProcs /\ call.n \in 0 .. MaxCalls
    BY <2>1 DEF Typed, AllCalls
  <2>3. IsInjective(m_all)
    BY DEF ScInv, Logged, IsInjective
  <2>4. InLoop => cur \in 1 .. Len(m_all)
    BY DEF ScInv, Placed, InLoop
  <2>5. zm # "none" => step = "zm"
    BY DEF ScInv, Placed
  <2>6. ASSUME NEW p \in Procs
        PROVE  /\ p \in Range(m_all) /\ Alive <=> sh[p].st \in {"starting", "up", "gone", "reaped"}
               /\ sh[p].lines \in Seq([k : LineKinds, n : 0 .. MaxCalls]) /\ sh[p].out \in Seq(Units)
               /\ {sh[p].zero, sh[p].asking, sh[p].ran} \subseteq BOOLEAN
    <3>1. p \in Range(m_all) <=> \E i \in DOMAIN m_all : m_all[i] = p
      BY DEF Range
    <3>2. sh[p].st \in Living <=> Alive /\ \E i \in DOMAIN m_all : m_all[i] = p
      BY DEF ScInv, Logged
    <3>3. sh[p] \in Shells
      BY <2>1 DEF Typed
    <3>. QED BY <3>1, <3>2, <3>3 DEF Living, Shells, Lines
  <2>7. {armed, stop, aborted, passed} \subseteq BOOLEAN /\ {claimed, drained, astray} \subseteq SUBSET Procs
    BY <2>1 DEF Typed
  <2>. QED BY <2>1, <2>2, <2>3, <2>4, <2>5, <2>6, <2>7 DEF ScriptTypeOK, Typed
<1>. QED BY <1>1, ScriptInvariant, PTL

\* execCommand, sudo and su return true for a shell only when that shell has run
\* this call's command with exit status 0, unless a download went on without the
\* answer to its echo, or other output was taken for the answer.
THEOREM OkIsAlwaysEarned == ScriptSpec => []OkIsEarned
<1>1. ScInv => OkIsEarned
  <2>1. ScInv => claimed \subseteq Procs
    BY DEF ScInv, Typed
  <2>. QED BY <2>1 DEF ScInv, ShellsOK, OkIsEarned
<1>. QED BY <1>1, ScriptInvariant, PTL

\* A call for every host that has returned has run on all of them or has left
\* the script none.
THEOREM AllOrNone == ScriptSpec => []AllHostsOrNone
<1>1. ScInv => AllHostsOrNone
  <2>. SUFFICES ASSUME ScInv, tpc = "script", call.op \in {"exec", "su"}, call.who = 0,
                       NEW p \in Range(m_all) \ astray
                PROVE  sh[p].ran
    BY DEF AllHostsOrNone
  <2>1. PICK i \in DOMAIN m_all : m_all[i] = p
    BY DEF Range
  <2>2. m_all \in Seq(Procs)
    BY DEF ScInv, Typed
  <2>3. p \in Procs /\ i < Len(m_all) + 1
    BY <2>1, <2>2
  <2>4. p \in claimed
    BY <2>1, <2>3 DEF ScInv, DoneBefore
  <2>5. sh[p].st # "deleted"
    <3>1. Alive
      BY DEF Alive
    <3>2. sh[p].st \in Living
      BY <2>1, <2>3, <3>1 DEF ScInv, Logged
    <3>. QED BY <3>2 DEF Living
  <2>. QED BY <2>3, <2>4, <2>5 DEF ScInv, ShellsOK
<1>. QED BY <1>1, ScriptInvariant, PTL

\* A login, execCommand, sudo or su that gave up leaves hasError in its result.
THEOREM FailuresAreReported == ScriptSpec => []FailureIsReported
<1>1. ScInv => FailureIsReported
  BY DEF ScInv, FailureIsReported
<1>. QED BY <1>1, ScriptInvariant, PTL
=============================================================================
