--------------------------- MODULE MprChainProofs ---------------------------
(***************************************************************************)
(* Proofs about MprChain for a chain of any length, rings of any size and  *)
(* every drawing mode: when mdDrawSync has returned all renderers are      *)
(* done, no token comes between the packets of a command, and renderers    *)
(* have stopped when their MPEs are given back.                            *)
(*                                                                         *)
(* The argument follows the token.  There is one exactly while the program *)
(* awaits it: it is the last command in the ring of one renderer, behind   *)
(* which nothing is left, or the answer in the program's inbox.  That the  *)
(* program awaits after sending, and only then, is a property of what is   *)
(* left of its call.                                                       *)
(***************************************************************************)
EXTENDS MprChain, SequenceTheorems, TLAPS

Token(c) == c.op \in {"sync", "break"}
TokenSend(s) == s.do = "send" /\ Token(s.cmd)

(* What is left of a call: a token goes to the first renderer and is awaited  *)
(* next, nothing else is awaited (except by the wait that has begun), and     *)
(* MPEs are given back at the end, after a break has been awaited.            *)
FollowsAt(s, i) ==
  /\ TokenSend(s[i]) =>
       /\ s[i].to = Start /\ ~s[i].isLong
       /\ i < Len(s) /\ s[i + 1].do = "await"
       /\ s[i].cmd.op = "break" <=> i + 1 < Len(s) /\ s[i + 2].do = "free"
  /\ i < Len(s) =>
       /\ s[i].do # "free"
       /\ s[i + 1].do = "await" => TokenSend(s[i])
       /\ s[i + 1].do = "free" => s[i].do = "await"

Follows(s) == \A i \in 1 .. Len(s) : FollowsAt(s, i)

(* What a call begins with. *)
Begins(s) == s # <<>> => s[1].do \notin {"await", "free"}

(* A part of a call that gives nothing back, and one without any token. *)
Part(s) ==
  /\ s \in Seq(Steps)
  /\ Follows(s) /\ Begins(s)
  /\ \A i \in 1 .. Len(s) : s[i].do # "free"

Plain(s) ==
  /\ s \in Seq(Steps)
  /\ \A i \in 1 .. Len(s) : s[i].do \notin {"await", "free"} /\ ~TokenSend(s[i])

(* A renderer with nothing left to do, and one without a token. *)
Done(m) == queue[m] = <<>> /\ dma[m] = {}
NoToken(m) == \A i \in 1 .. Len(queue[m]) : ~Token(queue[m][i])

(* The token is at m: the last command there, after it has passed those       *)
(* before m and before it reaches those after.                                *)
TokenAt(m) ==
  /\ queue[m] # <<>> /\ Token(queue[m][Len(queue[m])])
  /\ \A i \in 1 .. Len(queue[m]) - 1 : ~Token(queue[m][i])
  /\ \A n \in MPRs : (n < m => Done(n)) /\ (n > m => NoToken(n))

TokenInv ==
  IF Doing("await")
  THEN IF inbox = "SYNC" THEN \A m \in MPRs : Done(m)
       ELSE \E m \in MPRs : TokenAt(m)
  ELSE inbox # "SYNC" /\ \A m \in MPRs : NoToken(m)

(* The program awaits the answer to a break. *)
Removing == Len(todo) > 1 /\ todo[2].do = "free"

(* Renderers stop as a break passes them. *)
BreakInv ==
  /\ Ready \/ Up
  /\ OnlyOwnMPEsRun
  /\ Doing("await") =>
       \A m \in MPRs : \A i \in 1 .. Len(queue[m]) :
         Token(queue[m][i]) => (queue[m][i].op = "break" <=> Removing)
  /\ Doing("await") /\ Removing =>
       IF inbox = "SYNC" THEN \A m \in MPRs : status[m] # "run"
       ELSE \A m \in MPRs : TokenAt(m) => \A n \in MPRs : n < m => status[n] # "run"
  /\ Doing("free") => \A m \in MPRs : Done(m) /\ status[m] # "run"

SendInv == sending => Doing("send") /\ Head(todo).isLong

IInv ==
  TypeOK /\ Follows(todo) /\ TokenInv /\ BreakInv /\ SendInv /\ SyncMeansDone

-----------------------------------------------------------------------------
(* Sequences of steps. *)

(* What is left when the first step has been done. *)
LEMMA RestFollows ==
  ASSUME NEW s \in Seq(Steps), s # <<>>, Follows(s)
  PROVE  Tail(s) \in Seq(Steps) /\ Follows(Tail(s))
<1> DEFINE t == Tail(s)
<1>1. /\ t \in Seq(Steps) /\ Len(t) = Len(s) - 1
      /\ \A i \in 1 .. Len(t) : t[i] = s[i + 1]
  BY HeadTailProperties
<1>2. Len(s) \in Nat /\ Len(t) \in Nat
  BY <1>1
<1> HIDE DEF t
<1>3. ASSUME NEW i \in 1 .. Len(t)
      PROVE  FollowsAt(t, i)
  <2>1. FollowsAt(s, i + 1)
    BY <1>1, <1>2 DEF Follows
  <2>2. t[i] = s[i + 1]
    BY <1>1
  <2>3. i < Len(t) => t[i + 1] = s[(i + 1) + 1]
    BY <1>1, <1>2
  <2>4. i + 1 < Len(t) => t[i + 2] = s[(i + 1) + 2]
    <3>1. HAVE i + 1 < Len(t)
    <3>2. i + 2 \in 1 .. Len(t)
      BY <1>2, <3>1
    <3>3. t[i + 2] = s[(i + 2) + 1] /\ (i + 2) + 1 = (i + 1) + 2
      BY <1>1, <3>2
    <3> QED BY <3>3
  <2>5. /\ i < Len(t) <=> i + 1 < Len(s)
        /\ i + 1 < Len(t) <=> (i + 1) + 1 < Len(s)
    BY <1>1, <1>2
  <2> QED BY <2>1, <2>2, <2>3, <2>4, <2>5 DEF FollowsAt
<1> QED BY <1>1, <1>3 DEF Follows, t

(* Parts put behind one another are a part. *)
LEMMA Concat ==
  ASSUME NEW p, NEW q, Part(p), Part(q)
  PROVE  Part(p \o q)
<1> DEFINE s == p \o q
<1>1. /\ p \in Seq(Steps) /\ q \in Seq(Steps)
      /\ Len(p) \in Nat /\ Len(q) \in Nat
  BY DEF Part
<1>2. /\ s \in Seq(Steps) /\ Len(s) = Len(p) + Len(q)
      /\ \A i \in 1 .. Len(p) + Len(q) :
           s[i] = IF i <= Len(p) THEN p[i] ELSE q[i - Len(p)]
  BY <1>1, ConcatProperties
<1> HIDE DEF s
<1>3. ASSUME NEW i \in 1 .. Len(s)
      PROVE  FollowsAt(s, i) /\ s[i].do # "free"
  <2>1. CASE i <= Len(p)
    <3>1. i \in 1 .. Len(p) /\ s[i] = p[i]
      BY <1>1, <1>2, <2>1
    <3>2. FollowsAt(p, i) /\ p[i].do # "free"
      BY <3>1 DEF Part, Follows
    <3>3. i < Len(p) => s[i + 1] = p[i + 1] /\ p[i + 1].do # "free" /\ i < Len(s)
      BY <1>1, <1>2, <3>1 DEF Part
    <3>4. i = Len(p) /\ i < Len(s) => s[i + 1].do \notin {"await", "free"}
      <4>1. HAVE i = Len(p) /\ i < Len(s)
      <4>2. i + 1 \in 1 .. Len(p) + Len(q) /\ (i + 1) - Len(p) = 1
        BY <1>1, <1>2, <4>1
      <4>3. s[i + 1] = q[1] /\ q # <<>>
        BY <1>1, <1>2, <4>1, <4>2
      <4> QED BY <4>3 DEF Part, Begins
    <3>5. ~(i + 1 < Len(p) /\ p[i + 2].do = "free")
      BY <1>1, <3>1 DEF Part
    <3>6. TokenSend(s[i]) => ~(i + 1 < Len(s) /\ s[i + 2].do = "free")
      <4>1. HAVE TokenSend(s[i])
      <4>2. i < Len(p) /\ p[i + 1].do = "await"
        BY <3>1, <3>2, <4>1 DEF FollowsAt
      <4>3. CASE i + 1 < Len(p)
        <5>1. i + 2 \in 1 .. Len(p)
          BY <1>1, <4>3
        <5>2. s[i + 2] = p[i + 2]
          BY <1>1, <1>2, <5>1
        <5> QED BY <5>2, <3>5, <4>3
      <4>4. CASE i + 1 = Len(p) /\ i + 1 < Len(s)
        <5>1. i + 2 \in 1 .. Len(p) + Len(q) /\ (i + 2) - Len(p) = 1
          BY <1>1, <1>2, <4>4
        <5>2. s[i + 2] = q[1] /\ q # <<>>
          BY <1>1, <1>2, <4>4, <5>1
        <5> QED BY <5>2 DEF Part, Begins
      <4> QED BY <1>1, <1>2, <4>2, <4>3, <4>4
    <3>7. i < Len(p) \/ i = Len(p)
      BY <1>1, <3>1
    <3> QED BY <3>1, <3>2, <3>3, <3>4, <3>5, <3>6, <3>7 DEF FollowsAt
  <2>2. CASE i > Len(p)
    <3> DEFINE j == i - Len(p)
    <3>1. /\ j \in 1 .. Len(q) /\ s[i] = q[j]
          /\ i < Len(s) <=> j < Len(q)
          /\ i + 1 < Len(s) <=> j + 1 < Len(q)
      BY <1>1, <1>2, <2>2
    <3>2. i < Len(s) => s[i + 1] = q[j + 1]
      <4>1. HAVE i < Len(s)
      <4>2. /\ i + 1 \in 1 .. Len(p) + Len(q) /\ ~(i + 1 <= Len(p))
            /\ (i + 1) - Len(p) = j + 1
        BY <1>1, <1>2, <2>2, <4>1
      <4> QED BY <1>2, <4>2
    <3>3. i + 1 < Len(s) => s[i + 2] = q[j + 2]
      <4>1. HAVE i + 1 < Len(s)
      <4>2. /\ i + 2 \in 1 .. Len(p) + Len(q) /\ ~(i + 2 <= Len(p))
            /\ (i + 2) - Len(p) = j + 2
        BY <1>1, <1>2, <2>2, <4>1
      <4> QED BY <1>2, <4>2
    <3> HIDE DEF j
    <3>4. FollowsAt(q, j) /\ q[j].do # "free"
      BY <3>1 DEF Part, Follows
    <3> QED BY <3>1, <3>2, <3>3, <3>4 DEF FollowsAt
  <2> QED BY <1>1, <1>2, <2>1, <2>2
<1>4. Begins(s)
  <2>1. CASE p = <<>>
    BY <2>1, <1>1, ConcatEmptySeq DEF s, Part
  <2>2. CASE p # <<>>
    <3>1. Len(p) # 0
      BY <1>1, <2>2, EmptySeq
    <3>2. s[1] = p[1]
      BY <1>1, <1>2, <3>1
    <3> QED BY <2>2, <3>2 DEF Part, Begins
  <2> QED BY <2>1, <2>2
<1> QED BY <1>2, <1>3, <1>4 DEF Part, Follows, s

LEMMA PlainPart ==
  ASSUME NEW s, Plain(s)
  PROVE  Part(s)
<1>1. s \in Seq(Steps) /\ Len(s) \in Nat
  BY DEF Plain
<1>2. \A i \in 1 .. Len(s) : FollowsAt(s, i)
  BY <1>1 DEF Plain, FollowsAt
<1>3. Begins(s)
  BY <1>1, EmptySeq DEF Plain, Begins
<1> QED BY <1>1, <1>2, <1>3 DEF Plain, Part, Follows

LEMMA OnePlain ==
  ASSUME NEW e \in Steps, e.do \notin {"await", "free"}, ~TokenSend(e)
  PROVE  Plain(<<e>>)
BY DEF Plain

LEMMA AppendPlain ==
  ASSUME NEW s, Plain(s), NEW e \in Steps,
         e.do \notin {"await", "free"}, ~TokenSend(e)
  PROVE  Plain(Append(s, e))
<1>1. s \in Seq(Steps) /\ Len(s) \in Nat
  BY DEF Plain
<1>2. /\ Append(s, e) \in Seq(Steps)
      /\ Len(Append(s, e)) = Len(s) + 1
      /\ \A i \in 1 .. Len(s) : Append(s, e)[i] = s[i]
      /\ Append(s, e)[Len(s) + 1] = e
  BY <1>1, AppendProperties
<1>3. \A i \in 1 .. Len(s) + 1 : i \in 1 .. Len(s) \/ i = Len(s) + 1
  BY <1>1
<1> QED BY <1>1, <1>2, <1>3 DEF Plain

-----------------------------------------------------------------------------
(* What the calls send. *)

LEMMA ChainFacts ==
  /\ Start \in Nat /\ NumMPRs \in Nat /\ NumMPRs >= 1
  /\ EndMPR \in Nat /\ Start \in MPRs /\ EndMPR \in MPRs
  /\ MPRs \subseteq Nat
  /\ \A i \in 1 .. NumMPRs : Start + i - 1 \in MPRs
BY ChainAssumption DEF EndMPR, MPRs

LEMMA NthType ==
  ASSUME TypeOK, NEW i \in Nat
  PROVE  Nth(i) \in MPRs
<1> DEFINE t == active - Start + i
<1>1. t \in Int
  BY ChainFacts DEF TypeOK, MPRs
<1> HIDE DEF t
<1>2. t % NumMPRs \in 0 .. NumMPRs - 1
  BY <1>1, ChainFacts
<1> QED BY <1>2, ChainAssumption DEF Nth, MPRs, EndMPR, t

LEMMA BufferFacts ==
  ASSUME TypeOK
  PROVE  /\ \A c \in {0, 1} : numbuf(c) \in 1 .. 3
         /\ \A c \in {0, 1} : <<c, actbuf[c]>> \in Buffers
         /\ target \in Buffers
BY ChainAssumption DEF TypeOK, numbuf, grb, Buffers, target

LEMMA CommandFacts ==
  ASSUME NEW b \in Buffers
  PROVE  /\ SB(b) \in Commands /\ ~Token(SB(b))
         /\ Draw(b) \in Commands /\ ~Token(Draw(b))
         /\ \A l \in SUBSET Lines : Conv(b, l) \in Commands /\ ~Token(Conv(b, l))
BY DEF SB, Draw, Conv, Commands, Token

LEMMA TokenFacts ==
  /\ SD \in Commands /\ Token(SD) /\ SD.op = "sync"
  /\ BD \in Commands /\ Token(BD) /\ BD.op = "break"
  /\ WaitMDMA \in Commands /\ ~Token(WaitMDMA)
BY DEF SD, BD, WaitMDMA, Commands, Token

LEMMA SendFacts ==
  ASSUME NEW m \in MPRs, NEW c \in Commands, NEW l \in BOOLEAN
  PROVE  /\ Send(m, c, l) \in Steps /\ Send(m, c, l).do = "send"
         /\ Send(m, c, l).to = m /\ Send(m, c, l).cmd = c
         /\ Send(m, c, l).isLong = l
         /\ TokenSend(Send(m, c, l)) <=> Token(c)
BY DEF Send, Steps, TokenSend

LEMMA StepFacts ==
  ASSUME NEW d \in {"await", "vidsync", "base", "advance", "free"}
  PROVE  /\ Step(d) \in Steps /\ Step(d).do = d
         /\ ~TokenSend(Step(d))
BY DEF Step, Steps, TokenSend

LEMMA StepPlain ==
  ASSUME NEW d \in {"vidsync", "base", "advance"}
  PROVE  Plain(<<Step(d)>>)
BY StepFacts, OnePlain

LEMMA SendPlain ==
  ASSUME NEW m \in MPRs, NEW c \in Commands, ~Token(c), NEW l \in BOOLEAN
  PROVE  Plain(<<Send(m, c, l)>>)
BY SendFacts, OnePlain

LEMMA SendSBPlain ==
  ASSUME NEW b \in Buffers
  PROVE  Plain(SendSB(b))
<1> DEFINE e(i) == Send(Start + i - 1, SB(b), FALSE)
           s == [i \in 1 .. NumMPRs |-> e(i)]
<1>1. \A i \in 1 .. NumMPRs : e(i) \in Steps /\ e(i).do = "send" /\ ~TokenSend(e(i))
  BY ChainFacts, CommandFacts, SendFacts
<1> HIDE DEF e
<1>2. s \in Seq(Steps) /\ Len(s) = NumMPRs /\ \A i \in 1 .. NumMPRs : s[i] = e(i)
  BY <1>1, ChainFacts
<1>3. Plain(s)
  BY <1>1, <1>2 DEF Plain
<1> QED BY <1>3 DEF SendSB, e

LEMMA ClearPart ==
  ASSUME TypeOK, NEW c \in {0, 1}
  PROVE  Part(ClearBuffers(c))
<1>1. ASSUME NEW i \in 0 .. 2
      PROVE  Part(ClearBuffer(c, i))
  <2>1. <<c, i>> \in Buffers
    BY DEF Buffers
  <2>2. Nth(i + 1) \in MPRs
    BY NthType
  <2>3. Plain(SendSB(<<c, i>>))
    BY <2>1, SendSBPlain
  <2>4. /\ Send(Nth(i + 1), Draw(<<c, i>>), TRUE) \in Steps
        /\ Send(Nth(i + 1), Draw(<<c, i>>), TRUE).do = "send"
        /\ ~TokenSend(Send(Nth(i + 1), Draw(<<c, i>>), TRUE))
    BY <2>1, <2>2, CommandFacts, SendFacts
  <2> QED BY <2>3, <2>4, AppendPlain, PlainPart DEF ClearBuffer
<1>2. Part(ClearBuffer(c, 0) \o ClearBuffer(c, 1))
  BY <1>1, Concat
<1>3. Part(ClearBuffer(c, 0) \o ClearBuffer(c, 1) \o ClearBuffer(c, 2))
  BY <1>1, <1>2, Concat
<1>4. numbuf(c) = 1 \/ numbuf(c) = 2 \/ numbuf(c) = 3
  BY BufferFacts
<1> HIDE DEF ClearBuffer, numbuf
<1> QED BY <1>1, <1>2, <1>3, <1>4 DEF ClearBuffers

LEMMA ImagePlain ==
  ASSUME TypeOK
  PROVE  Plain([i \in 1 .. NumMPRs |-> Send(Nth(i), Draw(target), TRUE)])
<1> DEFINE e(i) == Send(Nth(i), Draw(target), TRUE)
           s == [i \in 1 .. NumMPRs |-> e(i)]
<1>1. ASSUME NEW i \in 1 .. NumMPRs
      PROVE  e(i) \in Steps /\ e(i).do = "send" /\ ~TokenSend(e(i))
  <2>1. Nth(i) \in MPRs
    BY NthType
  <2>2. Draw(target) \in Commands /\ ~Token(Draw(target))
    BY BufferFacts, CommandFacts
  <2> QED BY <2>1, <2>2, SendFacts
<1> HIDE DEF e
<1>2. s \in Seq(Steps) /\ Len(s) = NumMPRs /\ \A i \in 1 .. NumMPRs : s[i] = e(i)
  BY <1>1, ChainFacts
<1>3. Plain(s)
  BY <1>1, <1>2 DEF Plain
<1> QED BY <1>3 DEF e

(* Every renderer's part of the lines is inside the frame. *)
LEMMA ConvLinesType ==
  ASSUME NEW other \in Others, NEW i \in 1 .. NumMPRs
  PROVE  ConvLines(other, i) \subseteq Lines
<1> DEFINE q == Height \div NumMPRs
<1>1. Height = NumMPRs * q + (Height % NumMPRs) /\ q \in Int
      /\ Height % NumMPRs \in 0 .. NumMPRs - 1
  <2>1. Height \in Int /\ NumMPRs \in Nat /\ NumMPRs > 0
    BY ChainAssumption
  <2>2. Height = NumMPRs * q + (Height % NumMPRs)
    BY <2>1, Z3
  <2> QED BY <2>1, <2>2
<1>2. other \in Nat /\ other <= q
  BY <1>1 DEF Others
<1> HIDE DEF q
<1>3. NumMPRs * other <= NumMPRs * q
  BY <1>1, <1>2, ChainFacts
<1>4. NumMPRs * other <= Height /\ Height \in Nat
  BY <1>1, <1>3, <1>2, ChainFacts, ChainAssumption
<1>5. (NumMPRs - 1) * other = NumMPRs * other - other
  BY <1>2, ChainFacts
<1>6. FirstHeight(other) \in Nat /\ FirstHeight(other) <= Height
  <2>1. (NumMPRs - 1) * other >= 0
    BY <1>2, ChainFacts
  <2> QED BY <2>1, <1>2, <1>4, <1>5, ChainFacts DEF FirstHeight
<1>7. CASE i = 1
  BY <1>4, <1>6, <1>7 DEF ConvLines, Lines
<1>8. CASE i > 1
  <2>1. (i - 2) * other >= 0
    BY <1>2, <1>8, ChainFacts
  <2>2. (i - 1) * other <= (NumMPRs - 1) * other
    BY <1>2, ChainFacts
  <2>3. FirstHeight(other) + (i - 1) * other <= Height
    BY <2>2, <1>2, <1>4, <1>5, ChainFacts DEF FirstHeight
  <2> QED BY <1>2, <1>4, <1>6, <1>8, <2>1, <2>3 DEF ConvLines, Lines
<1> QED BY <1>7, <1>8

LEMMA SendConvPlain ==
  ASSUME TypeOK, NEW other \in Others
  PROVE  Plain(SendConv(other))
<1> DEFINE n == IF Height = 0 THEN 0 ELSE IF other = 0 THEN 1 ELSE NumMPRs
           e(i) == Send(Start + i - 1,
                        Conv(<<1, actbuf[1]>>, ConvLines(other, i)), TRUE)
           s == [i \in 1 .. n |-> e(i)]
<1>1. n \in Nat /\ n <= NumMPRs
  BY ChainFacts
<1>2. ASSUME NEW i \in 1 .. NumMPRs
      PROVE  e(i) \in Steps /\ e(i).do = "send" /\ ~TokenSend(e(i))
  <2>1. Conv(<<1, actbuf[1]>>, ConvLines(other, i)) \in Commands
        /\ ~Token(Conv(<<1, actbuf[1]>>, ConvLines(other, i)))
    BY BufferFacts, ConvLinesType, CommandFacts
  <2>2. Start + i - 1 \in MPRs
    BY ChainFacts
  <2> QED BY <2>1, <2>2, SendFacts
<1> HIDE DEF n, e
<1>3. s \in Seq(Steps) /\ Len(s) = n /\ \A i \in 1 .. n : s[i] = e(i)
  BY <1>1, <1>2, ChainFacts
<1>4. Plain(s)
  BY <1>1, <1>2, <1>3, ChainFacts DEF Plain
<1> QED BY <1>4 DEF SendConv, n, e

LEMMA SyncPart == Part(SendAndWait(SD))
<1> DEFINE a == Send(Start, SD, FALSE)
           w == Step("await")
           s == <<a, w>>
<1>1. /\ a \in Steps /\ a.do = "send" /\ a.to = Start /\ a.isLong = FALSE
      /\ a.cmd.op = "sync" /\ TokenSend(a)
  <2>1. Start \in MPRs /\ SD \in Commands /\ Token(SD) /\ SD.op = "sync"
    BY ChainFacts, TokenFacts
  <2>2. a \in Steps /\ a.do = "send" /\ a.to = Start /\ a.cmd = SD
    BY <2>1, SendFacts
  <2>3. a.isLong = FALSE
    BY DEF Send
  <2> QED BY <2>1, <2>2, <2>3 DEF TokenSend
<1>2. w \in Steps /\ w.do = "await" /\ ~TokenSend(w)
  BY StepFacts
<1> HIDE DEF a, w
<1>3. s \in Seq(Steps) /\ Len(s) = 2 /\ s[1] = a /\ s[2] = w
  BY <1>1, <1>2
<1> HIDE DEF s
<1>4. FollowsAt(s, 1) /\ FollowsAt(s, 2)
  BY <1>1, <1>2, <1>3 DEF FollowsAt
<1>5. \A i \in 1 .. Len(s) : i = 1 \/ i = 2
  BY <1>3
<1>6. Part(s)
  BY <1>1, <1>2, <1>3, <1>4, <1>5 DEF Part, Follows, Begins
<1> QED BY <1>6 DEF SendAndWait, s, a, w

LEMMA RemoveFollows ==
  LET s == SendAndWait(BD) \o <<Step("free")>>
  IN  s \in Seq(Steps) /\ Follows(s) /\ Begins(s)
<1> DEFINE a == Send(Start, BD, FALSE)
           w == Step("await")
           f == Step("free")
           s == <<a, w>> \o <<f>>
<1>1. /\ a \in Steps /\ a.do = "send" /\ a.to = Start /\ a.isLong = FALSE
      /\ a.cmd.op = "break" /\ TokenSend(a)
  <2>1. Start \in MPRs /\ BD \in Commands /\ Token(BD) /\ BD.op = "break"
    BY ChainFacts, TokenFacts
  <2>2. a \in Steps /\ a.do = "send" /\ a.to = Start /\ a.cmd = BD
    BY <2>1, SendFacts
  <2>3. a.isLong = FALSE
    BY DEF Send
  <2> QED BY <2>1, <2>2, <2>3 DEF TokenSend
<1>2. /\ w \in Steps /\ w.do = "await" /\ ~TokenSend(w)
      /\ f \in Steps /\ f.do = "free" /\ ~TokenSend(f)
  BY StepFacts
<1> HIDE DEF a, w, f
<1>3. s \in Seq(Steps) /\ Len(s) = 3 /\ s[1] = a /\ s[2] = w /\ s[3] = f
  BY <1>1, <1>2
<1> HIDE DEF s
<1>4. FollowsAt(s, 1) /\ FollowsAt(s, 2) /\ FollowsAt(s, 3)
  BY <1>1, <1>2, <1>3 DEF FollowsAt
<1>5. \A i \in 1 .. Len(s) : i = 1 \/ i = 2 \/ i = 3
  BY <1>3
<1>6. s \in Seq(Steps) /\ Follows(s) /\ Begins(s)
  BY <1>1, <1>2, <1>3, <1>4, <1>5 DEF Follows, Begins
<1> QED BY <1>6 DEF SendAndWait, s, a, w, f

-----------------------------------------------------------------------------
(* Calls of the program. *)

(* Every call but mdSetupMPRChain is a list of steps. *)
CallOf ==
  /\ \E s \in Seq(Steps) : Follows(s) /\ Begins(s) /\ Call(s)
  /\ active' \in MPRs /\ selected' \in BOOLEAN
  /\ actbuf' \in [{0, 1} -> 0 .. 2]
  /\ \A c \in {0, 1} : actbuf'[c] < numbuf(c)

LEMMA Calling ==
  ASSUME TypeOK, NEW s, Part(s), Call(s), active' \in MPRs,
         selected' \in BOOLEAN,
         actbuf' = actbuf \/ \E c \in {0, 1} : actbuf' = [actbuf EXCEPT ![c] = 0]
  PROVE  CallOf
<1>1. \E t \in Seq(Steps) : Follows(t) /\ Begins(t) /\ Call(t)
  BY DEF Part
<1>2. /\ \A c \in {0, 1} : numbuf(c) \in 1 .. 3
      /\ actbuf \in [{0, 1} -> 0 .. 2] /\ \A c \in {0, 1} : actbuf[c] < numbuf(c)
  BY BufferFacts DEF TypeOK
<1> HIDE DEF numbuf
<1>3. /\ actbuf' \in [{0, 1} -> 0 .. 2]
      /\ \A c \in {0, 1} : actbuf'[c] < numbuf(c)
  BY <1>2
<1> QED BY <1>1, <1>3 DEF CallOf

LEMMA Calls ==
  ASSUME TypeOK, App
  PROVE  mdSetupMPRChain \/ CallOf
<1> USE DEF TypeOK
<1>1. CASE mdRemoveMPRChain
  BY <1>1, RemoveFollows DEF mdRemoveMPRChain, CallOf
<1>2. CASE mdActiveDrawContext
  BY <1>2, BufferFacts, SendSBPlain, PlainPart, Calling DEF mdActiveDrawContext
<1>3. CASE mdDrawPrim
  <2>1. Nth(1) \in MPRs
    BY NthType
  <2>2. Draw(target) \in Commands /\ ~Token(Draw(target))
    BY BufferFacts, CommandFacts
  <2>3. Part(<<Send(Nth(1), Draw(target), TRUE)>>)
    BY <2>1, <2>2, SendPlain, PlainPart
  <2> QED BY <1>3, <2>1, <2>3, Calling DEF mdDrawPrim
<1>4. CASE mdDrawImage
  BY <1>4, ImagePlain, PlainPart, Calling DEF mdDrawImage
<1>5. CASE mdDrawSync
  BY <1>5, SyncPart, Calling DEF mdDrawSync
<1>6. ASSUME NEW c \in {0, 1}, Clear(c)
      PROVE  CallOf
  <2>1. Part(ClearBuffers(c) \o SendAndWait(SD))
    BY ClearPart, SyncPart, Concat
  <2>2. Nth(numbuf(c)) \in MPRs
    <3>1. numbuf(c) \in Nat
      BY BufferFacts
    <3> QED BY <3>1, NthType
  <2> QED BY <1>6, <2>1, <2>2, Calling DEF Clear
<1>7. CASE mdClearDraw
  BY <1>6, <1>7 DEF mdClearDraw
<1>8. CASE mdClearDisp
  <2>1. CASE Clear(1)
    BY <1>6, <2>1
  <2>2. CASE Call(SendAndWait(SD)) /\ UNCHANGED <<active, actbuf, selected>>
    BY <2>2, SyncPart, Calling
  <2> QED BY <1>8, <2>1, <2>2 DEF mdClearDisp
<1>9. CASE SwapDrawBufGRB
  <2>1. PICK other \in Others :
          Call(SendAndWait(SD) \o <<Step("vidsync")>> \o SendConv(other)
               \o SendAndWait(SD) \o <<Step("base"), Step("advance")>>)
    BY <1>9 DEF SwapDrawBufGRB
  <2> DEFINE v == <<Step("vidsync")>>
             b == <<Step("base"), Step("advance")>>
  <2>2. Part(v)
    BY StepPlain, PlainPart
  <2>3. Part(b)
    <3>1. b = Append(<<Step("base")>>, Step("advance"))
      OBVIOUS
    <3>2. Plain(Append(<<Step("base")>>, Step("advance")))
      BY StepPlain, StepFacts, AppendPlain
    <3> QED BY <3>1, <3>2, PlainPart
  <2>4. Part(SendConv(other))
    BY SendConvPlain, PlainPart
  <2> HIDE DEF v, b
  <2>5. Part(SendAndWait(SD) \o v)
    BY <2>2, SyncPart, Concat
  <2>6. Part(SendAndWait(SD) \o v \o SendConv(other))
    BY <2>4, <2>5, Concat
  <2>7. Part(SendAndWait(SD) \o v \o SendConv(other) \o SendAndWait(SD))
    BY <2>6, SyncPart, Concat
  <2>8. Part(SendAndWait(SD) \o v \o SendConv(other) \o SendAndWait(SD) \o b)
    BY <2>3, <2>7, Concat
  <2> QED BY <1>9, <2>1, <2>8, Calling DEF SwapDrawBufGRB, v, b
<1>10. CASE SwapDrawBufYCC
  <2>1. Plain(<<>>)
    BY DEF Plain
  <2>2. Plain(<<Step("base"), Step("vidsync")>>)
    <3>1. <<Step("base"), Step("vidsync")>> = Append(<<Step("base")>>, Step("vidsync"))
      OBVIOUS
    <3>2. Plain(Append(<<Step("base")>>, Step("vidsync")))
      BY StepPlain, StepFacts, AppendPlain
    <3> QED BY <3>1, <3>2
  <2>3. Plain(<<Step("vidsync"), Step("base")>>)
    <3>1. <<Step("vidsync"), Step("base")>> = Append(<<Step("vidsync")>>, Step("base"))
      OBVIOUS
    <3>2. Plain(Append(<<Step("vidsync")>>, Step("base")))
      BY StepPlain, StepFacts, AppendPlain
    <3> QED BY <3>1, <3>2
  <2>4. numbuf(0) = 1 \/ numbuf(0) = 2 \/ numbuf(0) = 3
    BY BufferFacts
  <2>5. Plain(YCCSteps)
    BY <2>1, <2>2, <2>3, <2>4 DEF YCCSteps
  <2>6. Part(Append(YCCSteps, Step("advance")))
    BY <2>5, StepFacts, AppendPlain, PlainPart
  <2> QED BY <1>10, <2>6, Calling DEF SwapDrawBufYCC
<1> QED
  BY <1>1, <1>2, <1>3, <1>4, <1>5, <1>7, <1>8, <1>9, <1>10 DEF App

-----------------------------------------------------------------------------
(* Types. *)

LEMMA InitType == Init => TypeOK
<1> SUFFICES ASSUME Init
             PROVE  TypeOK
  OBVIOUS
<1>1. screen \in Modes
  BY DEF Init
<1>2. \A c \in {0, 1} : numbuf(c) \in 1 .. 3
  BY <1>1, ChainAssumption DEF numbuf, grb
<1> HIDE DEF numbuf
<1>3. actbuf \in [{0, 1} -> 0 .. 2] /\ \A c \in {0, 1} : actbuf[c] < numbuf(c)
  BY <1>2 DEF Init
<1>4. todo \in Seq(Steps) /\ queue \in [MPRs -> Seq(Commands)]
  BY DEF Init
<1>5. strays \in 0 .. MaxStrays
  BY ChainAssumption DEF Init
<1> QED BY <1>1, <1>3, <1>4, <1>5, ChainFacts DEF Init, TypeOK

(* The next step of a call. *)
LEMMA HeadFacts ==
  ASSUME TypeOK, todo # <<>>
  PROVE  /\ todo[1] = Head(todo) /\ Head(todo) \in Steps
         /\ Len(todo) \in Nat /\ Len(todo) >= 1
         /\ Tail(todo) \in Seq(Steps) /\ Len(Tail(todo)) = Len(todo) - 1
         /\ \A i \in 1 .. Len(todo) - 1 : Tail(todo)[i] = todo[i + 1]
         /\ Head(todo).do = "send" =>
              /\ Head(todo).to \in MPRs /\ Head(todo).cmd \in Commands
              /\ Head(todo).isLong \in BOOLEAN
<1>1. todo \in Seq(Steps) /\ Len(todo) \in Nat /\ Len(todo) >= 1
  BY EmptySeq DEF TypeOK
<1>2. /\ Head(todo) \in Steps /\ Tail(todo) \in Seq(Steps)
      /\ Len(Tail(todo)) = Len(todo) - 1
      /\ \A i \in 1 .. Len(Tail(todo)) : Tail(todo)[i] = todo[i + 1]
  BY <1>1, HeadTailProperties
<1>3. todo[1] = Head(todo)
  BY <1>1
<1>4. Head(todo).do = "send" => /\ Head(todo).to \in MPRs /\ Head(todo).cmd \in Commands
                                /\ Head(todo).isLong \in BOOLEAN
  BY <1>2 DEF Steps
<1> QED BY <1>1, <1>2, <1>3, <1>4

(* What a renderer's ring holds when its first command has been executed, or, *)
(* after a conversion, is waited for.                                         *)
LEMMA RestOfQueue ==
  ASSUME NEW q \in Seq(Commands), q # <<>>,
         NEW r, r = Tail(q) \/ r = <<WaitMDMA>> \o Tail(q)
  PROVE  /\ Head(q) \in Commands /\ Head(q) = q[1]
         /\ Len(q) \in Nat /\ Len(q) >= 1
         /\ r \in Seq(Commands) /\ Len(r) \in Nat
         /\ \A i \in 1 .. Len(r) :
              r[i] = WaitMDMA \/ \E j \in 1 .. Len(q) : q[j] = r[i]
         /\ Len(q) > 1 => /\ Len(r) >= 1 /\ r[Len(r)] = q[Len(q)]
                          /\ \A i \in 1 .. Len(r) - 1 :
                               r[i] = WaitMDMA
                                 \/ \E j \in 1 .. Len(q) - 1 : q[j] = r[i]
<1>1. /\ Len(q) \in Nat /\ Len(q) >= 1
      /\ Head(q) \in Commands /\ Tail(q) \in Seq(Commands)
      /\ Len(Tail(q)) = Len(q) - 1
      /\ \A i \in 1 .. Len(q) - 1 : Tail(q)[i] = q[i + 1]
  BY EmptySeq, HeadTailProperties
<1>2. Head(q) = q[1]
  OBVIOUS
<1> DEFINE t == Tail(q)
<1>3. CASE r = t
  <2>1. \A i \in 1 .. Len(r) : i + 1 \in 1 .. Len(q) /\ q[i + 1] = r[i]
    BY <1>1, <1>3
  <2>2. \A i \in 1 .. Len(r) - 1 : i + 1 \in 1 .. Len(q) - 1 /\ q[i + 1] = r[i]
    BY <1>1, <1>3
  <2>3. Len(q) > 1 => Len(r) >= 1 /\ r[Len(r)] = q[Len(q)]
    BY <1>1, <1>3
  <2> QED BY <1>1, <1>2, <1>3, <2>1, <2>2, <2>3
<1>4. /\ t \in Seq(Commands) /\ Len(t) = Len(q) - 1
      /\ \A i \in 1 .. Len(q) - 1 : t[i] = q[i + 1]
  BY <1>1
<1>5. CASE r = <<WaitMDMA>> \o t
  <2> HIDE DEF t
  <2>1. <<WaitMDMA>> \in Seq(Commands) /\ Len(<<WaitMDMA>>) = 1 /\ <<WaitMDMA>>[1] = WaitMDMA
    BY TokenFacts
  <2>2. /\ r \in Seq(Commands) /\ Len(r) = 1 + Len(t)
        /\ \A i \in 1 .. 1 + Len(t) :
             r[i] = IF i <= 1 THEN WaitMDMA ELSE t[i - 1]
    BY <1>5, <1>4, <2>1, ConcatProperties
  <2>3. Len(r) = Len(q)
    BY <1>1, <1>4, <2>2
  <2>4. \A i \in 1 .. Len(r) : IF i = 1 THEN r[i] = WaitMDMA ELSE r[i] = t[i - 1]
    BY <1>1, <1>4, <2>2, <2>3
  <2>5. \A i \in 1 .. Len(r) : i > 1 => t[i - 1] = q[i]
    <3>1. TAKE i \in 1 .. Len(r)
    <3>2. HAVE i > 1
    <3>3. i - 1 \in 1 .. Len(q) - 1 /\ (i - 1) + 1 = i
      BY <1>1, <2>3, <3>1, <3>2
    <3> QED BY <1>4, <3>3
  <2>6. \A i \in 1 .. Len(r) : IF i = 1 THEN r[i] = WaitMDMA ELSE r[i] = q[i]
    BY <1>1, <2>3, <2>4, <2>5
  <2>7. \A i \in 1 .. Len(r) :
          r[i] = WaitMDMA \/ \E j \in 1 .. Len(q) : q[j] = r[i]
    BY <1>1, <2>3, <2>6
  <2>8. \A i \in 1 .. Len(r) - 1 :
          r[i] = WaitMDMA \/ \E j \in 1 .. Len(q) - 1 : q[j] = r[i]
    BY <1>1, <2>3, <2>6
  <2>9. Len(q) > 1 => Len(r) >= 1 /\ r[Len(r)] = q[Len(q)]
    BY <1>1, <2>3, <2>6
  <2>10. Len(q) > 1 =>
           /\ Len(r) >= 1 /\ r[Len(r)] = q[Len(q)]
           /\ \A i \in 1 .. Len(r) - 1 :
                r[i] = WaitMDMA \/ \E j \in 1 .. Len(q) - 1 : q[j] = r[i]
    BY <2>8, <2>9
  <2>11. r \in Seq(Commands) /\ Len(r) \in Nat
    BY <1>1, <2>2, <2>3
  <2> QED BY <1>1, <1>2, <2>7, <2>10, <2>11, Zenon
<1> QED BY <1>3, <1>5

(* The state of a chain has its types again after each kind of step. *)
LEMMA NextType ==
  ASSUME TypeOK, [Next]_vars
  PROVE  TypeOK'
<1> USE DEF TypeOK
<1>1. CASE UNCHANGED vars
  BY <1>1 DEF vars, programVars, mprVars, videoVars, numbuf, grb
<1>2. CASE CallOf
  <2>1. PICK s \in Seq(Steps) : Call(s)
    BY <1>2 DEF CallOf
  <2>2. \A c \in {0, 1} : numbuf(c)' = numbuf(c)
    BY <2>1 DEF Call, numbuf, grb
  <2> HIDE DEF numbuf
  <2> QED BY <1>2, <2>1, <2>2 DEF CallOf, Call, mprVars, videoVars
<1>3. CASE mdSetupMPRChain
  <2>1. allocated' \subseteq MPRs
    BY <1>3 DEF mdSetupMPRChain
  <2>2. active' \in MPRs /\ status' \in [MPRs -> {"off", "run", "halting"}]
    BY <1>3, ChainFacts DEF mdSetupMPRChain
  <2>3. queue' \in [MPRs -> Seq(Commands)]
    <3>1. queue' = [m \in MPRs |-> <<>>] \/ queue' = queue
      BY <1>3 DEF mdSetupMPRChain
    <3>2. [m \in MPRs |-> <<>>] \in [MPRs -> Seq(Commands)]
      OBVIOUS
    <3> QED BY <3>1, <3>2
  <2>4. selected' \in BOOLEAN
    BY <1>3 DEF mdSetupMPRChain
  <2>5. UNCHANGED <<screen, taken, actbuf, synced, todo, sending, inbox, strays,
                    sb, dma, converted, base, displayed, newField, late>>
    BY <1>3 DEF mdSetupMPRChain, videoVars
  <2> QED BY <2>1, <2>2, <2>3, <2>4, <2>5 DEF numbuf, grb
<1>4. CASE SendFirst
  BY <1>4 DEF SendFirst, mprVars, videoVars, numbuf, grb
<1>5. CASE SendLast
  <2>1. todo # <<>> /\ Head(todo).do = "send"
    BY <1>5 DEF SendLast, Doing
  <2>2. /\ Tail(todo) \in Seq(Steps)
        /\ Head(todo).to \in MPRs /\ Head(todo).cmd \in Commands
    BY <2>1, HeadFacts
  <2>3. queue' = [queue EXCEPT ![Head(todo).to] = Append(@, Head(todo).cmd)]
    BY <1>5 DEF SendLast
  <2>4. queue' \in [MPRs -> Seq(Commands)]
    BY <2>2, <2>3, AppendProperties
  <2>5. /\ todo' = Tail(todo) /\ sending' = FALSE /\ synced' = FALSE
        /\ UNCHANGED <<screen, taken, allocated, active, actbuf, selected, inbox,
                       strays, status, sb, dma, converted, base, displayed,
                       newField, late>>
    BY <1>5 DEF SendLast, videoVars
  <2> QED BY <2>2, <2>4, <2>5 DEF numbuf, grb
<1>6. CASE Await
  <2>1. todo # <<>>
    BY <1>6 DEF Await, Doing
  <2>2. Tail(todo) \in Seq(Steps)
    BY <2>1, HeadFacts
  <2> QED BY <1>6, <2>2 DEF Await, mprVars, videoVars, numbuf, grb
<1>7. CASE VidSync
  <2>1. Tail(todo) \in Seq(Steps)
    BY <1>7, HeadFacts DEF VidSync, Doing
  <2> QED BY <1>7, <2>1 DEF VidSync, mprVars, videoVars, numbuf, grb
<1>8. CASE ChangeBase
  <2>1. Tail(todo) \in Seq(Steps)
    BY <1>8, HeadFacts DEF ChangeBase, Doing
  <2>2. <<shown, actbuf[shown]>> \in Buffers
    BY BufferFacts DEF shown
  <2> QED BY <1>8, <2>1, <2>2 DEF ChangeBase, mprVars, numbuf, grb
<1>9. CASE Advance
  <2>1. Tail(todo) \in Seq(Steps)
    BY <1>9, HeadFacts DEF Advance, Doing
  <2>2. \A c \in {0, 1} : numbuf(c) \in 1 .. 3 /\ numbuf(c)' = numbuf(c)
    BY <1>9, BufferFacts DEF Advance, numbuf, grb
  <2>3. shown \in {0, 1}
    BY DEF shown
  <2> HIDE DEF numbuf, shown
  <2>4. /\ actbuf' \in [{0, 1} -> 0 .. 2]
        /\ \A c \in {0, 1} : actbuf'[c] < numbuf(c)
    BY <1>9, <2>2, <2>3 DEF Advance
  <2> QED BY <1>9, <2>1, <2>2, <2>4 DEF Advance, videoVars
<1>10. CASE Free
  <2>1. Tail(todo) \in Seq(Steps)
    BY <1>10, HeadFacts DEF Free, Doing
  <2> QED BY <1>10, <2>1 DEF Free, mprVars, videoVars, numbuf, grb
<1>11. CASE Field
  BY <1>11 DEF Field, programVars, mprVars, numbuf, grb
<1>12. CASE Stray
  BY <1>12, ChainAssumption DEF Stray, programVars, mprVars, videoVars, numbuf, grb
<1>13. ASSUME NEW m \in MPRs, MPR(m) \/ DMADone(m)
       PROVE  TypeOK'
  <2> USE DEF mprUnchanged, programVars, videoVars, numbuf, grb
  <2>1. CASE Halt(m)
    BY <2>1 DEF Halt
  <2>2. CASE DMADone(m)
    BY <2>2 DEF DMADone
  <2>3. ASSUME queue[m] # <<>>
        PROVE  /\ Tail(queue[m]) \in Seq(Commands)
               /\ <<WaitMDMA>> \o Tail(queue[m]) \in Seq(Commands)
               /\ Head(queue[m]) \in Commands
    BY <2>3, RestOfQueue
  <2>4. CASE ExecSB(m)
    <3>1. Head(queue[m]).buf \in Buffers
      BY <2>3, <2>4 DEF ExecSB, Executes, Commands
    <3> QED BY <2>3, <2>4, <3>1 DEF ExecSB, Executes
  <2>5. CASE ExecDraw(m)
    BY <2>3, <2>5 DEF ExecDraw, Executes
  <2>6. CASE ExecConv(m)
    <3>1. Head(queue[m]).buf \in Buffers
      BY <2>3, <2>6 DEF ExecConv, Executes, Commands
    <3>2. converted' \in [Lines -> Nat]
      BY <2>6 DEF ExecConv
    <3> QED BY <2>3, <2>6, <3>1, <3>2 DEF ExecConv, Executes
  <2>7. CASE ExecWait(m)
    BY <2>3, <2>7 DEF ExecWait, Executes
  <2>8. ASSUME queue[m] # <<>>, Forward(m)
        PROVE  /\ queue' \in [MPRs -> Seq(Commands)]
               /\ inbox' \in {"none", "SYNC", "other"}
    <3>1. \A n \in MPRs : Append(queue[n], Head(queue[m])) \in Seq(Commands)
      BY <2>3, <2>8, AppendProperties
    <3>2. CASE IsEnd(m)
      BY <2>3, <2>8, <3>2 DEF Forward
    <3>3. CASE ~IsEnd(m)
      <4>1. /\ m + 1 \in MPRs
            /\ queue' = [queue EXCEPT ![m] = Tail(queue[m]),
                                      ![m + 1] = Append(@, Head(queue[m]))]
            /\ inbox' = inbox
        BY <2>8, <3>3 DEF Forward
      <4>2. m # m + 1
        BY ChainFacts
      <4>3. \A n \in MPRs : queue'[n] = IF n = m THEN Tail(queue[m])
                                       ELSE IF n = m + 1
                                            THEN Append(queue[n], Head(queue[m]))
                                            ELSE queue[n]
        BY <4>1, <4>2
      <4>4. \A n \in MPRs : queue'[n] \in Seq(Commands)
        BY <2>3, <2>8, <3>1, <4>3
      <4> QED BY <4>1, <4>4
    <3> QED BY <3>2, <3>3
  <2>9. CASE ExecSync(m)
    BY <2>8, <2>9 DEF ExecSync, Executes
  <2>10. CASE ExecBreak(m)
    BY <2>8, <2>10 DEF ExecBreak, Executes
  <2> QED
    BY <1>13, <2>1, <2>2, <2>4, <2>5, <2>6, <2>7, <2>9, <2>10 DEF MPR
<1> QED
  BY <1>1, <1>2, <1>3, <1>4, <1>5, <1>6, <1>7, <1>8, <1>9, <1>10, <1>11, <1>12,
     <1>13, Calls DEF Next, Within

-----------------------------------------------------------------------------
(* The steps of a call follow one another as they should. *)

LEMMA After ==
  ASSUME TypeOK, Follows(todo), todo # <<>>, todo' = Tail(todo)
  PROVE  /\ Follows(todo)'
         /\ Doing("await")' => TokenSend(Head(todo))
         /\ Doing("free")' => Doing("await") /\ Removing
         /\ TokenSend(Head(todo)) =>
              /\ Head(todo).to = Start /\ ~Head(todo).isLong
              /\ Doing("await")'
              /\ Head(todo).cmd.op = "break" <=> Removing'
         /\ Doing("free") => todo' = <<>>
<1> DEFINE t == Tail(todo)
<1>1. /\ todo[1] = Head(todo) /\ Len(todo) \in Nat /\ Len(todo) >= 1
      /\ t \in Seq(Steps) /\ Len(t) = Len(todo) - 1
      /\ \A i \in 1 .. Len(todo) - 1 : t[i] = todo[i + 1]
  BY HeadFacts
<1>2. todo \in Seq(Steps)
  BY DEF TypeOK
<1>3. Follows(t)
  BY <1>2, RestFollows
<1> HIDE DEF t
<1>4. FollowsAt(todo, 1)
  BY <1>1 DEF Follows
<1>5. t # <<>> => Len(todo) > 1 /\ Head(t) = t[1] /\ t[1] = todo[2]
  <2>1. HAVE t # <<>>
  <2>2. Len(t) >= 1
    BY <2>1, <1>1, EmptySeq
  <2> QED BY <1>1, <2>2
<1>6. Len(todo) > 1 => t # <<>>
  BY <1>1
<1>7. Len(todo) > 2 <=> Len(t) > 1
  BY <1>1
<1>8. Len(t) > 1 => t[2] = todo[3]
  BY <1>1
<1>9. Follows(todo)'
  BY <1>3 DEF t, Follows, FollowsAt
<1>10. todo' = t
  BY DEF t
<1>11. Doing("await")' => TokenSend(Head(todo))
  BY <1>1, <1>4, <1>5, <1>10 DEF Doing, FollowsAt
<1>12. Doing("free")' => Doing("await") /\ Removing
  BY <1>1, <1>4, <1>5, <1>10 DEF Doing, FollowsAt, Removing
<1>13. TokenSend(Head(todo)) =>
         /\ Head(todo).to = Start /\ ~Head(todo).isLong
         /\ Len(todo) > 1 /\ todo[2].do = "await"
         /\ Head(todo).cmd.op = "break" <=> Len(todo) > 2 /\ todo[3].do = "free"
  BY <1>1, <1>4 DEF FollowsAt
<1>14. Len(todo) > 1 /\ todo[2].do = "await" => Doing("await")'
  BY <1>5, <1>6, <1>10 DEF Doing
<1>15. Len(todo) > 2 /\ todo[3].do = "free" <=> Removing'
  BY <1>7, <1>8, <1>10 DEF Removing
<1>16. Doing("free") => todo' = <<>>
  <2>1. HAVE Doing("free")
  <2>2. ~(Len(todo) > 1)
    BY <1>1, <1>4, <2>1 DEF Doing, FollowsAt
  <2> QED BY <1>5, <1>10, <2>2
<1> QED BY <1>9, <1>11, <1>12, <1>13, <1>14, <1>15, <1>16

LEMMA NextFollows ==
  ASSUME TypeOK, Follows(todo), SendInv, [Next]_vars
  PROVE  Follows(todo)' /\ SendInv'
<1>1. ASSUME todo' = todo, sending' = sending
      PROVE  Follows(todo)' /\ SendInv'
  BY <1>1 DEF Follows, FollowsAt, SendInv, Doing
<1>2. CASE CallOf
  <2>1. PICK s \in Seq(Steps) : Follows(s) /\ Call(s)
    BY <1>2 DEF CallOf
  <2>2. ~sending /\ sending' = sending /\ todo' = s
    BY <2>1 DEF Call, Ready, SendInv, Doing
  <2> QED BY <2>1, <2>2 DEF Follows, FollowsAt, SendInv
<1>3. ASSUME todo # <<>>, todo' = Tail(todo),
             ~sending' \/ (sending' = sending /\ Head(todo).do # "send")
      PROVE  Follows(todo)' /\ SendInv'
  <2>1. ~sending'
    BY <1>3 DEF SendInv, Doing
  <2> QED BY <2>1, <1>3, After DEF SendInv
<1>4. CASE SendFirst
  BY <1>4 DEF SendFirst, Follows, FollowsAt, SendInv, Doing
<1>5. CASE SendLast
  BY <1>3, <1>5 DEF SendLast, Doing
<1>6. CASE Await
  BY <1>1, <1>3, <1>6 DEF Await, Doing
<1>7. CASE VidSync \/ ChangeBase \/ Advance \/ Free
  BY <1>3, <1>7 DEF VidSync, ChangeBase, Advance, Free, Doing
<1>8. CASE mdSetupMPRChain
  BY <1>1, <1>8 DEF mdSetupMPRChain
<1>9. CASE Field \/ Stray \/ UNCHANGED vars
  BY <1>1, <1>9 DEF Field, Stray, vars, programVars
<1>10. ASSUME NEW m \in MPRs, MPR(m) \/ DMADone(m)
       PROVE  Follows(todo)' /\ SendInv'
  BY <1>1, <1>10 DEF MPR, DMADone, ExecSB, ExecDraw, ExecConv, ExecWait, ExecSync,
     ExecBreak, Halt, mprUnchanged, programVars
<1> QED
  BY <1>2, <1>4, <1>5, <1>6, <1>7, <1>8, <1>9, <1>10, Calls DEF Next, Within

-----------------------------------------------------------------------------
(* The token. *)

ChainInv == TokenInv /\ BreakInv /\ SyncMeansDone

LEMMA InitChain == Init => Follows(todo) /\ SendInv /\ ChainInv
<1> SUFFICES ASSUME Init
             PROVE  Follows(todo) /\ SendInv /\ ChainInv
  OBVIOUS
<1>1. Follows(todo) /\ SendInv
  BY DEF Init, Follows, SendInv
<1>2. ~Doing("await") /\ ~Doing("free") /\ Ready
  BY DEF Init, Doing, Ready
<1>3. TokenInv
  BY <1>2 DEF Init, TokenInv, NoToken
<1>4. BreakInv
  BY <1>2 DEF Init, BreakInv, OnlyOwnMPEsRun
<1>5. SyncMeansDone
  BY DEF Init, SyncMeansDone
<1> QED BY <1>1, <1>3, <1>4, <1>5 DEF ChainInv

(* There is only one token. *)
LEMMA OneToken ==
  ASSUME NEW m \in MPRs, NEW n \in MPRs, TokenAt(m), TokenAt(n)
  PROVE  m = n
<1>1. m \in Int /\ n \in Int
  BY ChainFacts
<1>2. queue[m] # <<>> /\ queue[n] # <<>>
  BY DEF TokenAt
<1>3. ~(m < n) /\ ~(n < m)
  BY <1>2 DEF TokenAt, Done
<1> QED BY <1>1, <1>3

(* Steps that the chain does not notice. *)
LEMMA Unnoticed ==
  ASSUME ChainInv, UNCHANGED <<allocated, todo, synced, queue, status, dma>>,
         inbox' = "SYNC" <=> inbox = "SYNC"
  PROVE  ChainInv'
<1>1. /\ \A m \in MPRs : Done(m)' <=> Done(m)
      /\ \A m \in MPRs : NoToken(m)' <=> NoToken(m)
      /\ \A d : Doing(d)' <=> Doing(d)
      /\ Removing' <=> Removing
  BY DEF Done, NoToken, Doing, Removing
<1>2. \A m \in MPRs : TokenAt(m)' <=> TokenAt(m)
  BY <1>1 DEF TokenAt
<1>3. TokenInv'
  BY <1>1, <1>2 DEF ChainInv, TokenInv
<1>4. OnlyOwnMPEsRun' /\ (Ready \/ Up)'
  BY DEF ChainInv, BreakInv, OnlyOwnMPEsRun, Ready, Up
<1>5. BreakInv'
  BY <1>1, <1>2, <1>4 DEF ChainInv, BreakInv
<1>6. SyncMeansDone'
  BY DEF ChainInv, SyncMeansDone
<1> QED BY <1>3, <1>5, <1>6 DEF ChainInv

(* Steps of the program before and after which there is no token. *)
LEMMA WithoutToken ==
  ASSUME ChainInv, UNCHANGED <<allocated, queue, status, dma, inbox>>,
         ~Doing("await"), ~Doing("await")', ~Doing("free")',
         synced' => synced, Up
  PROVE  ChainInv'
<1>1. TokenInv'
  BY DEF ChainInv, TokenInv, NoToken
<1>2. OnlyOwnMPEsRun' /\ Up'
  BY DEF ChainInv, BreakInv, OnlyOwnMPEsRun, Up
<1>3. BreakInv'
  BY <1>2 DEF BreakInv
<1>4. SyncMeansDone'
  BY DEF ChainInv, SyncMeansDone
<1> QED BY <1>1, <1>3, <1>4 DEF ChainInv

LEMMA CallChain ==
  ASSUME IInv, CallOf
  PROVE  ChainInv'
<1>1. PICK s \in Seq(Steps) : Begins(s) /\ Call(s)
  BY DEF CallOf
<1>2. todo = <<>> /\ todo' = s /\ Up
  BY <1>1 DEF Call, Ready
<1>3. ~Doing("await") /\ ~Doing("await")' /\ ~Doing("free")'
  BY <1>1, <1>2 DEF Begins, Doing
<1> QED BY <1>1, <1>2, <1>3, WithoutToken DEF IInv, ChainInv, Call, mprVars

LEMMA SetupChain ==
  ASSUME IInv, mdSetupMPRChain
  PROVE  ChainInv'
<1>1. todo = <<>> /\ todo' = <<>> /\ UNCHANGED <<inbox, dma, synced>>
  BY DEF mdSetupMPRChain, Ready
<1>2. ~Doing("await") /\ ~Doing("await")' /\ ~Doing("free")' /\ Ready'
  BY <1>1 DEF Doing, Ready
<1>3. queue' = queue \/ queue' = [m \in MPRs |-> <<>>]
  BY DEF mdSetupMPRChain
<1>4. TokenInv'
  BY <1>1, <1>2, <1>3 DEF IInv, TokenInv, NoToken
<1>5. OnlyOwnMPEsRun'
  <2>1. CASE Up'
    BY <2>1 DEF Up, OnlyOwnMPEsRun
  <2>2. CASE ~Up'
    BY <2>2 DEF mdSetupMPRChain, IInv, BreakInv, OnlyOwnMPEsRun
  <2> QED BY <2>1, <2>2
<1>6. BreakInv'
  BY <1>2, <1>5 DEF BreakInv
<1>7. SyncMeansDone'
  BY <1>1, <1>3 DEF IInv, SyncMeansDone
<1> QED BY <1>4, <1>6, <1>7 DEF ChainInv

LEMMA SendLastChain ==
  ASSUME IInv, SendLast
  PROVE  ChainInv'
<1>1. todo # <<>> /\ Head(todo).do = "send"
  BY DEF SendLast, Doing
<1>2. PICK s \in Steps : s = Head(todo)
  BY <1>1, HeadFacts DEF IInv
<1>3. PICK m \in MPRs : m = s.to
  BY <1>1, <1>2, HeadFacts DEF IInv
<1>4. /\ todo # <<>> /\ s.do = "send" /\ todo' = Tail(todo)
      /\ queue' = [queue EXCEPT ![m] = Append(@, s.cmd)]
      /\ ~synced' /\ UNCHANGED <<allocated, inbox, status, dma>>
  BY <1>1, <1>2, <1>3 DEF SendLast
<1>5. m \in MPRs /\ s.cmd \in Commands
  BY <1>1, <1>2, HeadFacts DEF IInv
<1>6. ~Doing("await") /\ ~Doing("free")
  BY <1>1 DEF Doing
<1>7. Up /\ Up'
  BY <1>4 DEF IInv, BreakInv, Ready, Up
<1>8. inbox' # "SYNC" /\ \A n \in MPRs : NoToken(n)
  BY <1>4, <1>6 DEF IInv, TokenInv
<1>9. /\ queue \in [MPRs -> Seq(Commands)]
      /\ \A n \in MPRs : n # m => queue'[n] = queue[n]
      /\ queue'[m] = Append(queue[m], s.cmd)
  BY <1>4, <1>5 DEF IInv, TypeOK
<1>10. /\ Len(queue[m]) \in Nat /\ Len(queue'[m]) = Len(queue[m]) + 1
       /\ queue'[m] # <<>> /\ queue'[m][Len(queue[m]) + 1] = s.cmd
       /\ \A i \in 1 .. Len(queue[m]) : queue'[m][i] = queue[m][i]
  <2>1. queue[m] \in Seq(Commands) /\ Len(queue[m]) \in Nat
    BY <1>9
  <2>2. /\ Append(queue[m], s.cmd) # <<>>
        /\ Len(Append(queue[m], s.cmd)) = Len(queue[m]) + 1
        /\ \A i \in 1 .. Len(queue[m]) : Append(queue[m], s.cmd)[i] = queue[m][i]
        /\ Append(queue[m], s.cmd)[Len(queue[m]) + 1] = s.cmd
    BY <1>5, <2>1, AppendProperties
  <2> QED BY <1>9, <2>1, <2>2
<1>11. /\ Doing("await")' => TokenSend(s)
       /\ ~Doing("free")'
       /\ TokenSend(s) => /\ m = Start /\ Doing("await")'
                          /\ s.cmd.op = "break" <=> Removing'
  BY <1>4, <1>6, <1>2, <1>3, After DEF IInv
<1>12. OnlyOwnMPEsRun' /\ SyncMeansDone'
  BY <1>4, <1>7 DEF OnlyOwnMPEsRun, Up, SyncMeansDone
<1>13. TokenSend(s) <=> Token(s.cmd)
  BY <1>4 DEF TokenSend
<1>14. \A n \in MPRs : n # m => NoToken(n)'
  BY <1>8, <1>9 DEF NoToken
<1>15. CASE Token(s.cmd)
  <2>1. m = Start /\ Doing("await")' /\ (s.cmd.op = "break" <=> Removing')
    BY <1>11, <1>13, <1>15
  <2>2. \A i \in 1 .. Len(queue'[m]) - 1 : ~Token(queue'[m][i])
    BY <1>5, <1>8, <1>10 DEF NoToken
  <2>3. \A n \in MPRs : ~(n < m)
    BY <2>1, ChainFacts DEF MPRs
  <2>4. TokenAt(m)'
    BY <1>10, <1>14, <1>15, <2>2, <2>3, ChainFacts DEF TokenAt
  <2>5. TokenInv'
    BY <1>5, <1>8, <2>1, <2>4 DEF TokenInv
  <2>6. \A n \in MPRs : \A i \in 1 .. Len(queue'[n]) :
          Token(queue'[n][i]) => n = m /\ queue'[n][i] = s.cmd
    BY <1>10, <1>14, <2>2 DEF NoToken
  <2>7. \A n \in MPRs : TokenAt(n)' => n = m
    BY <1>5, <2>4, OneToken, ChainFacts DEF TokenAt, Done
  <2>8. BreakInv'
    BY <1>7, <1>8, <1>11, <1>12, <2>1, <2>3, <2>6, <2>7 DEF BreakInv
  <2> QED BY <1>12, <2>5, <2>8 DEF ChainInv
<1>16. CASE ~Token(s.cmd)
  <2>1. ~Doing("await")'
    BY <1>11, <1>13, <1>16
  <2>2. NoToken(m)'
    <3>1. \A i \in 1 .. Len(queue'[m]) : i \in 1 .. Len(queue[m]) \/ i = Len(queue[m]) + 1
      BY <1>10
    <3>2. \A i \in 1 .. Len(queue'[m]) : ~Token(queue'[m][i])
      BY <1>5, <1>8, <1>10, <1>16, <3>1 DEF NoToken
    <3> QED BY <3>2 DEF NoToken
  <2>3. TokenInv'
    BY <1>8, <1>14, <2>1, <2>2 DEF TokenInv
  <2>4. BreakInv'
    BY <1>7, <1>11, <1>12, <2>1 DEF BreakInv
  <2> QED BY <1>12, <2>3, <2>4 DEF ChainInv
<1> QED BY <1>15, <1>16

LEMMA AwaitChain ==
  ASSUME IInv, Await
  PROVE  ChainInv'
<1>1. /\ Doing("await") /\ todo # <<>> /\ inbox' = "none"
      /\ UNCHANGED <<allocated, queue, status, dma>>
  BY DEF Await, Doing, mprVars
<1>2. CASE inbox # "SYNC"
  BY <1>1, <1>2, Unnoticed DEF Await, IInv, ChainInv
<1>3. CASE inbox = "SYNC"
  <2>1. todo' = Tail(todo)
    BY <1>3 DEF Await
  <2>2. \A m \in MPRs : Done(m)
    BY <1>1, <1>3 DEF IInv, TokenInv
  <2>3. ~TokenSend(Head(todo))
    BY <1>1 DEF Doing, TokenSend
  <2>4. ~Doing("await")' /\ (Doing("free")' => Removing)
    BY <1>1, <2>1, <2>3, After DEF IInv
  <2>5. \A m \in MPRs : Done(m)' /\ NoToken(m)'
    BY <1>1, <2>2 DEF Done, NoToken
  <2>6. Up'
    BY <1>1 DEF IInv, BreakInv, Ready, Up
  <2>7. Doing("free")' => \A m \in MPRs : status'[m] # "run"
    BY <1>1, <1>3, <2>4 DEF IInv, BreakInv
  <2>8. TokenInv'
    BY <1>1, <2>4, <2>5 DEF TokenInv
  <2>9. OnlyOwnMPEsRun'
    BY <2>6 DEF Up, OnlyOwnMPEsRun
  <2>10. BreakInv'
    BY <2>4, <2>5, <2>6, <2>7, <2>9 DEF BreakInv
  <2>11. SyncMeansDone'
    BY <2>5 DEF SyncMeansDone, Done
  <2> QED BY <2>8, <2>10, <2>11 DEF ChainInv
<1> QED BY <1>2, <1>3

(* Steps of a call that are neither sent nor awaited. *)
LEMMA OtherStepChain ==
  ASSUME IInv, VidSync \/ ChangeBase \/ Advance
  PROVE  ChainInv'
<1>1. /\ todo # <<>> /\ todo' = Tail(todo)
      /\ Head(todo).do \in {"vidsync", "base", "advance"}
      /\ UNCHANGED <<allocated, inbox, synced, queue, status, dma>>
  BY DEF VidSync, ChangeBase, Advance, Doing, mprVars
<1>2. ~Doing("await") /\ ~TokenSend(Head(todo)) /\ Up
  BY <1>1 DEF Doing, TokenSend, IInv, BreakInv, Ready
<1>3. ~Doing("await")' /\ ~Doing("free")'
  BY <1>1, <1>2, After DEF IInv
<1> QED BY <1>1, <1>2, <1>3, WithoutToken DEF IInv, ChainInv

LEMMA FreeChain ==
  ASSUME IInv, Free
  PROVE  ChainInv'
<1>1. /\ Doing("free") /\ todo # <<>> /\ todo' = Tail(todo)
      /\ UNCHANGED <<inbox, synced, queue, status, dma>>
  BY DEF Free, Doing, mprVars
<1>2. todo' = <<>>
  BY <1>1, After DEF IInv
<1>3. ~Doing("await") /\ ~Doing("await")' /\ ~Doing("free")' /\ Ready'
  BY <1>1, <1>2 DEF Doing, Ready
<1>4. \A m \in MPRs : Done(m) /\ status[m] # "run"
  BY <1>1 DEF IInv, BreakInv
<1>5. TokenInv'
  BY <1>1, <1>3 DEF IInv, TokenInv, NoToken
<1>6. OnlyOwnMPEsRun'
  BY <1>1, <1>4 DEF OnlyOwnMPEsRun, Done
<1>7. SyncMeansDone'
  BY <1>1 DEF IInv, SyncMeansDone
<1> QED BY <1>3, <1>5, <1>6, <1>7 DEF ChainInv, BreakInv

(* A renderer does something else than pass a token on. *)
LEMMA PopChain ==
  ASSUME IInv, NEW m \in MPRs, status[m] = "run",
         queue[m] # <<>>, ~Token(Head(queue[m])),
         NEW r, r = Tail(queue[m]) \/ r = <<WaitMDMA>> \o Tail(queue[m]),
         queue' = [queue EXCEPT ![m] = r],
         \A n \in MPRs : n # m => dma'[n] = dma[n],
         UNCHANGED <<allocated, todo, synced, inbox, status>>
  PROVE  ChainInv'
<1>1. /\ queue \in [MPRs -> Seq(Commands)]
      /\ queue'[m] = r /\ \A n \in MPRs : n # m => queue'[n] = queue[n]
  BY DEF IInv, TypeOK
<1> DEFINE q == queue[m]
<1>2. /\ Head(q) = q[1] /\ Len(q) \in Nat /\ Len(q) >= 1
      /\ r \in Seq(Commands) /\ Len(r) \in Nat
      /\ \A i \in 1 .. Len(r) :
           r[i] = WaitMDMA \/ \E j \in 1 .. Len(q) : q[j] = r[i]
      /\ Len(q) > 1 => /\ Len(r) >= 1 /\ r[Len(r)] = q[Len(q)]
                       /\ \A i \in 1 .. Len(r) - 1 :
                            r[i] = WaitMDMA
                              \/ \E j \in 1 .. Len(q) - 1 : q[j] = r[i]
  BY <1>1, RestOfQueue
<1>3. ~Token(WaitMDMA)
  BY TokenFacts
<1>4. ~Done(m)
  BY DEF Done
<1>5. \A n \in MPRs : NoToken(n) => NoToken(n)'
  <2>1. NoToken(m) => NoToken(m)'
    <3>1. HAVE NoToken(m)
    <3>2. \A j \in 1 .. Len(q) : ~Token(q[j])
      BY <3>1 DEF NoToken
    <3>3. \A i \in 1 .. Len(r) : ~Token(r[i])
      BY <1>2, <1>3, <3>2
    <3> QED BY <1>1, <3>3 DEF NoToken
  <2>2. \A n \in MPRs : n # m /\ NoToken(n) => NoToken(n)'
    BY <1>1 DEF NoToken
  <2> QED BY <2>1, <2>2
<1>6. \A n \in MPRs : n # m /\ Done(n) => Done(n)'
  BY <1>1 DEF Done
<1>7. \A d : Doing(d)' <=> Doing(d)
  BY DEF Doing
<1>8. \A n \in MPRs : TokenAt(n) => TokenAt(n)'
  <2>1. SUFFICES ASSUME NEW n \in MPRs, TokenAt(n)
                 PROVE  TokenAt(n)'
    OBVIOUS
  <2>2. ~(m < n)
    BY <1>4, <2>1 DEF TokenAt
  <2>3. /\ queue'[n] # <<>> /\ Token(queue'[n][Len(queue'[n])])
        /\ \A i \in 1 .. Len(queue'[n]) - 1 : ~Token(queue'[n][i])
    <3>1. CASE n # m
      BY <1>1, <2>1, <3>1 DEF TokenAt
    <3>2. CASE n = m
      <4>1. Token(q[Len(q)]) /\ \A i \in 1 .. Len(q) - 1 : ~Token(q[i])
        BY <2>1, <3>2 DEF TokenAt
      <4>2. Len(q) > 1
        BY <1>2, <4>1
      <4>3. Len(r) >= 1 /\ Token(r[Len(r)])
        BY <1>2, <4>1, <4>2
      <4>4. \A i \in 1 .. Len(r) - 1 : ~Token(r[i])
        BY <1>2, <1>3, <4>1, <4>2
      <4>5. r # <<>>
        BY <4>3
      <4> QED BY <1>1, <3>2, <4>3, <4>4, <4>5
    <3> QED BY <3>1, <3>2
  <2>4. \A k \in MPRs : (k < n => Done(k)') /\ (k > n => NoToken(k)')
    BY <1>5, <1>6, <2>1, <2>2 DEF TokenAt
  <2> QED BY <2>3, <2>4 DEF TokenAt
<1>9. TokenInv'
  BY <1>4, <1>5, <1>7, <1>8 DEF IInv, TokenInv
<1>10. m \in allocated /\ (Ready \/ Up)'
  BY DEF IInv, BreakInv, OnlyOwnMPEsRun, Ready, Up
<1>11. OnlyOwnMPEsRun'
  BY <1>1, <1>10 DEF IInv, BreakInv, OnlyOwnMPEsRun
<1>12. Removing' <=> Removing
  BY DEF Removing
<1>13. ASSUME Doing("await")
       PROVE  \A n \in MPRs : \A i \in 1 .. Len(queue'[n]) :
                Token(queue'[n][i]) => (queue'[n][i].op = "break" <=> Removing)
  <2>1. \A n \in MPRs : \A i \in 1 .. Len(queue[n]) :
          Token(queue[n][i]) => (queue[n][i].op = "break" <=> Removing)
    BY <1>13 DEF IInv, BreakInv
  <2>2. \A i \in 1 .. Len(r) : Token(r[i]) => (r[i].op = "break" <=> Removing)
    <3>1. TAKE i \in 1 .. Len(r)
    <3>2. HAVE Token(r[i])
    <3>3. r[i] # WaitMDMA
      BY <1>3, <3>2
    <3>4. PICK j \in 1 .. Len(q) : q[j] = r[i]
      BY <1>2, <3>3
    <3> QED BY <2>1, <3>2, <3>4
  <2> QED BY <1>1, <2>1, <2>2
<1>14. ASSUME Doing("await"), Removing
       PROVE  /\ inbox # "SYNC"
              /\ \A n \in MPRs : TokenAt(n)' =>
                   \A k \in MPRs : k < n => status[k] # "run"
  <2>1. inbox # "SYNC" /\ \E n \in MPRs : TokenAt(n)
    BY <1>4, <1>14 DEF IInv, TokenInv
  <2>2. \A n \in MPRs : TokenAt(n)' => TokenAt(n)
    <3>1. PICK k \in MPRs : TokenAt(k)
      BY <2>1
    <3>2. TokenAt(k)'
      BY <1>8, <3>1
    <3>3. ASSUME NEW n \in MPRs, TokenAt(n)' PROVE n = k
      <4>1. queue'[n] # <<>>
        BY <3>3, Zenon DEF TokenAt
      <4>2. queue'[k] # <<>>
        BY <3>2, Zenon DEF TokenAt
      <4>3. ~(n < k)
        BY <3>2, <4>1, Zenon DEF TokenAt, Done
      <4>4. ~(k < n)
        BY <3>3, <4>2, Zenon DEF TokenAt, Done
      <4>5. n \in Int /\ k \in Int
        BY ChainFacts
      <4> QED BY <4>3, <4>4, <4>5
    <3> QED BY <3>1, <3>3
  <2> QED BY <1>14, <2>1, <2>2 DEF IInv, BreakInv
<1>15. ~Doing("free")
  BY <1>4 DEF IInv, BreakInv
<1>16. BreakInv'
  BY <1>7, <1>10, <1>11, <1>12, <1>13, <1>14, <1>15 DEF BreakInv
<1>17. SyncMeansDone'
  BY DEF IInv, SyncMeansDone
<1> QED BY <1>9, <1>16, <1>17 DEF ChainInv

LEMMA HaltChain ==
  ASSUME IInv, NEW m \in MPRs, Halt(m)
  PROVE  ChainInv'
<1>1. /\ UNCHANGED <<allocated, todo, synced, inbox, queue, dma>>
      /\ \A n \in MPRs : status'[n] = "run" => status[n] = "run"
  BY DEF Halt, mprUnchanged, programVars, IInv, TypeOK
<1>2. /\ \A n \in MPRs : (Done(n)' <=> Done(n)) /\ (NoToken(n)' <=> NoToken(n))
      /\ \A d : Doing(d)' <=> Doing(d)
      /\ Removing' <=> Removing
  BY <1>1 DEF Done, NoToken, Doing, Removing
<1>3. \A n \in MPRs : TokenAt(n)' <=> TokenAt(n)
  BY <1>1, <1>2 DEF TokenAt
<1>4. TokenInv'
  BY <1>1, <1>2, <1>3 DEF IInv, TokenInv
<1>5. OnlyOwnMPEsRun' /\ (Ready \/ Up)'
  BY <1>1 DEF IInv, BreakInv, OnlyOwnMPEsRun, Ready, Up
<1>6. BreakInv'
  BY <1>1, <1>2, <1>3, <1>5 DEF IInv, BreakInv
<1>7. SyncMeansDone'
  BY <1>1 DEF IInv, SyncMeansDone
<1> QED BY <1>4, <1>6, <1>7 DEF ChainInv

LEMMA DMADoneChain ==
  ASSUME IInv, NEW m \in MPRs, DMADone(m)
  PROVE  ChainInv'
<1>1. /\ UNCHANGED <<allocated, todo, synced, inbox, queue, status>>
      /\ \A n \in MPRs : dma'[n] = dma[n] \/ dma'[n] = {}
  BY DEF DMADone, mprUnchanged, programVars, IInv, TypeOK
<1>2. /\ \A n \in MPRs : (Done(n) => Done(n)') /\ (NoToken(n)' <=> NoToken(n))
      /\ \A d : Doing(d)' <=> Doing(d)
      /\ Removing' <=> Removing
  BY <1>1 DEF Done, NoToken, Doing, Removing
<1>3. \A n \in MPRs : TokenAt(n) => TokenAt(n)'
  BY <1>1, <1>2 DEF TokenAt
<1>4. TokenInv'
  BY <1>1, <1>2, <1>3 DEF IInv, TokenInv
<1>5. OnlyOwnMPEsRun' /\ (Ready \/ Up)'
  BY <1>1 DEF IInv, BreakInv, OnlyOwnMPEsRun, Ready, Up
<1>6. ASSUME Doing("await"), Removing, inbox # "SYNC"
      PROVE  \A n \in MPRs : TokenAt(n)' => TokenAt(n)
  <2>1. PICK k \in MPRs : TokenAt(k)
    BY <1>6 DEF IInv, TokenInv
  <2>2. ASSUME NEW n \in MPRs, TokenAt(n)' PROVE n = k
    <3>1. TokenAt(k)'
      BY <1>3, <2>1
    <3>2. queue'[n] # <<>>
      BY <2>2, Zenon DEF TokenAt
    <3>3. queue'[k] # <<>>
      BY <3>1, Zenon DEF TokenAt
    <3>4. ~(n < k)
      BY <3>1, <3>2, Zenon DEF TokenAt, Done
    <3>5. ~(k < n)
      BY <2>2, <3>3, Zenon DEF TokenAt, Done
    <3>6. n \in Int /\ k \in Int
      BY ChainFacts
    <3> QED BY <3>4, <3>5, <3>6
  <2> QED BY <2>1, <2>2
<1>7. BreakInv'
  BY <1>1, <1>2, <1>5, <1>6 DEF IInv, BreakInv
<1>8. SyncMeansDone'
  BY <1>1 DEF IInv, SyncMeansDone
<1> QED BY <1>4, <1>7, <1>8 DEF ChainInv

(* The token is passed on, to the next renderer or to the program. *)
LEMMA PassChain ==
  ASSUME IInv, NEW m \in MPRs, ExecSync(m) \/ ExecBreak(m)
  PROVE  ChainInv'
<1> DEFINE c == Head(queue[m])
<1>1. /\ status[m] = "run" /\ queue[m] # <<>> /\ dma[m] = {} /\ Forward(m)
      /\ Token(c)
      /\ UNCHANGED <<allocated, todo, synced, dma>>
  BY DEF ExecSync, ExecBreak, Executes, mprUnchanged, programVars, Token
<1>2. /\ queue \in [MPRs -> Seq(Commands)] /\ status \in [MPRs -> {"off", "run", "halting"}]
      /\ Len(queue[m]) \in Nat /\ Len(queue[m]) >= 1
      /\ c = queue[m][1] /\ c \in Commands
  BY <1>1, RestOfQueue DEF IInv, TypeOK
<1>3. ~NoToken(m) /\ ~Done(m)
  BY <1>1, <1>2 DEF NoToken, Done
<1>4. Doing("await") /\ inbox # "SYNC" /\ \E k \in MPRs : TokenAt(k)
  BY <1>3 DEF IInv, TokenInv
<1>5. TokenAt(m)
  BY <1>3, <1>4, ChainFacts DEF TokenAt
<1>6. Tail(queue[m]) = <<>>
  <2>1. ~(Len(queue[m]) > 1)
    <3>1. Token(queue[m][1])
      BY <1>1, <1>2
    <3>2. \A i \in 1 .. Len(queue[m]) - 1 : ~Token(queue[m][i])
      BY <1>5 DEF TokenAt
    <3>3. Len(queue[m]) > 1 => 1 \in 1 .. Len(queue[m]) - 1
      BY <1>2
    <3> QED BY <3>1, <3>2, <3>3
  <2>2. queue[m] \in Seq(Commands)
    BY <1>2
  <2>3. /\ Tail(queue[m]) \in Seq(Commands)
        /\ Len(Tail(queue[m])) = Len(queue[m]) - 1
    BY <1>1, <2>2, HeadTailProperties
  <2>4. ~(Len(Tail(queue[m])) >= 1)
    BY <1>2, <2>1, <2>3
  <2> QED BY <2>3, <2>4, EmptySeq
<1>7. Up /\ Up'
  BY <1>1, <1>4 DEF Doing, IInv, BreakInv, Ready, Up
<1>8. OnlyOwnMPEsRun'
  BY <1>7 DEF Up, OnlyOwnMPEsRun
<1>9. c.op = "break" <=> Removing
  BY <1>1, <1>2, <1>4 DEF IInv, BreakInv
<1>10. /\ \A n \in MPRs : status'[n] = "run" => status[n] = "run"
       /\ Removing => status'[m] # "run"
  BY <1>2, <1>9 DEF ExecSync, ExecBreak, Executes
<1>11. Removing => \A n \in MPRs : n <= m => status'[n] # "run"
  BY <1>4, <1>5, <1>10, ChainFacts DEF IInv, BreakInv
<1>12. Doing("await")' /\ ~Doing("free")' /\ (Removing' <=> Removing)
  BY <1>1, <1>4 DEF Doing, Removing
<1>13. SyncMeansDone'
  BY <1>1 DEF IInv, SyncMeansDone
<1>14. CASE IsEnd(m)
  <2>1. inbox' = "SYNC" /\ queue'[m] = <<>> /\ \A n \in MPRs : n # m => queue'[n] = queue[n]
    BY <1>1, <1>2, <1>6, <1>14 DEF Forward
  <2>2. \A n \in MPRs : n = m \/ n < m
    BY <1>14, ChainFacts DEF IsEnd, MPRs
  <2>3. \A n \in MPRs : Done(n)'
    BY <1>1, <1>5, <2>1, <2>2 DEF TokenAt, Done
  <2>4. TokenInv'
    BY <1>12, <2>1, <2>3 DEF TokenInv
  <2>5. \A n \in MPRs : queue'[n] = <<>>
    BY <2>3 DEF Done
  <2>6. Removing => \A n \in MPRs : status'[n] # "run"
    BY <1>11, <2>2, ChainFacts
  <2>7. BreakInv'
    BY <1>7, <1>8, <1>12, <2>1, <2>5, <2>6 DEF BreakInv
  <2> QED BY <1>13, <2>4, <2>7 DEF ChainInv
<1>15. CASE ~IsEnd(m)
  <2>1. /\ m + 1 \in MPRs /\ inbox' = inbox
        /\ queue' = [queue EXCEPT ![m] = Tail(@), ![m + 1] = Append(@, c)]
    BY <1>1, <1>15 DEF Forward
  <2>2. m # m + 1
    BY ChainFacts
  <2>3. /\ queue'[m] = <<>>
        /\ queue'[m + 1] = Append(queue[m + 1], c)
        /\ \A n \in MPRs : n # m /\ n # m + 1 => queue'[n] = queue[n]
    BY <1>2, <1>6, <2>1, <2>2
  <2> DEFINE k == m + 1
             p == queue[k]
  <2>4. p \in Seq(Commands) /\ Len(p) \in Nat /\ \A i \in 1 .. Len(p) : ~Token(p[i])
    <3>1. NoToken(k)
      BY <1>5, <2>1, ChainFacts DEF TokenAt
    <3> QED BY <1>2, <2>1, <3>1 DEF NoToken
  <2> HIDE DEF c, p
  <2>5. /\ Append(p, c) # <<>> /\ Len(Append(p, c)) = Len(p) + 1
        /\ \A i \in 1 .. Len(p) : Append(p, c)[i] = p[i]
        /\ Append(p, c)[Len(p) + 1] = c
    BY <1>2, <2>4, AppendProperties
  <2>6. queue'[k] = Append(p, c)
    BY <2>3 DEF p
  <2>7. \A i \in 1 .. Len(queue'[k]) :
          IF i = Len(queue'[k]) THEN queue'[k][i] = c ELSE ~Token(queue'[k][i])
    BY <2>4, <2>5, <2>6
  <2>8. queue'[k] # <<>> /\ Len(queue'[k]) \in Nat /\ Len(queue'[k]) >= 1
    BY <2>4, <2>5, <2>6
  <2>9. \A n \in MPRs : n < k => Done(n)'
    BY <1>1, <1>5, <2>3, ChainFacts DEF TokenAt, Done
  <2>10. \A n \in MPRs : n > k => NoToken(n)'
    BY <1>5, <2>3, ChainFacts DEF TokenAt, NoToken
  <2>11. TokenAt(k)'
    BY <1>1, <2>7, <2>8, <2>9, <2>10 DEF TokenAt
  <2>12. TokenInv'
    BY <1>4, <1>12, <2>1, <2>11 DEF TokenInv
  <2>13. \A n \in MPRs : TokenAt(n)' => n = k
    <3>1. TAKE n \in MPRs
    <3>2. HAVE TokenAt(n)'
    <3>3. ~(n < k)
      BY <2>9, <3>2 DEF TokenAt, Done
    <3>4. ~(n > k)
      BY <2>1, <2>8, <3>2 DEF TokenAt, Done
    <3> QED BY <2>1, <3>3, <3>4, ChainFacts
  <2>14. \A n \in MPRs : \A i \in 1 .. Len(queue'[n]) :
           Token(queue'[n][i]) => queue'[n][i] = c
    <3>1. TAKE n \in MPRs
    <3>2. CASE n < k
      BY <2>9, <3>2 DEF Done
    <3>3. CASE n > k
      BY <2>10, <3>3 DEF NoToken
    <3>4. CASE n = k
      BY <2>7, <3>4
    <3>5. n < k \/ n > k \/ n = k
      BY <2>1, ChainFacts
    <3> QED BY <3>2, <3>3, <3>4, <3>5
  <2>15. Removing => \A n \in MPRs : n < k => status'[n] # "run"
    BY <1>11, ChainFacts
  <2>16. BreakInv'
    BY <1>4, <1>7, <1>8, <1>9, <1>12, <2>1, <2>13, <2>14, <2>15 DEF BreakInv
  <2> QED BY <1>13, <2>12, <2>16 DEF ChainInv
<1> QED BY <1>14, <1>15

LEMMA NextChain ==
  ASSUME IInv, [Next]_vars
  PROVE  ChainInv'
<1>1. CASE UNCHANGED vars \/ Field \/ Stray
  BY <1>1, Unnoticed DEF vars, Field, Stray, programVars, mprVars, IInv, ChainInv
<1>2. CASE App
  BY <1>2, Calls, CallChain, SetupChain DEF IInv
<1>3. CASE SendFirst
  <2>1. /\ Doing("send") /\ todo # <<>> /\ ~synced'
        /\ UNCHANGED <<allocated, todo, inbox, queue, status, dma>>
    BY <1>3 DEF SendFirst, Doing, mprVars
  <2>2. /\ Up /\ ~Doing("await") /\ ~Doing("await")' /\ ~Doing("free")'
    BY <2>1 DEF Doing, IInv, BreakInv, Ready
  <2> QED BY <2>1, <2>2, WithoutToken DEF IInv, ChainInv
<1>4. CASE Within /\ ~SendFirst
  BY <1>4, SendLastChain, AwaitChain, OtherStepChain, FreeChain DEF Within
<1>5. ASSUME NEW m \in MPRs, MPR(m) \/ DMADone(m)
      PROVE  ChainInv'
  <2>1. CASE Halt(m)
    BY <2>1, HaltChain
  <2>2. CASE DMADone(m)
    BY <2>2, DMADoneChain
  <2>3. CASE ExecSync(m) \/ ExecBreak(m)
    BY <2>3, PassChain
  <2>4. CASE ExecSB(m) \/ ExecDraw(m) \/ ExecWait(m) \/ ExecConv(m)
    <3>1. /\ status[m] = "run" /\ queue[m] # <<>> /\ ~Token(Head(queue[m]))
      BY <2>4 DEF ExecSB, ExecDraw, ExecWait, ExecConv, Executes, Token
    <3>2. UNCHANGED <<allocated, todo, synced, inbox, status>>
      BY <2>4 DEF ExecSB, ExecDraw, ExecWait, ExecConv, mprUnchanged, programVars
    <3>3. dma \in [MPRs -> SUBSET (Buffers \cup {NoBuffer})]
      BY DEF IInv, TypeOK
    <3>4. \A n \in MPRs : n # m => dma'[n] = dma[n]
      BY <2>4, <3>3 DEF ExecSB, ExecDraw, ExecWait, ExecConv
    <3>5. \/ queue' = [queue EXCEPT ![m] = Tail(queue[m])]
          \/ queue' = [queue EXCEPT ![m] = <<WaitMDMA>> \o Tail(queue[m])]
      BY <2>4 DEF ExecSB, ExecDraw, ExecWait, ExecConv
    <3> QED BY <3>1, <3>2, <3>4, <3>5, PopChain
  <2> QED BY <1>5, <2>1, <2>2, <2>3, <2>4 DEF MPR
<1> QED BY <1>1, <1>2, <1>3, <1>4, <1>5 DEF Next

LEMMA Invariance == Spec => []IInv
<1>1. Init => IInv
  BY InitType, InitChain DEF IInv, ChainInv
<1>2. IInv /\ [Next]_vars => IInv'
  BY NextType, NextFollows, NextChain DEF IInv, ChainInv
<1> QED BY <1>1, <1>2, PTL DEF Spec

-----------------------------------------------------------------------------
(* Types; in particular what is left of a call is a list of steps, and every  *)
(* renderer's ring holds commands of M3DL, whatever the drawing mode.         *)
THEOREM TypeCorrect == Spec => []TypeOK
<1>1. IInv => TypeOK
  BY DEF IInv
<1> QED BY <1>1, Invariance, PTL

(* When mdDrawSync has returned, no renderer has a command or a transfer left. *)
THEOREM SyncMeansDoneCorrect == Spec => []SyncMeansDone
<1>1. IInv => SyncMeansDone
  BY DEF IInv
<1> QED BY <1>1, Invariance, PTL

(* Renderers have stopped, or are about to halt, when their MPEs are given    *)
(* back by mdRemoveMPRChain.                                                  *)
THEOREM OnlyOwnMPEsRunCorrect == Spec => []OnlyOwnMPEsRun
<1>1. IInv => OnlyOwnMPEsRun
  BY DEF IInv, BreakInv
<1> QED BY <1>1, Invariance, PTL

(* No token is passed to a renderer between the packets of a command.         *)
THEOREM CommandsArriveWholeCorrect == Spec => []CommandsArriveWhole
<1>1. IInv => CommandsArriveWhole
  <2>1. SUFFICES ASSUME IInv, sending
                 PROVE  \A m \in MPRs : \A c \in Waiting(m) :
                          c.op \notin {"sync", "break"}
    BY DEF CommandsArriveWhole
  <2>2. ~Doing("await")
    BY <2>1 DEF IInv, SendInv, Doing
  <2>3. \A m \in MPRs : NoToken(m)
    BY <2>1, <2>2 DEF IInv, TokenInv
  <2>4. \A m \in MPRs : DOMAIN queue[m] = 1 .. Len(queue[m])
    BY <2>1, LenProperties DEF IInv, TypeOK
  <2> QED BY <2>3, <2>4 DEF NoToken, Token, Waiting, ToSet
<1> QED BY <1>1, Invariance, PTL

-----------------------------------------------------------------------------
(* Nobody waits in a circle.  All renderers run in a call, up to the last one *)
(* that a break has not yet come to.                                          *)
RunInv ==
  /\ Up /\ ~Doing("free") /\ ~(Doing("await") /\ Removing) =>
       \A m \in MPRs : status[m] = "run"
  /\ Doing("await") /\ Removing =>
       \A m \in MPRs : ~NoToken(m) =>
         \A n \in MPRs : n >= m => status[n] = "run"

(* Steps that the renderers' states and tokens do not notice. *)
LEMMA RunStill ==
  ASSUME RunInv, UNCHANGED <<allocated, todo, status>>,
         \A m \in MPRs : NoToken(m) => NoToken(m)'
  PROVE  RunInv'
<1>1. /\ \A d : Doing(d)' <=> Doing(d)
      /\ Removing' <=> Removing
      /\ Up' <=> Up
  BY DEF Doing, Removing, Up
<1> QED BY <1>1 DEF RunInv

(* Steps while all renderers run. *)
LEMMA AllRun ==
  ASSUME \A m \in MPRs : status'[m] = "run"
  PROVE  RunInv'
BY DEF RunInv

(* The program's steps. *)
LEMMA ProgramRun ==
  ASSUME IInv, RunInv, App \/ Within
  PROVE  RunInv'
<1>1. CASE mdSetupMPRChain
  <2>1. Ready /\ todo' = todo
    BY <1>1 DEF mdSetupMPRChain
  <2>2. ~Doing("await")'
    BY <2>1 DEF Doing, Ready
  <2>3. Up' => \A m \in MPRs : status'[m] = "run"
    BY <1>1 DEF mdSetupMPRChain
  <2> QED BY <2>2, <2>3 DEF RunInv
<1>2. CASE CallOf
  <2>1. Ready /\ Up /\ status' = status
    BY <1>2 DEF CallOf, Call, mprVars
  <2>2. \A m \in MPRs : status[m] = "run"
    BY <2>1 DEF RunInv, Doing, Ready
  <2> QED BY <2>1, <2>2, AllRun
<1>3. CASE SendFirst \/ SendLast \/ VidSync \/ ChangeBase \/ Advance
  <2>1. /\ ~Ready /\ ~Doing("await") /\ ~Doing("free") /\ status' = status
    BY <1>3 DEF SendFirst, SendLast, VidSync, ChangeBase, Advance, Doing, Ready,
       mprVars
  <2>2. \A m \in MPRs : status[m] = "run"
    BY <2>1 DEF RunInv, IInv, BreakInv
  <2> QED BY <2>1, <2>2, AllRun
<1>4. CASE Await
  <2>1. /\ Doing("await") /\ todo # <<>>
        /\ UNCHANGED <<allocated, status, queue>>
    BY <1>4 DEF Await, Doing, mprVars
  <2>2. CASE ~Removing
    <3>1. \A m \in MPRs : status[m] = "run"
      BY <2>1, <2>2 DEF RunInv, IInv, BreakInv, Ready, Doing
    <3> QED BY <2>1, <3>1, AllRun
  <2>3. CASE Removing /\ todo' = todo
    BY <2>1, <2>3, RunStill DEF NoToken
  <2>4. CASE Removing /\ todo' = Tail(todo)
    <3>1. ~TokenSend(Head(todo))
      BY <2>1 DEF Doing, TokenSend
    <3>2. ~Doing("await")'
      BY <2>1, <2>4, <3>1, After DEF IInv
    <3>3. Doing("free")'
      <4>1. /\ Len(todo) > 1 /\ todo[2].do = "free" /\ todo \in Seq(Steps)
        BY <2>4 DEF Removing, IInv, TypeOK
      <4>2. /\ Tail(todo) \in Seq(Steps) /\ Len(Tail(todo)) >= 1
            /\ Tail(todo)[1] = todo[2]
        BY <4>1, HeadTailProperties
      <4>3. Tail(todo) # <<>> /\ Head(Tail(todo)) = todo[2]
        <5> DEFINE t == Tail(todo)
        <5> HIDE DEF t
        <5>1. t \in Seq(Steps) /\ Len(t) >= 1 /\ t[1] = todo[2]
          BY <4>2 DEF t
        <5>2. t # <<>> /\ Head(t) = t[1]
          BY <5>1
        <5> QED BY <5>1, <5>2 DEF t
      <4> QED BY <2>4, <4>1, <4>3 DEF Doing
    <3> QED BY <3>2, <3>3 DEF RunInv
  <2> QED BY <1>4, <2>2, <2>3, <2>4 DEF Await
<1>5. CASE Free
  <2>1. Doing("free") /\ todo # <<>> /\ todo' = Tail(todo) /\ allocated' = {}
    BY <1>5 DEF Free, Doing
  <2>2. todo' = <<>>
    BY <2>1, After DEF IInv
  <2> QED BY <2>1, <2>2, ChainFacts DEF RunInv, Up, Doing
<1>6. IInv => TypeOK
  BY DEF IInv
<1> QED BY <1>1, <1>2, <1>3, <1>4, <1>5, <1>6, Calls DEF Within

(* A renderer that does something else than stop or pass on a token. *)
LEMMA PopRun ==
  ASSUME IInv, RunInv, NEW m \in MPRs,
         ExecSB(m) \/ ExecDraw(m) \/ ExecConv(m) \/ ExecWait(m)
  PROVE  RunInv'
<1>1. /\ queue[m] # <<>> /\ UNCHANGED <<allocated, todo, status>>
  BY DEF ExecSB, ExecDraw, ExecConv, ExecWait, Executes, mprUnchanged, programVars
<1>2. PICK r : /\ r = Tail(queue[m]) \/ r = <<WaitMDMA>> \o Tail(queue[m])
               /\ queue' = [queue EXCEPT ![m] = r]
  BY DEF ExecSB, ExecDraw, ExecConv, ExecWait
<1>3. queue \in [MPRs -> Seq(Commands)]
  BY DEF IInv, TypeOK
<1>4. /\ Len(queue[m]) \in Nat
      /\ \A i \in 1 .. Len(r) :
           r[i] = WaitMDMA \/ \E j \in 1 .. Len(queue[m]) : queue[m][j] = r[i]
  BY <1>1, <1>2, <1>3, RestOfQueue
<1>5. ASSUME NEW n \in MPRs, NoToken(n)
      PROVE  NoToken(n)'
  <2>1. CASE n # m
    BY <1>2, <1>3, <1>5, <2>1 DEF NoToken
  <2>2. CASE n = m
    <3>1. \A i \in 1 .. Len(r) : ~Token(r[i])
      BY <1>4, <1>5, <2>2, TokenFacts DEF NoToken
    <3>2. queue'[n] = r
      BY <1>2, <1>3, <2>2
    <3> QED BY <3>1, <3>2 DEF NoToken
  <2> QED BY <2>1, <2>2
<1> QED BY <1>1, <1>5, RunStill

(* A token goes on to the next renderer, which runs. *)
LEMMA PassRun ==
  ASSUME IInv, RunInv, NEW m \in MPRs, ExecSync(m) \/ ExecBreak(m)
  PROVE  RunInv'
<1> DEFINE c == Head(queue[m])
<1>1. /\ queue[m] # <<>> /\ Token(c) /\ Forward(m)
      /\ UNCHANGED <<allocated, todo>>
  BY DEF ExecSync, ExecBreak, Executes, mprUnchanged, programVars, Token
<1>2. /\ queue \in [MPRs -> Seq(Commands)]
      /\ status \in [MPRs -> {"off", "run", "halting"}]
      /\ Len(queue[m]) \in Nat /\ Len(queue[m]) >= 1 /\ c = queue[m][1]
  BY <1>1, RestOfQueue DEF IInv, TypeOK
<1>3. ~NoToken(m)
  BY <1>1, <1>2 DEF NoToken
<1>4. Doing("await") /\ (c.op = "break" <=> Removing)
  <2>1. Doing("await")
    BY <1>3 DEF IInv, TokenInv
  <2> QED BY <1>1, <1>2, <2>1 DEF IInv, BreakInv
<1>5. CASE ExecSync(m)
  <2>1. status' = status /\ ~Removing
    BY <1>4, <1>5 DEF ExecSync, Executes
  <2>2. \A n \in MPRs : status[n] = "run"
    BY <1>4, <2>1 DEF RunInv, IInv, BreakInv, Ready, Doing
  <2> QED BY <2>1, <2>2, AllRun
<1>6. CASE ExecBreak(m)
  <2>1. Removing
    BY <1>4, <1>6 DEF ExecBreak, Executes
  <2>2. \A n \in MPRs : n > m => status'[n] = "run"
    BY <1>2, <1>3, <1>4, <1>6, <2>1, ChainFacts DEF RunInv, ExecBreak
  <2>3. Doing("await")' /\ Removing'
    BY <1>1, <1>4, <2>1 DEF Doing, Removing
  <2>4. \A n \in MPRs : ~NoToken(n)' => n > m
    <3>1. IInv => ChainInv
      BY DEF IInv, ChainInv
    <3>2. TokenInv'
      BY PassChain DEF ChainInv
    <3>3. CASE inbox' = "SYNC"
      BY <2>3, <3>2, <3>3 DEF TokenInv, Done, NoToken
    <3>4. CASE inbox' # "SYNC"
      <4>1. ~IsEnd(m)
        BY <1>1, <3>4 DEF Forward
      <4>2. PICK k \in MPRs : TokenAt(k)'
        BY <2>3, <3>2, <3>4 DEF TokenInv
      <4>3. \A n \in MPRs : ~NoToken(n)' => n = k
        BY <4>2, ChainFacts DEF TokenAt, Done, NoToken
      <4>4. m + 1 \in MPRs /\ queue' = [queue EXCEPT ![m] = Tail(queue[m]),
                                       ![m + 1] = Append(@, c)]
        BY <1>1, <4>1 DEF Forward
      <4>5. queue'[m + 1] = Append(queue[m + 1], c)
        BY <1>2, <4>4, ChainFacts
      <4>6. queue[m + 1] \in Seq(Commands) /\ c \in Commands
        BY <1>1, <1>2, <4>4, RestOfQueue
      <4>7. /\ Len(queue[m + 1]) \in Nat
            /\ Len(queue'[m + 1]) = Len(queue[m + 1]) + 1
            /\ queue'[m + 1][Len(queue[m + 1]) + 1] = c
        BY <4>5, <4>6, AppendProperties
      <4>8. ~NoToken(m + 1)'
        BY <1>1, <4>7 DEF NoToken
      <4> QED BY <4>3, <4>4, <4>8, ChainFacts
    <3> QED BY <3>3, <3>4
  <2>5. ASSUME NEW k \in MPRs, ~NoToken(k)', NEW n \in MPRs, n >= k
        PROVE  status'[n] = "run"
    BY <2>2, <2>4, <2>5, ChainFacts
  <2> QED BY <2>3, <2>5 DEF RunInv
<1> QED BY <1>5, <1>6

LEMMA HaltRun ==
  ASSUME IInv, RunInv, NEW m \in MPRs, Halt(m)
  PROVE  RunInv'
<1>1. /\ status[m] # "run" /\ UNCHANGED <<allocated, todo, queue>>
      /\ \A n \in MPRs : status[n] = "run" => status'[n] = "run"
  BY DEF Halt, mprUnchanged, programVars, IInv, TypeOK
<1>2. /\ \A d : Doing(d)' <=> Doing(d)
      /\ Removing' <=> Removing
      /\ Up' <=> Up
      /\ \A n \in MPRs : NoToken(n)' <=> NoToken(n)
  BY <1>1 DEF Doing, Removing, Up, NoToken
<1> QED BY <1>1, <1>2 DEF RunInv

LEMMA NextRun ==
  ASSUME IInv, RunInv, [Next]_vars
  PROVE  RunInv'
<1>1. CASE Field \/ Stray \/ UNCHANGED vars
  BY <1>1, RunStill DEF Field, Stray, vars, programVars, mprVars, NoToken
<1>2. ASSUME NEW m \in MPRs, DMADone(m)
      PROVE  RunInv'
  BY <1>2, RunStill DEF DMADone, mprUnchanged, programVars, NoToken
<1>3. ASSUME NEW m \in MPRs, MPR(m)
      PROVE  RunInv'
  BY <1>3, PopRun, PassRun, HaltRun DEF MPR
<1> QED BY <1>1, <1>2, <1>3, ProgramRun DEF Next

LEMMA RunInvariance == Spec => []RunInv
<1>1. Init => RunInv
  <2>1. Init => ~Up /\ ~Doing("await")
    BY ChainFacts DEF Init, Up, Doing
  <2> QED BY <2>1 DEF RunInv
<1>2. IInv /\ RunInv /\ [Next]_vars => RunInv'
  BY NextRun
<1> QED BY <1>1, <1>2, Invariance, PTL DEF Spec

(* A renderer that runs and has no token can go on if its ring is not empty.  *)
LEMMA OrdinaryGoesOn ==
  ASSUME IInv, NEW m \in MPRs, status[m] = "run", queue[m] # <<>>,
         ~Token(Head(queue[m]))
  PROVE  RendererCanGoOn(m)
<1>1. Head(queue[m]) \in Commands
  BY RestOfQueue DEF IInv, TypeOK
<1>2. Head(queue[m]).op \in {"sb", "draw", "conv", "wait"}
  BY <1>1 DEF Commands, Token
<1> QED BY <1>2 DEF RendererCanGoOn, Executes

(* Whoever waits in a call, there is somebody who can go on, the program or a *)
(* renderer, for chains of any length and rings of any size (mprsncdr.s).     *)
THEOREM NoDeadlockCorrect == Spec => []NoDeadlock
<1>1. ASSUME IInv, RunInv, ~Ready
      PROVE  ProgramCanGoOn \/ \E m \in MPRs : RendererCanGoOn(m)
  <2>1. todo # <<>> /\ Up
    BY <1>1 DEF Ready, IInv, BreakInv
  <2>2. queue \in [MPRs -> Seq(Commands)]
    BY <1>1 DEF IInv, TypeOK
  <2>3. \A m \in MPRs : ~(Len(queue[m]) < QueueLen) => queue[m] # <<>>
    <3>1. TAKE m \in MPRs
    <3>2. queue[m] = <<>> => Len(queue[m]) = 0
      OBVIOUS
    <3> QED BY <3>2, ChainAssumption
  <2>4. \A m \in MPRs : queue[m] # <<>> =>
          /\ Len(queue[m]) \in Nat /\ Len(queue[m]) >= 1
          /\ Head(queue[m]) = queue[m][1]
    BY <2>2, RestOfQueue
  <2>5. CASE Doing("send")
    <3> DEFINE m == Head(todo).to
    <3>1. m \in MPRs
      BY <1>1, <2>1, <2>5, HeadFacts DEF IInv, Doing
    <3>2. ~Doing("await") /\ ~Doing("free") /\ ~Doing("vidsync")
      BY <2>5 DEF Doing
    <3>3. status[m] = "run" /\ NoToken(m)
      BY <1>1, <2>1, <3>1, <3>2 DEF IInv, TokenInv, RunInv
    <3> HIDE DEF m
    <3>4. CASE Len(queue[m]) < QueueLen
      BY <3>2, <3>4 DEF ProgramCanGoOn, m
    <3>5. CASE ~(Len(queue[m]) < QueueLen)
      <4>1. queue[m] # <<>> /\ ~Token(Head(queue[m]))
        BY <2>3, <2>4, <3>1, <3>3, <3>5 DEF NoToken
      <4> QED BY <1>1, <3>1, <3>3, <4>1, OrdinaryGoesOn
    <3> QED BY <3>4, <3>5
  <2>6. CASE Doing("await")
    <3>1. CASE inbox # "none"
      BY <2>6, <3>1 DEF ProgramCanGoOn, Doing
    <3>2. CASE inbox = "none"
      <4>1. PICK m \in MPRs : TokenAt(m)
        BY <1>1, <2>6, <3>2 DEF IInv, TokenInv
      <4>2. queue[m] # <<>> /\ ~NoToken(m)
        BY <2>4, <4>1 DEF TokenAt, NoToken
      <4>3. ~Doing("free")
        BY <2>6 DEF Doing
      <4>4. \A n \in MPRs : n >= m => status[n] = "run"
        BY <1>1, <2>1, <2>6, <4>2, <4>3 DEF RunInv
      <4>5. status[m] = "run"
        BY <4>4, ChainFacts
      <4>6. CASE ~Token(Head(queue[m]))
        BY <1>1, <4>2, <4>5, <4>6, OrdinaryGoesOn
      <4>7. CASE Token(Head(queue[m])) /\ IsEnd(m)
        BY <3>2, <4>2, <4>5, <4>7 DEF RendererCanGoOn, Executes, Token
      <4>8. CASE Token(Head(queue[m])) /\ ~IsEnd(m)
        <5>1. m + 1 \in MPRs /\ m + 1 > m
          BY <4>8, ChainFacts DEF IsEnd, MPRs
        <5>2. status[m + 1] = "run" /\ NoToken(m + 1)
          BY <4>1, <4>4, <5>1, ChainFacts DEF TokenAt
        <5>3. CASE Len(queue[m + 1]) < QueueLen
          BY <4>2, <4>5, <4>8, <5>1, <5>3 DEF RendererCanGoOn, Executes, Token
        <5>4. CASE ~(Len(queue[m + 1]) < QueueLen)
          <6>1. queue[m + 1] # <<>> /\ ~Token(Head(queue[m + 1]))
            BY <2>3, <2>4, <5>1, <5>2, <5>4 DEF NoToken
          <6> QED BY <1>1, <5>1, <5>2, <6>1, OrdinaryGoesOn
        <5> QED BY <5>3, <5>4
      <4> QED BY <4>6, <4>7, <4>8
    <3> QED BY <3>1, <3>2
  <2>7. CASE ~Doing("send") /\ ~Doing("await")
    BY <2>7 DEF ProgramCanGoOn
  <2> QED BY <2>5, <2>6, <2>7
<1>2. IInv /\ RunInv => NoDeadlock
  BY <1>1 DEF NoDeadlock
<1> QED BY <1>2, Invariance, RunInvariance, PTL
=============================================================================
