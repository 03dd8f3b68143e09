-------------------------- MODULE MprFrameProofs --------------------------
(***************************************************************************)
(* Proofs about the frames that a chain of renderers draws, for a chain of *)
(* any length, rings of any size, any number of lines and every drawing    *)
(* mode: primitives are drawn where they were meant to be, lines are       *)
(* converted when the frame is finished, each of them once, and no frame   *)
(* is torn or lost.                                                        *)
(*                                                                         *)
(* What the renderers draw to follows from the commands still to come:     *)
(* they lead each renderer from the screen buffer it has to the one that   *)
(* the program has selected.  What they convert, and what is shown,        *)
(* follows from how far the program has come with a swap.                  *)
(***************************************************************************)
EXTENDS MprChainProofs, WellFoundedInduction

(* What command c makes of the screen buffer b of a renderer. *)
Carry(b, c) == IF c.op = "sb" THEN c.buf ELSE b

Selection == Buffers \cup {NoBuffer}

(* Commands q take a renderer from screen buffer a to z, and each primitive   *)
(* among them is drawn where it was meant to be.                              *)
Track(q, a, z) ==
  \E f \in [1 .. Len(q) + 1 -> Selection] :
    /\ f[1] = a /\ f[Len(q) + 1] = z
    /\ \A i \in 1 .. Len(q) : /\ f[i + 1] = Carry(f[i], q[i])
                              /\ q[i].op = "draw" => q[i].buf = f[i]

(* The steps s of a call as renderer m sees them. *)
View(s, m) ==
  [i \in 1 .. Len(s) |->
     IF s[i].do = "send" /\ s[i].to = m THEN s[i].cmd ELSE WaitMDMA]

(* What each renderer has to do, and then what it will be sent, leads it to   *)
(* the buffer that the program has selected.                                  *)
Flow(m) ==
  \E b, z \in Selection :
    /\ Track(queue[m], sb[m], b)
    /\ Track(View(todo, m), b, z)
    /\ selected => z = target

FlowInv ==
  /\ \A m \in MPRs : Flow(m)
  /\ ~grb => \A i \in 1 .. Len(todo) : todo[i].do = "advance" => ~selected

(* The call in progress is not a swap. *)
SwapStep(s) ==
  s.do \in {"vidsync", "base", "advance"} \/ (s.do = "send" /\ s.cmd.op = "conv")

Ordinary == \A i \in 1 .. Len(todo) : ~SwapStep(todo[i])

(* What is left of SwapDrawBufYCC. *)
YCCStage ==
  /\ ~grb /\ ~selected
  /\ \/ todo = <<Step("advance")>>
     \/ numbuf(0) = 2 /\ todo = <<Step("vidsync"), Step("advance")>>
     \/ numbuf(0) = 2 /\ todo = <<Step("base"), Step("vidsync"), Step("advance")>>
     \/ numbuf(0) = 3 /\ newField /\ todo = <<Step("base"), Step("advance")>>
     \/ numbuf(0) = 3 /\ todo = <<Step("vidsync"), Step("base"), Step("advance")>>

(* What is left of SwapDrawBufGRB, that converts a frame in parts; GRBStep is *)
(* the step that r - 1 others follow.                                         *)
Parts(other) == IF Height = 0 THEN 0 ELSE IF other = 0 THEN 1 ELSE NumMPRs

Part1(other, i) == Conv(<<1, actbuf[1]>>, ConvLines(other, i))

GRBStep(other, r) ==
  LET n == Parts(other)
      i == n + 5 - r
  IN  IF r \in 5 .. n + 4 THEN Send(Start + i - 1, Part1(other, i), TRUE)
      ELSE IF r \in {4, n + 7} THEN Send(Start, SD, FALSE)
      ELSE IF r \in {3, n + 6} THEN Step("await")
      ELSE IF r = n + 5 THEN Step("vidsync")
      ELSE IF r = 2 THEN Step("base")
      ELSE Step("advance")

GRBStage(other) ==
  LET r == Len(todo)
  IN  /\ grb /\ selected
      /\ r \in 1 .. Parts(other) + 7
      /\ \A j \in 1 .. r : todo[j] = GRBStep(other, r + 1 - j)
      /\ r \in {Parts(other) + 5, 2, 1} => synced
      /\ r \in 2 .. Parts(other) + 4 => newField

(* Part i of the conversion has been sent. *)
Sent(other, i) == Len(todo) <= Parts(other) + 4 - i

(* There is one conversion at most in a ring. *)
OneConv(q) ==
  \A i, j \in 1 .. Len(q) : q[i].op = "conv" /\ q[j].op = "conv" => i = j

(* The conversions in the rings are the parts that have been sent, each at    *)
(* its renderer, and the lines of those that are done have been converted     *)
(* once.                                                                      *)
PartsInv(other) ==
  /\ \A m \in MPRs :
       /\ OneConv(queue[m])
       /\ \A c \in Waiting(m) : c.op = "conv" =>
            \E i \in 1 .. Parts(other) :
               m = Start + i - 1 /\ Sent(other, i) /\ c = Part1(other, i)
  /\ Len(todo) > 1 =>
       \A i \in 1 .. Parts(other) : \A l \in ConvLines(other, i) :
         converted[l] =
           IF Sent(other, i) /\ Part1(other, i) \notin Waiting(Start + i - 1)
           THEN 1 ELSE 0

(* When the conversion begins, the frame is finished. *)
FinishedInv(other) ==
  Len(todo) <= Parts(other) + 5 =>
    \A m \in MPRs : /\ sb[m] = target
                     /\ dma[m] \subseteq {<<1, actbuf[1]>>}
                     /\ \A c \in Waiting(m) : c.op \notin {"sb", "draw"}

(* Without a conversion there are none in the rings, and no lines converted.  *)
NoConversion ==
  /\ \A m \in MPRs : \A c \in Waiting(m) : c.op # "conv"
  /\ \A l \in Lines : converted[l] = 0

CallInv ==
  \/ (Ordinary \/ YCCStage) /\ NoConversion
  \/ \E other \in Others : GRBStage(other) /\ PartsInv(other) /\ FinishedInv(other)

StageInv == Ordinary \/ YCCStage \/ \E other \in Others : GRBStage(other)

(* The program has still to wait for the renderers before its call returns,   *)
(* as when it clears.                                                         *)
AwaitLast == todo # <<>> /\ todo[Len(todo)].do = "await"

(* But for clearing, which comes before anything is shown, what is drawn to,  *)
(* now or later, is the active buffer, and what is written to besides, and    *)
(* only after the field has begun that shows the last frame, is the one it is *)
(* converted to; or it has been handed over early.                            *)
Drawable == IF base = NoBuffer /\ AwaitLast THEN Buffers ELSE {target}

Writable ==
  Drawable \cup (IF grb /\ newField THEN {<<1, actbuf[1]>>} ELSE {})

WriteInv ==
  /\ \A m \in MPRs :
       /\ dma[m] \subseteq Writable \cup late
       /\ \A c \in Waiting(m) : Writes(c) \subseteq Writable \cup late
  /\ \A i \in 1 .. Len(todo) : todo[i].do = "send" =>
       /\ todo[i].cmd.op = "draw" => todo[i].cmd.buf \in Drawable
       /\ todo[i].cmd.op = "conv" => todo[i].cmd.buf = <<1, actbuf[1]>>

(* The buffer handed to the video encoder is the one before the active one,   *)
(* and the active one itself from then on until the swap goes on to the next; *)
(* and it is finished by then or known to be late.                            *)
Pred(i) == IF i = 0 THEN numbuf(shown) - 1 ELSE i - 1

Handed == Doing("advance") \/ (~grb /\ numbuf(0) = 2 /\ Doing("vidsync"))

HandedInv ==
  Handed => IF base = NoBuffer THEN numbuf(shown) = 1
            ELSE synced \/ base \in late

VideoInv ==
  /\ HandedInv
  /\ base = NoBuffer => displayed = NoBuffer /\ newField
  /\ numbuf(shown) = 1 => base = NoBuffer
  /\ base # NoBuffer =>
       base = <<shown, IF Handed THEN actbuf[shown] ELSE Pred(actbuf[shown])>>
  /\ displayed # NoBuffer => displayed[1] = shown
  /\ newField => displayed = base
  /\ ~grb /\ numbuf(0) = 2 => newField \/ Doing("vidsync")
  /\ ~grb /\ numbuf(0) = 3 /\ base # NoBuffer =>
       displayed \in {NoBuffer, base, <<0, Pred(base[2])>>}


-----------------------------------------------------------------------------
(* Tracks. *)

(* The fields of a command. *)
LEMMA CommandShape ==
  ASSUME NEW c \in Commands
  PROVE  /\ c.op \in {"sb", "draw", "conv"} => c.buf \in Buffers
         /\ c.op \in {"sb", "draw", "conv", "sync", "break", "wait"}
BY DEF Commands

(* The ends of a track are screen buffers; an empty one leads nowhere. *)
LEMMA TrackEnds ==
  ASSUME NEW q, NEW a, NEW z, Len(q) \in Nat, Track(q, a, z)
  PROVE  a \in Selection /\ z \in Selection /\ (q = <<>> => a = z)
BY DEF Track

(* Commands that draw to a and select nothing lead from a to a. *)
LEMMA TrackSteady ==
  ASSUME NEW q, Len(q) \in Nat, NEW a \in Selection,
         \A i \in 1 .. Len(q) : /\ q[i].op # "sb"
                                /\ q[i].op = "draw" => q[i].buf = a
  PROVE  Track(q, a, a)
<1> DEFINE f == [i \in 1 .. Len(q) + 1 |-> a]
<1>1. /\ f \in [1 .. Len(q) + 1 -> Selection]
      /\ f[1] = a /\ f[Len(q) + 1] = a
      /\ \A i \in 1 .. Len(q) : f[i] = a /\ f[i + 1] = a
  OBVIOUS
<1> HIDE DEF f
<1>2. \A i \in 1 .. Len(q) : /\ f[i + 1] = Carry(f[i], q[i])
                             /\ q[i].op = "draw" => q[i].buf = f[i]
  BY <1>1 DEF Carry
<1> QED BY <1>1, <1>2 DEF Track

(* No commands are a track from any buffer to itself. *)
LEMMA TrackNil ==
  ASSUME NEW q, q = <<>>, NEW a \in Selection
  PROVE  Track(q, a, a)
<1>1. Len(q) = 0
  OBVIOUS
<1>2. Len(q) \in Nat /\ \A i \in 1 .. Len(q) : FALSE
  BY <1>1
<1> QED BY <1>2, TrackSteady

(* A single command is a track. *)
LEMMA TrackOne ==
  ASSUME NEW c \in Commands, NEW a \in Selection, c.op = "draw" => c.buf = a
  PROVE  Track(<<c>>, a, Carry(a, c))
<1> DEFINE q == <<c>>
           f == [i \in 1 .. Len(q) + 1 |-> IF i = 1 THEN a ELSE Carry(a, c)]
<1>1. Carry(a, c) \in Selection
  BY CommandShape DEF Carry, Selection
<1>2. Len(q) = 1 /\ q[1] = c
  OBVIOUS
<1> HIDE DEF q
<1>3. /\ f \in [1 .. Len(q) + 1 -> Selection]
      /\ f[1] = a /\ f[Len(q) + 1] = Carry(a, c)
      /\ \A i \in 1 .. Len(q) : i = 1 /\ f[i] = a /\ f[i + 1] = Carry(a, c)
  BY <1>1, <1>2
<1> HIDE DEF f
<1>4. Track(q, a, Carry(a, c))
  BY <1>2, <1>3 DEF Track
<1> QED BY <1>4 DEF q

(* The first of the commands has been executed. *)
LEMMA TrackTail ==
  ASSUME NEW q \in Seq(Commands), q # <<>>, NEW a, NEW z, Track(q, a, z)
  PROVE  /\ Track(Tail(q), Carry(a, Head(q)), z)
         /\ Head(q).op = "draw" => Head(q).buf = a
<1>1. PICK f \in [1 .. Len(q) + 1 -> Selection] :
        /\ f[1] = a /\ f[Len(q) + 1] = z
        /\ \A i \in 1 .. Len(q) : /\ f[i + 1] = Carry(f[i], q[i])
                                  /\ q[i].op = "draw" => q[i].buf = f[i]
  BY DEF Track
<1> DEFINE t == Tail(q)
           g == [i \in 1 .. Len(t) + 1 |-> f[i + 1]]
<1>2. /\ Len(q) \in Nat /\ Len(q) >= 1 /\ Len(t) = Len(q) - 1
      /\ \A i \in 1 .. Len(t) : t[i] = q[i + 1]
      /\ Head(q) = q[1]
  BY EmptySeq, HeadTailProperties
<1> HIDE DEF t
<1>3. /\ g \in [1 .. Len(t) + 1 -> Selection]
      /\ g[1] = f[2] /\ g[Len(t) + 1] = z
      /\ \A i \in 1 .. Len(t) : g[i] = f[i + 1] /\ g[i + 1] = f[(i + 1) + 1]
  BY <1>1, <1>2
<1>4. f[2] = Carry(a, Head(q)) /\ (Head(q).op = "draw" => Head(q).buf = a)
  BY <1>1, <1>2
<1>5. \A i \in 1 .. Len(t) : i + 1 \in 1 .. Len(q)
  BY <1>2
<1> HIDE DEF g
<1>6. \A i \in 1 .. Len(t) : /\ g[i + 1] = Carry(g[i], t[i])
                             /\ t[i].op = "draw" => t[i].buf = g[i]
  BY <1>1, <1>2, <1>3, <1>5
<1>7. Track(t, Carry(a, Head(q)), z)
  BY <1>3, <1>4, <1>6 DEF Track
<1> QED BY <1>4, <1>7 DEF t

(* Tracks that meet can be joined. *)
LEMMA TrackConcat ==
  ASSUME NEW p \in Seq(Commands), NEW q \in Seq(Commands),
         NEW a, NEW b, NEW z, Track(p, a, b), Track(q, b, z)
  PROVE  Track(p \o q, a, z)
<1>1. PICK f \in [1 .. Len(p) + 1 -> Selection] :
        /\ f[1] = a /\ f[Len(p) + 1] = b
        /\ \A i \in 1 .. Len(p) : /\ f[i + 1] = Carry(f[i], p[i])
                                  /\ p[i].op = "draw" => p[i].buf = f[i]
  BY DEF Track
<1>2. PICK g \in [1 .. Len(q) + 1 -> Selection] :
        /\ g[1] = b /\ g[Len(q) + 1] = z
        /\ \A i \in 1 .. Len(q) : /\ g[i + 1] = Carry(g[i], q[i])
                                  /\ q[i].op = "draw" => q[i].buf = g[i]
  BY DEF Track
<1> DEFINE s == p \o q
           h == [i \in 1 .. Len(s) + 1 |->
                   IF i <= Len(p) + 1 THEN f[i] ELSE g[i - Len(p)]]
<1>3. /\ Len(p) \in Nat /\ Len(q) \in Nat /\ Len(s) = Len(p) + Len(q)
      /\ \A i \in 1 .. Len(p) + Len(q) :
           s[i] = IF i <= Len(p) THEN p[i] ELSE q[i - Len(p)]
  BY ConcatProperties
<1> HIDE DEF s
<1>4. \A i \in 1 .. Len(s) + 1 : ~(i <= Len(p) + 1) => i - Len(p) \in 1 .. Len(q) + 1
  BY <1>3
<1>5. \A i \in 1 .. Len(s) + 1 : i <= Len(p) + 1 => i \in 1 .. Len(p) + 1
  BY <1>3
<1>6. h \in [1 .. Len(s) + 1 -> Selection]
  BY <1>1, <1>2, <1>4, <1>5
<1>7. \A i \in 1 .. Len(s) + 1 : h[i] = IF i <= Len(p) + 1 THEN f[i] ELSE g[i - Len(p)]
  OBVIOUS
<1>8. h[1] = a
  BY <1>1, <1>3, <1>7
<1>9. h[Len(s) + 1] = z
  <2>1. Len(s) + 1 \in 1 .. Len(s) + 1 /\ (Len(s) + 1) - Len(p) = Len(q) + 1
    BY <1>3
  <2>2. CASE Len(q) = 0
    BY <1>1, <1>2, <1>3, <1>7, <2>1, <2>2
  <2>3. CASE Len(q) # 0
    BY <1>2, <1>3, <1>7, <2>1, <2>3
  <2> QED BY <2>2, <2>3
<1> HIDE DEF h
<1>10. ASSUME NEW i \in 1 .. Len(s)
       PROVE  /\ h[i + 1] = Carry(h[i], s[i])
              /\ s[i].op = "draw" => s[i].buf = h[i]
  <2>1. i \in 1 .. Len(s) + 1 /\ i + 1 \in 1 .. Len(s) + 1 /\ i \in 1 .. Len(p) + Len(q)
    BY <1>3
  <2>2. CASE i <= Len(p)
    <3>1. i \in 1 .. Len(p) /\ i + 1 <= Len(p) + 1 /\ i <= Len(p) + 1
      BY <1>3, <2>2
    <3>2. h[i] = f[i] /\ h[i + 1] = f[i + 1] /\ s[i] = p[i]
      BY <1>3, <1>7, <2>1, <2>2, <3>1
    <3> QED BY <1>1, <3>1, <3>2
  <2>3. CASE ~(i <= Len(p))
    <3> DEFINE j == i - Len(p)
    <3>1. j \in 1 .. Len(q) /\ (i + 1) - Len(p) = j + 1 /\ ~(i + 1 <= Len(p) + 1)
      BY <1>3, <2>1, <2>3
    <3>2. s[i] = q[j] /\ h[i + 1] = g[j + 1]
      BY <1>3, <1>7, <2>1, <2>3, <3>1
    <3>3. h[i] = g[j]
      <4>1. CASE i <= Len(p) + 1
        <5>1. i = Len(p) + 1 /\ j = 1
          BY <1>3, <2>3, <4>1
        <5> QED BY <1>1, <1>2, <1>7, <2>1, <4>1, <5>1
      <4>2. CASE ~(i <= Len(p) + 1)
        BY <1>7, <2>1, <4>2
      <4> QED BY <4>1, <4>2
    <3> HIDE DEF j
    <3> QED BY <1>2, <3>1, <3>2, <3>3
  <2> QED BY <2>2, <2>3
<1>11. Track(s, a, z)
  BY <1>6, <1>8, <1>9, <1>10 DEF Track
<1> QED BY <1>11 DEF s

(* A command is added, and one that has been executed is replaced by a wait.  *)
LEMMA TrackAppend ==
  ASSUME NEW q \in Seq(Commands), NEW c \in Commands, NEW a, NEW z,
         Track(q, a, z), c.op = "draw" => c.buf = z
  PROVE  Track(Append(q, c), a, Carry(z, c))
<1>1. z \in Selection
  BY TrackEnds
<1>2. Track(<<c>>, z, Carry(z, c)) /\ <<c>> \in Seq(Commands)
  BY <1>1, TrackOne
<1>3. Append(q, c) = q \o <<c>>
  BY AppendIsConcat
<1> QED BY <1>2, <1>3, TrackConcat

(* A wait for the main bus in front changes nothing of where a track leads. *)
LEMMA TrackWait ==
  ASSUME NEW q \in Seq(Commands), NEW a, NEW z, Track(q, a, z)
  PROVE  Track(<<WaitMDMA>> \o q, a, z)
<1>1. a \in Selection
  BY TrackEnds
<1>2. Track(<<WaitMDMA>>, a, Carry(a, WaitMDMA)) /\ <<WaitMDMA>> \in Seq(Commands)
  BY <1>1, TokenFacts, TrackOne DEF WaitMDMA
<1>3. Carry(a, WaitMDMA) = a
  BY DEF Carry, WaitMDMA
<1> QED BY <1>2, <1>3, TrackConcat

-----------------------------------------------------------------------------
(* Commands in a ring, and steps of a call as a renderer sees them. *)

Conversion(c) == c.op = "conv"

(* The commands of a queue as a set. *)
LEMMA ToSetFacts ==
  ASSUME NEW q \in Seq(Commands)
  PROVE  /\ \A c : c \in ToSet(q) <=> \E i \in 1 .. Len(q) : q[i] = c
         /\ ToSet(q) \subseteq Commands
         /\ Len(q) \in Nat
         /\ q = <<>> => ToSet(q) = {}
<1>1. DOMAIN q = 1 .. Len(q) /\ q \in [1 .. Len(q) -> Commands] /\ Len(q) \in Nat
  BY LenProperties
<1>2. \A c : c \in ToSet(q) <=> \E i \in 1 .. Len(q) : q[i] = c
  BY <1>1 DEF ToSet
<1> HIDE DEF ToSet
<1>3. q = <<>> => Len(q) = 0
  OBVIOUS
<1> QED BY <1>1, <1>2, <1>3

(* A command has been executed: it is gone, or has become a wait. *)
LEMMA Popped ==
  ASSUME NEW q \in Seq(Commands), q # <<>>,
         NEW r, r = Tail(q) \/ r = <<WaitMDMA>> \o Tail(q)
  PROVE  /\ r \in Seq(Commands)
         /\ Head(q) \in ToSet(q)
         /\ \A c \in ToSet(r) : c \in ToSet(q) \/ c = WaitMDMA
         /\ \A c \in ToSet(q) : c = Head(q) \/ c \in ToSet(r)
         /\ OneConv(q) =>
              /\ OneConv(r)
              /\ Conversion(Head(q)) => \A c \in ToSet(r) : ~Conversion(c)
<1>1. /\ Len(q) \in Nat /\ Len(q) >= 1 /\ Head(q) = q[1]
      /\ Tail(q) \in Seq(Commands) /\ Len(Tail(q)) = Len(q) - 1
      /\ \A i \in 1 .. Len(q) - 1 : Tail(q)[i] = q[i + 1]
  BY EmptySeq, HeadTailProperties
<1> DEFINE t == Tail(q)
<1>2. PICK d \in {0, 1} :
        /\ r \in Seq(Commands) /\ Len(r) = Len(q) - 1 + d
        /\ \A i \in 1 .. Len(r) :
             IF i <= d THEN r[i] = WaitMDMA
             ELSE i + 1 - d \in 2 .. Len(q) /\ r[i] = q[i + 1 - d]
  <2>1. CASE r = t
    <3>1. \A i \in 1 .. Len(r) : ~(i <= 0) /\ i + 1 - 0 = i + 1 /\ i + 1 \in 2 .. Len(q)
      BY <1>1, <2>1
    <3>2. r \in Seq(Commands) /\ Len(r) = Len(q) - 1 + 0
      BY <1>1, <2>1
    <3> QED BY <1>1, <2>1, <3>1, <3>2
  <2>2. CASE r = <<WaitMDMA>> \o t
    <3>1. /\ t \in Seq(Commands) /\ Len(t) = Len(q) - 1
          /\ \A i \in 1 .. Len(q) - 1 : t[i] = q[i + 1]
      BY <1>1
    <3> HIDE DEF t
    <3>2. <<WaitMDMA>> \in Seq(Commands) /\ Len(<<WaitMDMA>>) = 1
          /\ <<WaitMDMA>>[1] = WaitMDMA
      BY TokenFacts
    <3>3. /\ r \in Seq(Commands) /\ Len(r) = 1 + Len(t)
          /\ \A i \in 1 .. 1 + Len(t) :
               r[i] = IF i <= 1 THEN <<WaitMDMA>>[i] ELSE t[i - 1]
      BY <2>2, <3>1, <3>2, ConcatProperties
    <3>4. Len(r) = Len(q) /\ Len(r) = Len(q) - 1 + 1
      BY <1>1, <3>1, <3>3
    <3>5. ASSUME NEW i \in 1 .. Len(r)
          PROVE  IF i <= 1 THEN r[i] = WaitMDMA
                 ELSE i + 1 - 1 \in 2 .. Len(q) /\ r[i] = q[i + 1 - 1]
      <4>1. CASE i <= 1
        BY <1>1, <3>1, <3>2, <3>3, <3>4, <4>1
      <4>2. CASE ~(i <= 1)
        <5>1. i - 1 \in 1 .. Len(q) - 1 /\ (i - 1) + 1 = i /\ i + 1 - 1 = i
              /\ i \in 2 .. Len(q) /\ i \in 1 .. 1 + Len(t)
          BY <1>1, <3>1, <3>3, <3>4, <4>2
        <5>2. r[i] = t[i - 1] /\ t[i - 1] = q[i]
          BY <3>1, <3>3, <4>2, <5>1
        <5> QED BY <4>2, <5>1, <5>2
      <4> QED BY <4>1, <4>2
    <3> QED BY <3>3, <3>4, <3>5
  <2> QED BY <2>1, <2>2
<1>3. Len(r) \in Nat
  BY <1>1, <1>2
<1>4. /\ \A c : c \in ToSet(q) <=> \E i \in 1 .. Len(q) : q[i] = c
      /\ \A c : c \in ToSet(r) <=> \E i \in 1 .. Len(r) : r[i] = c
  BY <1>2, ToSetFacts
<1>5. \A c \in ToSet(r) : c \in ToSet(q) \/ c = WaitMDMA
  <2>1. TAKE c \in ToSet(r)
  <2>2. PICK i \in 1 .. Len(r) : r[i] = c
    BY <1>4
  <2>3. i <= d \/ i + 1 - d \in 1 .. Len(q)
    BY <1>1, <1>2
  <2> QED BY <1>2, <1>4, <2>2, <2>3
<1>6. \A c \in ToSet(q) : c = Head(q) \/ c \in ToSet(r)
  <2>1. TAKE c \in ToSet(q)
  <2>2. PICK j \in 1 .. Len(q) : q[j] = c
    BY <1>4
  <2>3. CASE j = 1
    BY <1>1, <2>2, <2>3
  <2>4. CASE j # 1
    <3>1. /\ j - 1 + d \in 1 .. Len(r) /\ ~(j - 1 + d <= d)
          /\ (j - 1 + d) + 1 - d = j
      BY <1>1, <1>2, <2>4
    <3>2. r[j - 1 + d] = c
      BY <1>2, <2>2, <3>1
    <3> QED BY <1>4, <3>1, <3>2
  <2> QED BY <2>3, <2>4
<1>7. ~Conversion(WaitMDMA)
  BY DEF WaitMDMA, Conversion
<1>8. ASSUME OneConv(q)
      PROVE  /\ OneConv(r)
             /\ Conversion(Head(q)) => \A c \in ToSet(r) : ~Conversion(c)
  <2>1. ASSUME NEW i \in 1 .. Len(r), Conversion(r[i])
        PROVE  /\ i + 1 - d \in 2 .. Len(q)
               /\ Conversion(q[i + 1 - d]) /\ q[i + 1 - d] = r[i]
    BY <1>2, <1>7, <2>1
  <2>2. OneConv(r)
    <3>1. SUFFICES ASSUME NEW i \in 1 .. Len(r), NEW j \in 1 .. Len(r),
                          Conversion(r[i]), Conversion(r[j])
                   PROVE  i = j
      BY DEF OneConv, Conversion
    <3>2. i + 1 - d \in 1 .. Len(q) /\ j + 1 - d \in 1 .. Len(q)
      BY <1>1, <2>1, <3>1
    <3>3. i + 1 - d = j + 1 - d
      BY <1>8, <2>1, <3>1, <3>2 DEF OneConv, Conversion
    <3> QED BY <1>2, <1>3, <3>3
  <2>3. ASSUME Conversion(Head(q)), NEW c \in ToSet(r), Conversion(c)
        PROVE  FALSE
    <3>1. PICK i \in 1 .. Len(r) : r[i] = c
      BY <1>4
    <3>2. i + 1 - d \in 2 .. Len(q) /\ Conversion(q[i + 1 - d])
      BY <2>1, <2>3, <3>1
    <3>3. 1 \in 1 .. Len(q) /\ i + 1 - d \in 1 .. Len(q) /\ i + 1 - d # 1
      BY <1>1, <3>2
    <3> QED BY <1>1, <1>8, <2>3, <3>2, <3>3 DEF OneConv, Conversion
  <2> QED BY <2>2, <2>3
<1>9. Head(q) \in ToSet(q)
  <2>1. 1 \in 1 .. Len(q)
    BY <1>1
  <2> QED BY <1>1, <1>4, <2>1
<1> QED BY <1>2, <1>5, <1>6, <1>8, <1>9

(* A command has been stored. *)
LEMMA Pushed ==
  ASSUME NEW q \in Seq(Commands), NEW c \in Commands
  PROVE  /\ Append(q, c) \in Seq(Commands)
         /\ ToSet(Append(q, c)) = ToSet(q) \cup {c}
         /\ OneConv(q) /\ (~Conversion(c) \/ \A e \in ToSet(q) : ~Conversion(e))
              => OneConv(Append(q, c))
<1> DEFINE r == Append(q, c)
<1>1. /\ r \in Seq(Commands) /\ Len(r) = Len(q) + 1 /\ Len(q) \in Nat
      /\ \A i \in 1 .. Len(q) : r[i] = q[i]
      /\ r[Len(q) + 1] = c
  BY AppendProperties
<1> HIDE DEF r
<1>2. /\ \A e : e \in ToSet(q) <=> \E i \in 1 .. Len(q) : q[i] = e
      /\ \A e : e \in ToSet(r) <=> \E i \in 1 .. Len(r) : r[i] = e
  BY <1>1, ToSetFacts
<1>3. \A i \in 1 .. Len(r) : i \in 1 .. Len(q) \/ i = Len(q) + 1
  BY <1>1
<1>4. \A i \in 1 .. Len(q) : i \in 1 .. Len(r)
  BY <1>1
<1>5. Len(q) + 1 \in 1 .. Len(r)
  BY <1>1
<1>6. \A e : e \in ToSet(r) <=> e \in ToSet(q) \cup {c}
  <2>1. TAKE e
  <2>2. e \in ToSet(r) => e \in ToSet(q) \cup {c}
    BY <1>1, <1>2, <1>3
  <2>3. e \in ToSet(q) \cup {c} => e \in ToSet(r)
    BY <1>1, <1>2, <1>4, <1>5
  <2> QED BY <2>2, <2>3
<1>7. ToSet(r) = ToSet(q) \cup {c}
  BY <1>6
<1>8. ASSUME OneConv(q), ~Conversion(c) \/ \A e \in ToSet(q) : ~Conversion(e)
      PROVE  OneConv(r)
  <2>1. SUFFICES ASSUME NEW i \in 1 .. Len(r), NEW j \in 1 .. Len(r),
                        Conversion(r[i]), Conversion(r[j])
                 PROVE  i = j
    BY DEF OneConv, Conversion
  <2>2. CASE i \in 1 .. Len(q) /\ j \in 1 .. Len(q)
    BY <1>1, <1>8, <2>1, <2>2 DEF OneConv, Conversion
  <2>3. CASE i = Len(q) + 1 /\ j = Len(q) + 1
    BY <2>3
  <2>4. CASE i \in 1 .. Len(q) /\ j = Len(q) + 1
    BY <1>1, <1>2, <1>8, <2>1, <2>4
  <2>5. CASE j \in 1 .. Len(q) /\ i = Len(q) + 1
    BY <1>1, <1>2, <1>8, <2>1, <2>5
  <2> QED BY <1>3, <2>2, <2>3, <2>4, <2>5
<1> QED BY <1>1, <1>7, <1>8 DEF r

(* A renderer's view of a call is a sequence of commands as long as the      *)
(* call.                                                                     *)
LEMMA ViewType ==
  ASSUME NEW s \in Seq(Steps), NEW m \in MPRs
  PROVE  /\ View(s, m) \in Seq(Commands) /\ Len(View(s, m)) = Len(s)
         /\ Len(s) \in Nat
         /\ \A i \in 1 .. Len(s) :
              View(s, m)[i] = IF s[i].do = "send" /\ s[i].to = m THEN s[i].cmd
                              ELSE WaitMDMA
<1>1. \A i \in 1 .. Len(s) : s[i] \in Steps
  OBVIOUS
<1>2. \A i \in 1 .. Len(s) : s[i].do = "send" => s[i].cmd \in Commands
  BY <1>1 DEF Steps
<1> QED BY <1>2, TokenFacts DEF View

(* The view of what follows the first step. *)
LEMMA ViewTail ==
  ASSUME NEW s \in Seq(Steps), s # <<>>, NEW m \in MPRs
  PROVE  /\ View(s, m) # <<>>
         /\ Tail(View(s, m)) = View(Tail(s), m)
         /\ Head(View(s, m)) =
              IF Head(s).do = "send" /\ Head(s).to = m THEN Head(s).cmd ELSE WaitMDMA
<1> DEFINE v == View(s, m)
           t == Tail(s)
           w == View(t, m)
<1>1. /\ t \in Seq(Steps) /\ Len(t) = Len(s) - 1 /\ Len(s) \in Nat /\ Len(s) >= 1
      /\ \A i \in 1 .. Len(t) : t[i] = s[i + 1]
      /\ Head(s) = s[1]
  BY EmptySeq, HeadTailProperties
<1> HIDE DEF t
<1>2. /\ v \in Seq(Commands) /\ Len(v) = Len(s)
      /\ \A i \in 1 .. Len(s) :
           v[i] = IF s[i].do = "send" /\ s[i].to = m THEN s[i].cmd ELSE WaitMDMA
  BY ViewType
<1>3. /\ w \in Seq(Commands) /\ Len(w) = Len(t)
      /\ \A i \in 1 .. Len(t) :
           w[i] = IF t[i].do = "send" /\ t[i].to = m THEN t[i].cmd ELSE WaitMDMA
  BY <1>1, ViewType
<1> HIDE DEF v, w
<1>4. v # <<>> /\ Head(v) = v[1] /\ 1 \in 1 .. Len(s)
  BY <1>1, <1>2
<1>5. /\ Tail(v) \in Seq(Commands) /\ Len(Tail(v)) = Len(v) - 1
      /\ \A i \in 1 .. Len(Tail(v)) : Tail(v)[i] = v[i + 1]
  BY <1>2, <1>4, HeadTailProperties
<1>6. Tail(v) = w
  <2>1. Len(Tail(v)) = Len(w)
    BY <1>1, <1>2, <1>3, <1>5
  <2>2. \A i \in 1 .. Len(w) : i + 1 \in 1 .. Len(s) /\ i \in 1 .. Len(t)
    BY <1>1, <1>3
  <2>3. \A i \in 1 .. Len(w) : Tail(v)[i] = w[i]
    BY <1>1, <1>2, <1>3, <1>5, <2>1, <2>2
  <2> QED BY <1>3, <1>5, <2>1, <2>3, SeqEqual
<1> QED BY <1>1, <1>2, <1>4, <1>6 DEF v, w, t

(* The view of two parts of a call is that of one before that of the other. *)
LEMMA ViewConcat ==
  ASSUME NEW p \in Seq(Steps), NEW q \in Seq(Steps), NEW m \in MPRs
  PROVE  View(p \o q, m) = View(p, m) \o View(q, m)
<1> DEFINE s == p \o q
           x == View(p, m)
           y == View(q, m)
           v == View(s, m)
<1>1. /\ s \in Seq(Steps) /\ Len(s) = Len(p) + Len(q)
      /\ Len(p) \in Nat /\ Len(q) \in Nat
      /\ \A i \in 1 .. Len(p) + Len(q) :
           s[i] = IF i <= Len(p) THEN p[i] ELSE q[i - Len(p)]
  BY ConcatProperties
<1> HIDE DEF s
<1>2. /\ x \in Seq(Commands) /\ Len(x) = Len(p)
      /\ \A i \in 1 .. Len(p) :
           x[i] = IF p[i].do = "send" /\ p[i].to = m THEN p[i].cmd ELSE WaitMDMA
      /\ y \in Seq(Commands) /\ Len(y) = Len(q)
      /\ \A i \in 1 .. Len(q) :
           y[i] = IF q[i].do = "send" /\ q[i].to = m THEN q[i].cmd ELSE WaitMDMA
      /\ v \in Seq(Commands) /\ Len(v) = Len(s)
      /\ \A i \in 1 .. Len(s) :
           v[i] = IF s[i].do = "send" /\ s[i].to = m THEN s[i].cmd ELSE WaitMDMA
  BY <1>1, ViewType
<1> HIDE DEF x, y, v
<1>3. /\ x \o y \in Seq(Commands) /\ Len(x \o y) = Len(p) + Len(q)
      /\ \A i \in 1 .. Len(p) + Len(q) :
           (x \o y)[i] = IF i <= Len(p) THEN x[i] ELSE y[i - Len(p)]
  <2>1. x \in Seq(Commands) /\ y \in Seq(Commands) /\ Len(x) = Len(p) /\ Len(y) = Len(q)
    BY <1>2
  <2>2. /\ x \o y \in Seq(Commands) /\ Len(x \o y) = Len(x) + Len(y)
        /\ \A i \in 1 .. Len(x) + Len(y) :
             (x \o y)[i] = IF i <= Len(x) THEN x[i] ELSE y[i - Len(x)]
    BY <2>1, ConcatProperties
  <2> QED BY <2>1, <2>2
<1> DEFINE z == x \o y
<1> HIDE DEF z
<1>4. /\ z \in Seq(Commands) /\ Len(z) = Len(v)
      /\ \A i \in 1 .. Len(v) : z[i] = IF i <= Len(p) THEN x[i] ELSE y[i - Len(p)]
  BY <1>1, <1>2, <1>3 DEF z
<1>5. \A i \in 1 .. Len(v) : v[i] = z[i]
  <2>1. TAKE i \in 1 .. Len(v)
  <2>2. CASE i <= Len(p)
    <3>1. i \in 1 .. Len(p)
      BY <1>1, <1>2, <2>2
    <3> QED BY <1>1, <1>2, <1>4, <2>2, <3>1
  <2>3. CASE ~(i <= Len(p))
    <3>1. /\ i - Len(p) \in 1 .. Len(q)
          /\ i \in 1 .. Len(s) /\ i \in 1 .. Len(p) + Len(q)
      BY <1>1, <1>2, <2>3
    <3>2. s[i] = q[i - Len(p)]
      BY <1>1, <2>3, <3>1
    <3>3. z[i] = y[i - Len(p)]
      BY <1>4, <2>3
    <3>4. v[i] = IF s[i].do = "send" /\ s[i].to = m THEN s[i].cmd ELSE WaitMDMA
      BY <1>2, <3>1
    <3> QED BY <1>2, <3>1, <3>2, <3>3, <3>4
  <2> QED BY <2>2, <2>3
<1>6. v = z
  BY <1>2, <1>4, <1>5, SeqEqual
<1> QED BY <1>6 DEF s, v, x, y, z

-----------------------------------------------------------------------------
(* What the calls lead the renderers to. *)

(* Steps that change nobody's screen buffer, and draw to b only.              *)
LEMMA ViewSteady ==
  ASSUME NEW s \in Seq(Steps), NEW m \in MPRs, NEW b \in Selection,
         \A i \in 1 .. Len(s) : s[i].do = "send" =>
            /\ s[i].cmd.op # "sb"
            /\ s[i].cmd.op = "draw" => s[i].cmd.buf = b
  PROVE  Track(View(s, m), b, b)
<1> DEFINE v == View(s, m)
<1>1. /\ Len(v) = Len(s) /\ Len(s) \in Nat
      /\ \A i \in 1 .. Len(s) :
           v[i] = IF s[i].do = "send" /\ s[i].to = m THEN s[i].cmd ELSE WaitMDMA
  BY ViewType
<1> HIDE DEF v
<1>2. WaitMDMA.op = "wait"
  BY DEF WaitMDMA
<1>3. \A i \in 1 .. Len(v) : v[i].op # "sb" /\ (v[i].op = "draw" => v[i].buf = b)
  BY <1>1, <1>2
<1>4. Track(v, b, b)
  BY <1>1, <1>3, TrackSteady
<1> QED BY <1>4 DEF v

(* A list of steps, each a function of its place. *)
LEMMA SendSBSteps ==
  ASSUME NEW b \in Buffers
  PROVE  /\ SendSB(b) \in Seq(Steps) /\ Len(SendSB(b)) = NumMPRs
         /\ \A i \in 1 .. NumMPRs :
              /\ SendSB(b)[i].do = "send" /\ SendSB(b)[i].to = Start + i - 1
              /\ SendSB(b)[i].cmd = SB(b)
<1> DEFINE e(i) == Send(Start + i - 1, SB(b), FALSE)
           s == [i \in 1 .. NumMPRs |-> e(i)]
<1>1. \A i \in 1 .. NumMPRs : /\ e(i) \in Steps /\ e(i).do = "send"
                              /\ e(i).to = Start + i - 1 /\ e(i).cmd = SB(b)
  BY ChainFacts, CommandFacts, SendFacts
<1> HIDE DEF e
<1>2. s \in Seq(Steps) /\ Len(s) = NumMPRs /\ \A i \in 1 .. NumMPRs : s[i] = e(i)
  BY <1>1, ChainFacts
<1> HIDE DEF s
<1>3. /\ s \in Seq(Steps) /\ Len(s) = NumMPRs
      /\ \A i \in 1 .. NumMPRs :
           s[i].do = "send" /\ s[i].to = Start + i - 1 /\ s[i].cmd = SB(b)
  BY <1>1, <1>2
<1> QED BY <1>3 DEF SendSB, s, e

(* Whatever screen buffer a renderer has, it gets b. *)
LEMMA SendSBTrack ==
  ASSUME NEW b \in Buffers, NEW a \in Selection, NEW m \in MPRs
  PROVE  Track(View(SendSB(b), m), a, b)
<1> DEFINE s == SendSB(b)
           v == View(s, m)
           k == m - Start + 1
<1>1. /\ s \in Seq(Steps) /\ Len(s) = NumMPRs
      /\ \A i \in 1 .. NumMPRs :
           s[i].do = "send" /\ s[i].to = Start + i - 1 /\ s[i].cmd = SB(b)
  BY SendSBSteps
<1> HIDE DEF s
<1>2. /\ Len(v) = NumMPRs
      /\ \A i \in 1 .. NumMPRs :
           v[i] = IF s[i].do = "send" /\ s[i].to = m THEN s[i].cmd ELSE WaitMDMA
  BY <1>1, ViewType
<1> HIDE DEF v
<1>3. k \in 1 .. NumMPRs /\ \A i \in 1 .. NumMPRs : Start + i - 1 = m <=> i = k
  BY ChainFacts DEF MPRs, EndMPR
<1> HIDE DEF k
<1>4. \A i \in 1 .. NumMPRs : v[i] = IF i = k THEN SB(b) ELSE WaitMDMA
  BY <1>1, <1>2, <1>3
<1>5. WaitMDMA.op = "wait" /\ SB(b).op = "sb" /\ SB(b).buf = b
  BY DEF WaitMDMA, SB
<1> DEFINE f == [i \in 1 .. Len(v) + 1 |-> IF i <= k THEN a ELSE b]
<1>6. b \in Selection /\ NumMPRs \in Nat /\ NumMPRs >= 1
  BY ChainFacts DEF Selection
<1>7. f \in [1 .. Len(v) + 1 -> Selection]
  BY <1>6
<1>8. /\ f[1] = a /\ f[Len(v) + 1] = b
      /\ \A i \in 1 .. Len(v) : /\ f[i] = IF i <= k THEN a ELSE b
                                /\ f[i + 1] = IF i + 1 <= k THEN a ELSE b
  BY <1>2, <1>3, <1>6
<1> HIDE DEF f
<1>9. ASSUME NEW i \in 1 .. Len(v)
      PROVE  f[i + 1] = Carry(f[i], v[i]) /\ v[i].op # "draw"
  <2>1. i \in 1 .. NumMPRs
    BY <1>2
  <2>2. CASE i = k
    <3>1. f[i + 1] = b /\ v[i] = SB(b)
      BY <1>3, <1>4, <1>8, <2>1, <2>2
    <3> QED BY <1>5, <3>1 DEF Carry
  <2>3. CASE i # k
    <3>1. f[i + 1] = f[i]
      BY <1>3, <1>8, <2>1, <2>3
    <3>2. v[i] = WaitMDMA
      BY <1>4, <2>1, <2>3
    <3> QED BY <1>5, <3>1, <3>2 DEF Carry
  <2> QED BY <2>2, <2>3
<1>10. Track(v, a, b)
  BY <1>7, <1>8, <1>9 DEF Track
<1> QED BY <1>10 DEF v, s

(* One buffer is selected and cleared. *)
LEMMA ClearBufferTrack ==
  ASSUME TypeOK, NEW c \in {0, 1}, NEW i \in 0 .. 2, NEW a \in Selection,
         NEW m \in MPRs
  PROVE  ClearBuffer(c, i) \in Seq(Steps) /\ Track(View(ClearBuffer(c, i), m), a, <<c, i>>)
<1> DEFINE b == <<c, i>>
           p == SendSB(b)
           d == Send(Nth(i + 1), Draw(b), TRUE)
<1>1. b \in Buffers /\ b \in Selection
  BY DEF Buffers, Selection
<1> HIDE DEF b
<1>2. p \in Seq(Steps) /\ Track(View(p, m), a, b)
  BY <1>1, SendSBSteps, SendSBTrack
<1>3. d \in Steps /\ d.cmd = Draw(b)
  <2>1. Nth(i + 1) \in MPRs
    BY NthType
  <2> QED BY <1>1, <2>1, CommandFacts, SendFacts
<1>4. Draw(b).op = "draw" /\ Draw(b).buf = b
  BY DEF Draw
<1> HIDE DEF p, d
<1> DEFINE q == <<d>>
<1>5. q \in Seq(Steps) /\ Len(q) = 1 /\ q[1] = d
  BY <1>3
<1>6. Append(p, d) = p \o q
  BY <1>2, <1>3, AppendIsConcat
<1> HIDE DEF q
<1>7. Track(View(q, m), b, b)
  BY <1>1, <1>3, <1>4, <1>5, ViewSteady
<1>8. p \o q \in Seq(Steps) /\ View(p \o q, m) = View(p, m) \o View(q, m)
  BY <1>2, <1>5, ConcatProperties, ViewConcat
<1>9. Track(View(p \o q, m), a, b)
  BY <1>2, <1>5, <1>7, <1>8, ViewType, TrackConcat
<1> QED BY <1>6, <1>8, <1>9 DEF ClearBuffer, p, d, b

(* Tracks of the parts of a call are joined to that of the call. *)
LEMMA JoinTracks ==
  ASSUME NEW p \in Seq(Steps), NEW q \in Seq(Steps), NEW m \in MPRs,
         NEW a, NEW b, NEW z, Track(View(p, m), a, b), Track(View(q, m), b, z)
  PROVE  p \o q \in Seq(Steps) /\ Track(View(p \o q, m), a, z)
<1>1. View(p \o q, m) = View(p, m) \o View(q, m)
  BY ViewConcat
<1>2. View(p, m) \in Seq(Commands) /\ View(q, m) \in Seq(Commands)
  BY ViewType
<1>3. Track(View(p, m) \o View(q, m), a, z)
  BY <1>2, TrackConcat
<1> QED BY <1>1, <1>3, ConcatProperties

(* mdClearScreenBuffers leads every renderer to the same screen buffer. *)
LEMMA ClearTrack ==
  ASSUME TypeOK, NEW c \in {0, 1}, NEW a \in Selection, NEW m \in MPRs
  PROVE  \E z \in Selection : Track(View(ClearBuffers(c), m), a, z)
<1>1. <<c, 0>> \in Selection /\ <<c, 1>> \in Selection /\ <<c, 2>> \in Selection
  BY DEF Selection, Buffers
<1> DEFINE p(i) == ClearBuffer(c, i)
<1>2. /\ p(0) \in Seq(Steps) /\ Track(View(p(0), m), a, <<c, 0>>)
      /\ p(1) \in Seq(Steps) /\ Track(View(p(1), m), <<c, 0>>, <<c, 1>>)
      /\ p(2) \in Seq(Steps) /\ Track(View(p(2), m), <<c, 1>>, <<c, 2>>)
  <2>1. 0 \in 0 .. 2 /\ 1 \in 0 .. 2 /\ 2 \in 0 .. 2
    OBVIOUS
  <2>2. \A i \in 0 .. 2 : \A b \in Selection :
          p(i) \in Seq(Steps) /\ Track(View(p(i), m), b, <<c, i>>)
    BY ClearBufferTrack
  <2> HIDE DEF p
  <2> QED BY <1>1, <2>1, <2>2
<1> HIDE DEF p
<1>3. p(0) \o p(1) \in Seq(Steps) /\ Track(View(p(0) \o p(1), m), a, <<c, 1>>)
  BY <1>2, JoinTracks
<1>4. Track(View(p(0) \o p(1) \o p(2), m), a, <<c, 2>>)
  BY <1>2, <1>3, JoinTracks
<1>5. numbuf(c) = 1 \/ numbuf(c) = 2 \/ numbuf(c) = 3
  BY BufferFacts
<1> HIDE DEF numbuf
<1>6. CASE numbuf(c) = 1
  BY <1>1, <1>2, <1>6 DEF ClearBuffers, p
<1>7. CASE numbuf(c) = 2
  BY <1>1, <1>3, <1>7 DEF ClearBuffers, p
<1>8. CASE numbuf(c) = 3
  BY <1>1, <1>4, <1>8 DEF ClearBuffers, p
<1> QED BY <1>5, <1>6, <1>7, <1>8

(* Steps that send neither screen buffers nor primitives; steps of the calls  *)
(* that are not swaps; and those of these calls that draw, if at all, to b    *)
(* and change no screen buffer.                                               *)
NeutralSteps ==
  {s \in Steps : s.do = "send" => s.cmd.op \notin {"sb", "draw"}}

OrdinarySteps == {s \in Steps : ~SwapStep(s)}

DrawSteps(b) ==
  {s \in OrdinarySteps : s.do = "send" => /\ s.cmd.op # "sb"
                                          /\ s.cmd.op = "draw" => s.cmd.buf = b}

(* Which kinds of steps a sent command can be. *)
LEMMA SendKinds ==
  ASSUME NEW m \in MPRs, NEW c \in Commands, NEW l \in BOOLEAN
  PROVE  LET s == Send(m, c, l)
         IN  /\ s \in Steps
             /\ c.op \notin {"sb", "draw"} => s \in NeutralSteps
             /\ c.op # "conv" => s \in OrdinarySteps
             /\ \A b : c.op \notin {"conv", "sb"} /\ (c.op = "draw" => c.buf = b)
                       => s \in DrawSteps(b)
<1> DEFINE s == Send(m, c, l)
<1>1. s \in Steps /\ s.do = "send" /\ s.cmd = c
  BY SendFacts
<1> HIDE DEF s
<1>2. c.op # "conv" => s \in OrdinarySteps
  BY <1>1 DEF OrdinarySteps, SwapStep
<1>3. c.op \notin {"sb", "draw"} => s \in NeutralSteps
  BY <1>1 DEF NeutralSteps
<1>4. \A b : c.op \notin {"conv", "sb"} /\ (c.op = "draw" => c.buf = b) => s \in DrawSteps(b)
  BY <1>1, <1>2 DEF DrawSteps
<1> QED BY <1>1, <1>2, <1>3, <1>4 DEF s

(* Which kinds of steps the others are. *)
LEMMA StepKinds ==
  ASSUME NEW d \in {"await", "vidsync", "base", "advance", "free"}
  PROVE  /\ Step(d) \in NeutralSteps
         /\ d \in {"await", "free"} =>
              Step(d) \in OrdinarySteps /\ \A b : Step(d) \in DrawSteps(b)
<1> DEFINE s == Step(d)
<1>1. s \in Steps /\ s.do = d
  BY StepFacts
<1> HIDE DEF s
<1>2. s \in NeutralSteps
  BY <1>1 DEF NeutralSteps
<1>3. d \in {"await", "free"} => s \in OrdinarySteps
  BY <1>1 DEF OrdinarySteps, SwapStep
<1>4. d \in {"await", "free"} => \A b : s \in DrawSteps(b)
  BY <1>1, <1>3 DEF DrawSteps
<1> QED BY <1>2, <1>3, <1>4 DEF s

(* Passing a token around the chain draws, selects and converts nothing. *)
LEMMA TokenKinds ==
  ASSUME NEW c \in {SD, BD}
  PROVE  /\ SendAndWait(c) \in Seq(Steps)
         /\ SendAndWait(c) \in Seq(NeutralSteps)
         /\ SendAndWait(c) \in Seq(OrdinarySteps)
         /\ \A b : SendAndWait(c) \in Seq(DrawSteps(b))
<1> DEFINE a == Send(Start, c, FALSE)
           w == Step("await")
<1>1. c \in Commands /\ c.op \notin {"sb", "draw", "conv"}
  BY TokenFacts
<1>2. /\ a \in Steps /\ a \in NeutralSteps /\ a \in OrdinarySteps
      /\ \A b : a \in DrawSteps(b)
  BY <1>1, ChainFacts, SendKinds
<1>3. /\ w \in Steps /\ w \in NeutralSteps /\ w \in OrdinarySteps
      /\ \A b : w \in DrawSteps(b)
  BY StepFacts, StepKinds
<1> HIDE DEF a, w
<1>4. /\ <<a, w>> \in Seq(Steps) /\ <<a, w>> \in Seq(NeutralSteps)
      /\ <<a, w>> \in Seq(OrdinarySteps)
  BY <1>2, <1>3
<1>5. \A b : <<a, w>> \in Seq(DrawSteps(b))
  BY <1>2, <1>3
<1> QED BY <1>4, <1>5 DEF SendAndWait, a, w

(* Steps that neither select nor draw keep the screen buffer. *)
LEMMA NeutralSteady ==
  ASSUME NEW s \in Seq(NeutralSteps), NEW m \in MPRs, NEW b \in Selection
  PROVE  s \in Seq(Steps) /\ Track(View(s, m), b, b)
<1>1. s \in Seq(Steps) /\ \A i \in 1 .. Len(s) : s[i] \in NeutralSteps
  BY DEF NeutralSteps
<1> QED BY <1>1, ViewSteady DEF NeutralSteps

(* A command of DrawSteps(b) draws to b and selects nothing. *)
LEMMA DrawStep ==
  ASSUME NEW b, NEW e \in DrawSteps(b), e.do = "send"
  PROVE  e.cmd.op # "sb" /\ (e.cmd.op = "draw" => e.cmd.buf = b)
BY DEF DrawSteps

(* Steps that draw to b keep a renderer that draws to b there. *)
LEMMA DrawSteady ==
  ASSUME NEW b \in Selection, NEW s \in Seq(DrawSteps(b)), NEW m \in MPRs
  PROVE  s \in Seq(Steps) /\ Track(View(s, m), b, b)
<1>1. s \in Seq(Steps) /\ \A i \in 1 .. Len(s) : s[i] \in DrawSteps(b)
  BY DEF DrawSteps, OrdinarySteps
<1>2. ASSUME NEW i \in 1 .. Len(s), s[i].do = "send"
      PROVE  s[i].cmd.op # "sb" /\ (s[i].cmd.op = "draw" => s[i].cmd.buf = b)
  <2>1. s[i] \in DrawSteps(b)
    BY <1>1
  <2> QED BY <1>2, <2>1, DrawStep
<1> QED BY <1>1, <1>2, ViewSteady

(* The parts of a conversion. *)
LEMMA ConvSteps ==
  ASSUME TypeOK, NEW other \in Others
  PROVE  /\ Parts(other) \in Nat /\ Parts(other) <= NumMPRs
         /\ SendConv(other) \in Seq(Steps) /\ Len(SendConv(other)) = Parts(other)
         /\ \A i \in 1 .. Parts(other) :
              /\ Start + i - 1 \in MPRs
              /\ Part1(other, i) \in Commands /\ Part1(other, i).op = "conv"
              /\ SendConv(other)[i] = Send(Start + i - 1, Part1(other, i), TRUE)
<1> DEFINE n == Parts(other)
           e(i) == Send(Start + i - 1, Part1(other, i), TRUE)
           s == [i \in 1 .. n |-> e(i)]
<1>1. n \in Nat /\ n <= NumMPRs
  BY ChainFacts DEF Parts
<1> HIDE DEF n
<1>2. ASSUME NEW i \in 1 .. n
      PROVE  /\ Start + i - 1 \in MPRs
             /\ Part1(other, i) \in Commands /\ Part1(other, i).op = "conv"
             /\ e(i) \in Steps
  <2>1. i \in 1 .. NumMPRs
    BY <1>1, ChainFacts
  <2>2. /\ Conv(<<1, actbuf[1]>>, ConvLines(other, i)) \in Commands
        /\ Conv(<<1, actbuf[1]>>, ConvLines(other, i)).op = "conv"
    BY <2>1, BufferFacts, ConvLinesType, CommandFacts DEF Conv
  <2>3. Start + i - 1 \in MPRs
    BY <2>1, ChainFacts
  <2> QED BY <2>2, <2>3, SendFacts DEF Part1
<1>3. s \in Seq(Steps) /\ Len(s) = n /\ \A i \in 1 .. n : s[i] = e(i)
  <2> HIDE DEF e
  <2> QED BY <1>1, <1>2
<1>4. SendConv(other) = s
  BY DEF SendConv, s, e, n, Parts, Part1
<1> HIDE DEF s
<1> QED BY <1>1, <1>2, <1>3, <1>4 DEF n

(* Sending the conversion neither selects nor draws. *)
LEMMA NeutralConv ==
  ASSUME TypeOK, NEW other \in Others
  PROVE  SendConv(other) \in Seq(NeutralSteps)
<1> DEFINE n == Parts(other)
           s == SendConv(other)
           e(i) == Send(Start + i - 1, Part1(other, i), TRUE)
<1>1. /\ n \in Nat /\ s \in Seq(Steps) /\ Len(s) = n
      /\ \A i \in 1 .. n : s[i] = e(i)
  BY ConvSteps
<1>2. \A i \in 1 .. n : e(i) \in NeutralSteps
  <2>1. TAKE i \in 1 .. n
  <2>2. /\ Start + i - 1 \in MPRs
        /\ Part1(other, i) \in Commands /\ Part1(other, i).op = "conv"
    BY ConvSteps
  <2> QED BY <2>2, SendKinds
<1> HIDE DEF n, s, e
<1>3. s \in Seq(NeutralSteps)
  BY <1>1, <1>2
<1> QED BY <1>3 DEF s

(* Nor does a swap of the YCC modes, *)
LEMMA NeutralYCC ==
  ASSUME TypeOK
  PROVE  Append(YCCSteps, Step("advance")) \in Seq(NeutralSteps)
<1> DEFINE v == Step("vidsync")
           b == Step("base")
           a == Step("advance")
<1>1. v \in NeutralSteps /\ b \in NeutralSteps /\ a \in NeutralSteps
  BY StepKinds
<1>2. numbuf(0) = 1 \/ numbuf(0) = 2 \/ numbuf(0) = 3
  BY BufferFacts
<1> HIDE DEF numbuf
<1>3. YCCSteps \in {<<>>, <<b, v>>, <<v, b>>}
  BY <1>2 DEF YCCSteps
<1> HIDE DEF v, b, a
<1>4. YCCSteps \in Seq(NeutralSteps)
  <2>1. <<>> \in Seq(NeutralSteps)
    OBVIOUS
  <2>2. <<b, v>> \in Seq(NeutralSteps)
    BY <1>1
  <2>3. <<v, b>> \in Seq(NeutralSteps)
    BY <1>1
  <2> QED BY <1>3, <2>1, <2>2, <2>3
<1>5. Append(YCCSteps, a) \in Seq(NeutralSteps)
  BY <1>1, <1>4, AppendProperties
<1> QED BY <1>5 DEF a

(* The steps of the two swaps. *)
GRBSteps(other) ==
  SendAndWait(SD) \o <<Step("vidsync")>> \o SendConv(other)
    \o SendAndWait(SD) \o <<Step("base"), Step("advance")>>

(* nor one of the GRB modes. *)
LEMMA NeutralGRB ==
  ASSUME TypeOK, NEW other \in Others
  PROVE  GRBSteps(other) \in Seq(NeutralSteps)
<1> DEFINE p == SendAndWait(SD)
           v == <<Step("vidsync")>>
           c == SendConv(other)
           e == <<Step("base"), Step("advance")>>
<1>1. p \in Seq(NeutralSteps) /\ c \in Seq(NeutralSteps)
  BY TokenKinds, NeutralConv
<1>2. v \in Seq(NeutralSteps) /\ e \in Seq(NeutralSteps)
  <2>1. /\ Step("vidsync") \in NeutralSteps /\ Step("base") \in NeutralSteps
        /\ Step("advance") \in NeutralSteps
    BY StepKinds
  <2> QED BY <2>1
<1> HIDE DEF p, v, c, e
<1>3. p \o v \in Seq(NeutralSteps)
  BY <1>1, <1>2, ConcatProperties
<1>4. p \o v \o c \in Seq(NeutralSteps)
  BY <1>1, <1>3, ConcatProperties
<1>5. p \o v \o c \o p \in Seq(NeutralSteps)
  BY <1>1, <1>4, ConcatProperties
<1>6. p \o v \o c \o p \o e \in Seq(NeutralSteps)
  BY <1>2, <1>5, ConcatProperties
<1> QED BY <1>6 DEF GRBSteps, p, v, c, e

(* The calls: what they send, and what becomes of the program's selection. *)
Quietly(s) ==
  /\ actbuf' = actbuf /\ selected' = selected
  /\ s \in Seq(NeutralSteps) /\ \A b : s \in Seq(DrawSteps(b))

Drawing(s) ==
  /\ actbuf' = actbuf /\ selected /\ selected' = selected
  /\ s \in Seq(DrawSteps(target))

Selecting(s) ==
  /\ actbuf' = actbuf /\ selected' = TRUE
  /\ s = SendSB(target)

Clearing(s) ==
  /\ base = NoBuffer /\ selected' = FALSE
  /\ \E c \in {0, 1} : /\ actbuf' = [actbuf EXCEPT ![c] = 0]
                       /\ c = 1 => grb
                       /\ s = ClearBuffers(c) \o SendAndWait(SD)

Converting(s) ==
  /\ grb /\ selected /\ actbuf' = actbuf /\ selected' = selected
  /\ \E other \in Others : s = GRBSteps(other)

Swapping(s) ==
  /\ ~grb /\ actbuf' = actbuf /\ selected' = FALSE
  /\ s = Append(YCCSteps, Step("advance"))

(* The program sets the chain up or makes a call of one of six kinds, by     *)
(* what it does to screen buffers.                                           *)
LEMMA CallKinds ==
  ASSUME TypeOK, App
  PROVE  \/ mdSetupMPRChain
         \/ \E s : /\ Call(s)
                   /\ \/ Quietly(s) \/ Drawing(s) \/ Selecting(s)
                      \/ Clearing(s) \/ Converting(s) \/ Swapping(s)
<1>1. target \in Buffers
  BY BufferFacts
<1>2. CASE mdRemoveMPRChain
  <2> DEFINE p == SendAndWait(BD)
             f == <<Step("free")>>
  <2>1. p \in Seq(NeutralSteps) /\ \A b : p \in Seq(DrawSteps(b))
    BY TokenKinds
  <2>2. f \in Seq(NeutralSteps) /\ \A b : f \in Seq(DrawSteps(b))
    <3>1. Step("free") \in NeutralSteps /\ \A b : Step("free") \in DrawSteps(b)
      BY StepKinds
    <3> QED BY <3>1
  <2> HIDE DEF p, f
  <2>3. p \o f \in Seq(NeutralSteps) /\ \A b : p \o f \in Seq(DrawSteps(b))
    BY <2>1, <2>2, ConcatProperties
  <2>4. Call(p \o f) /\ Quietly(p \o f)
    BY <1>2, <2>3 DEF mdRemoveMPRChain, Quietly, p, f
  <2> QED BY <2>4
<1>3. CASE mdDrawSync \/ (mdClearDisp /\ ~grb)
  <2>1. Call(SendAndWait(SD)) /\ Quietly(SendAndWait(SD))
    BY <1>3, TokenKinds DEF mdDrawSync, mdClearDisp, Quietly
  <2> QED BY <2>1
<1>4. CASE mdActiveDrawContext
  <2>1. Call(SendSB(target)) /\ Selecting(SendSB(target))
    BY <1>4 DEF mdActiveDrawContext, Selecting
  <2> QED BY <2>1
<1>5. Draw(target) \in Commands /\ Draw(target).op = "draw" /\ Draw(target).buf = target
  BY <1>1, CommandFacts DEF Draw
<1>6. CASE mdDrawPrim
  <2> DEFINE e == Send(Nth(1), Draw(target), TRUE)
  <2>1. e \in DrawSteps(target)
    BY <1>5, NthType, SendKinds
  <2> HIDE DEF e
  <2>2. <<e>> \in Seq(DrawSteps(target))
    BY <2>1
  <2>3. Call(<<e>>) /\ Drawing(<<e>>)
    BY <1>6, <2>2 DEF mdDrawPrim, Drawing, e
  <2> QED BY <2>3
<1>7. CASE mdDrawImage
  <2> DEFINE e(i) == Send(Nth(i), Draw(target), TRUE)
             s == [i \in 1 .. NumMPRs |-> e(i)]
  <2>1. \A i \in 1 .. NumMPRs : e(i) \in DrawSteps(target)
    <3>1. TAKE i \in 1 .. NumMPRs
    <3>2. Nth(i) \in MPRs
      BY NthType
    <3> QED BY <1>5, <3>2, SendKinds
  <2>2. Call(s) /\ selected /\ actbuf' = actbuf /\ selected' = selected
    BY <1>7 DEF mdDrawImage
  <2> HIDE DEF e
  <2>3. s \in Seq(DrawSteps(target))
    BY <2>1, ChainFacts
  <2>4. Drawing(s)
    BY <2>2, <2>3 DEF Drawing
  <2> QED BY <2>2, <2>4
<1>8. CASE mdClearDraw \/ (mdClearDisp /\ grb)
  <2>1. PICK c \in {0, 1} : Clear(c) /\ (c = 1 => grb)
    BY <1>8 DEF mdClearDraw, mdClearDisp
  <2>2. /\ Call(ClearBuffers(c) \o SendAndWait(SD))
        /\ Clearing(ClearBuffers(c) \o SendAndWait(SD))
    BY <2>1 DEF Clear, Clearing
  <2> QED BY <2>2
<1>9. CASE SwapDrawBufGRB
  <2>1. PICK other \in Others : Call(GRBSteps(other))
    BY <1>9 DEF SwapDrawBufGRB, GRBSteps
  <2>2. Converting(GRBSteps(other))
    BY <1>9 DEF SwapDrawBufGRB, Converting
  <2> QED BY <2>1, <2>2
<1>10. CASE SwapDrawBufYCC
  <2>1. /\ Call(Append(YCCSteps, Step("advance")))
        /\ Swapping(Append(YCCSteps, Step("advance")))
    BY <1>10 DEF SwapDrawBufYCC, Swapping
  <2> QED BY <2>1
<1> QED BY <1>2, <1>3, <1>4, <1>6, <1>7, <1>8, <1>9, <1>10 DEF App

-----------------------------------------------------------------------------
(* Every step keeps the renderers' ways to the selected buffer. *)

(* A call that has begun leads them from where they are going. *)
LEMMA FlowCall ==
  ASSUME IInv, FlowInv, NEW s, Call(s),
         \A m \in MPRs : \A b \in Selection :
           (selected => b = target) =>
             \E z \in Selection : Track(View(s, m), b, z) /\ (selected' => z = target')
  PROVE  \A m \in MPRs : Flow(m)'
<1>1. SUFFICES ASSUME NEW m \in MPRs PROVE Flow(m)'
  OBVIOUS
<1>2. PICK b \in Selection, y \in Selection :
        /\ Track(queue[m], sb[m], b) /\ Track(View(todo, m), b, y)
        /\ selected => y = target
  BY DEF FlowInv, Flow
<1>3. /\ todo = <<>> /\ todo' = s /\ queue' = queue /\ sb' = sb
  BY DEF Call, Ready, mprVars
<1>4. View(todo, m) = <<>> /\ Len(<<>>) \in Nat
  BY <1>3 DEF View
<1>5. b = y
  BY <1>2, <1>4, TrackEnds
<1>6. PICK z \in Selection : Track(View(s, m), b, z) /\ (selected' => z = target')
  BY <1>2, <1>5
<1> QED BY <1>2, <1>3, <1>6 DEF Flow

(* A call of any kind preserves FlowInv, *)
LEMMA CallFlow ==
  ASSUME IInv, FlowInv, NEW s, Call(s),
         \/ Quietly(s) \/ Drawing(s) \/ Selecting(s)
         \/ Clearing(s) \/ Converting(s) \/ Swapping(s)
  PROVE  FlowInv'
<1>1. target \in Buffers /\ target \in Selection /\ TypeOK
  BY BufferFacts DEF Selection, IInv
<1>2. grb' = grb /\ todo' = s
  BY DEF Call, grb
<1>3. actbuf' = actbuf => target' = target
  BY DEF target
<1>4. CASE Quietly(s)
  <2>1. \A m \in MPRs : Flow(m)'
    BY <1>1, <1>3, <1>4, NeutralSteady, FlowCall DEF Quietly
  <2>2. \A i \in 1 .. Len(s) : s[i].do # "advance"
    <3>1. s \in Seq(DrawSteps(target))
      BY <1>4 DEF Quietly
    <3>2. \A i \in 1 .. Len(s) : s[i] \in DrawSteps(target)
      BY <3>1
    <3> QED BY <3>2 DEF DrawSteps, OrdinarySteps, SwapStep
  <2> QED BY <1>2, <2>1, <2>2 DEF FlowInv
<1>5. CASE Drawing(s)
  <2>1. \A m \in MPRs : Flow(m)'
    BY <1>1, <1>3, <1>5, DrawSteady, FlowCall DEF Drawing
  <2>2. \A i \in 1 .. Len(s) : s[i].do # "advance"
    <3>1. \A i \in 1 .. Len(s) : s[i] \in DrawSteps(target)
      BY <1>5 DEF Drawing
    <3> QED BY <3>1 DEF DrawSteps, OrdinarySteps, SwapStep
  <2> QED BY <1>2, <2>1, <2>2 DEF FlowInv
<1>6. CASE Selecting(s)
  <2>1. s = SendSB(target) /\ target' = target
    BY <1>3, <1>6 DEF Selecting
  <2>2. \A m \in MPRs : Flow(m)'
    BY <1>1, <2>1, SendSBTrack, FlowCall
  <2>3. \A i \in 1 .. Len(s) : s[i].do # "advance"
    BY <1>1, <2>1, SendSBSteps
  <2> QED BY <1>2, <2>2, <2>3 DEF FlowInv
<1>7. CASE Clearing(s)
  <2>1. PICK c \in {0, 1} : s = ClearBuffers(c) \o SendAndWait(SD)
    BY <1>7 DEF Clearing
  <2>2. ClearBuffers(c) \in Seq(Steps) /\ SendAndWait(SD) \in Seq(NeutralSteps)
    BY <1>1, ClearPart, TokenKinds DEF Part
  <2>3. ASSUME NEW m \in MPRs, NEW b \in Selection
        PROVE  \E z \in Selection : Track(View(s, m), b, z)
    <3>1. PICK z \in Selection : Track(View(ClearBuffers(c), m), b, z)
      BY <1>1, ClearTrack
    <3>2. SendAndWait(SD) \in Seq(Steps) /\ Track(View(SendAndWait(SD), m), z, z)
      BY <2>2, NeutralSteady
    <3> HIDE DEF ClearBuffers, SendAndWait
    <3> QED BY <2>1, <2>2, <3>1, <3>2, JoinTracks
  <2>4. ~selected'
    BY <1>7 DEF Clearing
  <2>5. \A m \in MPRs : Flow(m)'
    BY <2>3, <2>4, FlowCall
  <2> QED BY <1>2, <2>4, <2>5 DEF FlowInv
<1>8. CASE Converting(s)
  <2>1. s \in Seq(NeutralSteps)
    BY <1>1, <1>8, NeutralGRB DEF Converting
  <2>2. \A m \in MPRs : Flow(m)'
    BY <1>1, <1>3, <1>8, <2>1, NeutralSteady, FlowCall DEF Converting
  <2> QED BY <1>2, <1>8, <2>2 DEF FlowInv, Converting
<1>9. CASE Swapping(s)
  <2>1. s \in Seq(NeutralSteps)
    BY <1>1, <1>9, NeutralYCC DEF Swapping
  <2>2. \A m \in MPRs : Flow(m)'
    BY <1>9, <2>1, NeutralSteady, FlowCall DEF Swapping
  <2> QED BY <1>2, <1>9, <2>2 DEF FlowInv, Swapping
<1> QED BY <1>4, <1>5, <1>6, <1>7, <1>8, <1>9

(* as does setting up the chain, *)
LEMMA SetupFlow ==
  ASSUME IInv, FlowInv, mdSetupMPRChain
  PROVE  FlowInv'
<1>1. /\ todo = <<>> /\ todo' = todo /\ sb' = sb /\ actbuf' = actbuf
  BY DEF mdSetupMPRChain, Ready
<1>2. target' = target
  BY <1>1 DEF target
<1>3. SUFFICES ASSUME NEW m \in MPRs PROVE Flow(m)'
  BY <1>1 DEF FlowInv
<1>4. PICK b \in Selection, y \in Selection :
        /\ Track(queue[m], sb[m], b) /\ Track(View(todo, m), b, y)
        /\ selected => y = target
  BY DEF FlowInv, Flow
<1>5. CASE Up'
  <2>1. queue'[m] = <<>> /\ ~selected'
    BY <1>5 DEF mdSetupMPRChain
  <2>2. sb[m] \in Selection
    BY DEF IInv, TypeOK, Selection
  <2>3. View(todo, m) = <<>>
    BY <1>1 DEF View
  <2>4. Track(queue'[m], sb'[m], sb[m]) /\ Track(View(todo', m), sb[m], sb[m])
    BY <1>1, <2>1, <2>2, <2>3, TrackNil
  <2> QED BY <2>1, <2>2, <2>4 DEF Flow
<1>6. CASE ~Up'
  <2>1. queue' = queue /\ selected' = selected
    BY <1>6 DEF mdSetupMPRChain
  <2> QED BY <1>1, <1>2, <1>4, <2>1 DEF Flow
<1> QED BY <1>5, <1>6

(* A step of a call has been done that sends nothing. *)
LEMMA StepFlow ==
  ASSUME IInv, FlowInv, todo # <<>>, Head(todo).do # "send",
         todo' = Tail(todo), UNCHANGED <<screen, selected, queue, sb>>,
         actbuf' = actbuf \/ Advance
  PROVE  FlowInv'
<1>1. todo \in Seq(Steps)
  BY DEF IInv, TypeOK
<1>2. selected => target' = target
  <2>1. CASE actbuf' = actbuf
    BY <2>1 DEF target
  <2>2. CASE Advance
    <3>1. todo[1].do = "advance" /\ 1 \in 1 .. Len(todo)
      BY <1>1, <2>2, EmptySeq, HeadTailProperties DEF Advance, Doing
    <3>2. selected => grb
      BY <3>1 DEF FlowInv
    <3>3. grb => actbuf'[0] = actbuf[0]
      BY <2>2 DEF Advance, shown, IInv, TypeOK
    <3> QED BY <3>2, <3>3 DEF target
  <2> QED BY <2>1, <2>2
<1>3. ASSUME NEW m \in MPRs PROVE Flow(m)'
  <2>1. PICK b \in Selection, z \in Selection :
          /\ Track(queue[m], sb[m], b) /\ Track(View(todo, m), b, z)
          /\ selected => z = target
    BY DEF FlowInv, Flow
  <2>2. /\ View(todo, m) # <<>> /\ View(todo, m) \in Seq(Commands)
        /\ Tail(View(todo, m)) = View(Tail(todo), m)
        /\ Head(View(todo, m)) = WaitMDMA
    BY <1>1, ViewTail, ViewType
  <2>3. Track(View(Tail(todo), m), Carry(b, WaitMDMA), z)
    BY <2>1, <2>2, TrackTail
  <2>4. Carry(b, WaitMDMA) = b
    BY DEF Carry, WaitMDMA
  <2> QED BY <1>2, <2>1, <2>3, <2>4 DEF Flow
<1>4. grb' = grb
  BY DEF grb
<1>5. \A i \in 1 .. Len(Tail(todo)) : i + 1 \in 1 .. Len(todo) /\ Tail(todo)[i] = todo[i + 1]
  BY <1>1, EmptySeq, HeadTailProperties
<1> QED BY <1>3, <1>4, <1>5 DEF FlowInv

(* sending the last packet of a command, *)
LEMMA SendFlow ==
  ASSUME IInv, FlowInv, SendLast
  PROVE  FlowInv'
<1> DEFINE s == Head(todo)
           k == s.to
           c == s.cmd
<1>1. todo \in Seq(Steps) /\ todo # <<>> /\ s.do = "send"
  BY DEF IInv, TypeOK, SendLast, Doing
<1>2. k \in MPRs /\ c \in Commands
  BY <1>1, HeadFacts DEF IInv
<1>3. /\ queue \in [MPRs -> Seq(Commands)]
      /\ queue' = [queue EXCEPT ![k] = Append(@, c)]
      /\ todo' = Tail(todo) /\ UNCHANGED <<screen, selected, actbuf, sb>>
  BY DEF IInv, TypeOK, SendLast
<1>4. target' = target /\ grb' = grb
  BY <1>3 DEF target, grb
<1> HIDE DEF k, c
<1>5. ASSUME NEW m \in MPRs PROVE Flow(m)'
  <2>1. PICK b \in Selection, z \in Selection :
          /\ Track(queue[m], sb[m], b) /\ Track(View(todo, m), b, z)
          /\ selected => z = target
    BY DEF FlowInv, Flow
  <2>2. /\ View(todo, m) # <<>> /\ View(todo, m) \in Seq(Commands)
        /\ Tail(View(todo, m)) = View(Tail(todo), m)
        /\ Head(View(todo, m)) = IF k = m THEN c ELSE WaitMDMA
    BY <1>1, ViewTail, ViewType DEF k, c
  <2>3. CASE m = k
    <3>1. /\ Track(View(Tail(todo), m), Carry(b, c), z)
          /\ c.op = "draw" => c.buf = b
      BY <2>1, <2>2, <2>3, TrackTail
    <3>2. Track(Append(queue[m], c), sb[m], Carry(b, c))
      BY <1>2, <1>3, <2>1, <3>1, TrackAppend
    <3>3. Carry(b, c) \in Selection
      BY <1>2, CommandShape DEF Carry, Selection
    <3>4. queue'[m] = Append(queue[m], c)
      BY <1>2, <1>3, <2>3
    <3> QED BY <1>3, <1>4, <2>1, <3>1, <3>2, <3>3, <3>4 DEF Flow
  <2>4. CASE m # k
    <3>1. Track(View(Tail(todo), m), Carry(b, WaitMDMA), z)
      BY <2>1, <2>2, <2>4, TrackTail
    <3>2. Carry(b, WaitMDMA) = b
      BY DEF Carry, WaitMDMA
    <3>3. queue'[m] = queue[m]
      BY <1>2, <1>3, <2>4
    <3> QED BY <1>3, <1>4, <2>1, <3>1, <3>2, <3>3 DEF Flow
  <2> QED BY <2>3, <2>4
<1>6. \A i \in 1 .. Len(Tail(todo)) : i + 1 \in 1 .. Len(todo) /\ Tail(todo)[i] = todo[i + 1]
  BY <1>1, EmptySeq, HeadTailProperties
<1> QED BY <1>3, <1>4, <1>5, <1>6 DEF FlowInv

(* A renderer has executed its first command. *)
LEMMA PopFlow ==
  ASSUME IInv, NEW m \in MPRs, Flow(m), queue[m] # <<>>,
         NEW r, r = Tail(queue[m]) \/ r = <<WaitMDMA>> \o Tail(queue[m]),
         queue'[m] = r, sb'[m] = Carry(sb[m], Head(queue[m])),
         UNCHANGED <<screen, selected, actbuf, todo>>
  PROVE  Flow(m)'
<1>1. queue[m] \in Seq(Commands) /\ target' = target
  BY DEF IInv, TypeOK, target
<1>2. PICK b \in Selection, z \in Selection :
        /\ Track(queue[m], sb[m], b) /\ Track(View(todo, m), b, z)
        /\ selected => z = target
  BY DEF Flow
<1>3. Track(Tail(queue[m]), sb'[m], b) /\ Tail(queue[m]) \in Seq(Commands)
  BY <1>1, <1>2, TrackTail, HeadTailProperties
<1>4. Track(r, sb'[m], b)
  BY <1>3, TrackWait
<1> QED BY <1>1, <1>2, <1>4 DEF Flow

(* and what a renderer does. *)
LEMMA RendererFlow ==
  ASSUME IInv, FlowInv, NEW m \in MPRs, MPR(m) \/ DMADone(m)
  PROVE  FlowInv'
<1>1. /\ UNCHANGED <<screen, selected, actbuf, todo>>
      /\ target' = target /\ grb' = grb
  BY DEF MPR, DMADone, ExecSB, ExecDraw, ExecConv, ExecWait, ExecSync, ExecBreak,
         Halt, mprUnchanged, programVars, target, grb
<1>2. SUFFICES ASSUME NEW n \in MPRs PROVE Flow(n)'
  BY <1>1 DEF FlowInv
<1>3. Flow(n)
  BY DEF FlowInv
<1>4. /\ queue \in [MPRs -> Seq(Commands)] /\ sb \in [MPRs -> Buffers \cup {NoBuffer}]
  BY DEF IInv, TypeOK
<1>5. ASSUME queue'[n] = queue[n], sb'[n] = sb[n] PROVE Flow(n)'
  BY <1>1, <1>3, <1>5 DEF Flow
<1>6. CASE Halt(m) \/ DMADone(m)
  BY <1>5, <1>6 DEF Halt, DMADone
<1>7. CASE ExecSB(m) \/ ExecDraw(m) \/ ExecWait(m) \/ ExecConv(m)
  <2>1. /\ queue[m] # <<>>
        /\ sb' = [sb EXCEPT ![m] = Carry(sb[m], Head(queue[m]))]
    <3>1. CASE ExecSB(m)
      BY <3>1 DEF ExecSB, Executes, Carry
    <3>2. CASE ~ExecSB(m)
      BY <1>4, <1>7, <3>2 DEF ExecDraw, ExecWait, ExecConv, Executes, Carry
    <3> QED BY <3>1, <3>2
  <2>2. \E r : /\ r = Tail(queue[m]) \/ r = <<WaitMDMA>> \o Tail(queue[m])
               /\ queue' = [queue EXCEPT ![m] = r]
    BY <1>7 DEF ExecSB, ExecDraw, ExecWait, ExecConv
  <2>3. CASE n = m
    BY <1>1, <1>3, <1>4, <2>1, <2>2, <2>3, PopFlow
  <2>4. CASE n # m
    BY <1>4, <1>5, <2>1, <2>2, <2>4
  <2> QED BY <2>3, <2>4
<1>8. CASE ExecSync(m) \/ ExecBreak(m)
  <2> DEFINE c == Head(queue[m])
  <2>1. /\ queue[m] # <<>> /\ Token(c) /\ sb' = sb /\ Forward(m)
    BY <1>8 DEF ExecSync, ExecBreak, Executes, Token
  <2>2. c \in Commands /\ \A b : Carry(b, c) = b
    BY <1>4, <2>1, HeadTailProperties DEF Carry, Token
  <2>3. \/ queue' = [queue EXCEPT ![m] = Tail(@)]
        \/ m + 1 \in MPRs /\ queue' = [queue EXCEPT ![m] = Tail(@), ![m + 1] = Append(@, c)]
    BY <2>1 DEF Forward
  <2>4. m # m + 1
    BY ChainFacts
  <2> HIDE DEF c
  <2>5. CASE n = m
    <3>1. queue'[m] = Tail(queue[m])
      BY <1>4, <2>3, <2>4
    <3>2. sb'[m] = Carry(sb[m], Head(queue[m]))
      BY <2>1, <2>2 DEF c
    <3> QED BY <1>1, <1>3, <2>1, <2>5, <3>1, <3>2, PopFlow
  <2>6. CASE n = m + 1 /\ queue'[n] # queue[n]
    <3>1. queue'[n] = Append(queue[n], c)
      BY <1>4, <2>3, <2>4, <2>6
    <3>2. PICK b \in Selection, z \in Selection :
            /\ Track(queue[n], sb[n], b) /\ Track(View(todo, n), b, z)
            /\ selected => z = target
      BY <1>3 DEF Flow
    <3>3. queue[n] \in Seq(Commands) /\ c.op # "draw"
      BY <1>4, <2>1 DEF Token
    <3>4. Track(queue'[n], sb[n], b)
      BY <2>2, <3>1, <3>2, <3>3, TrackAppend
    <3> QED BY <1>1, <2>1, <3>2, <3>4 DEF Flow
  <2>7. CASE n # m /\ ~(n = m + 1 /\ queue'[n] # queue[n])
    <3>1. queue'[n] = queue[n]
      BY <1>4, <2>3, <2>7
    <3> QED BY <1>5, <2>1, <3>1
  <2> QED BY <2>5, <2>6, <2>7
<1> QED BY <1>6, <1>7, <1>8 DEF MPR

(* Every step preserves FlowInv. *)
LEMMA NextFlow ==
  ASSUME IInv, FlowInv, [Next]_vars
  PROVE  FlowInv'
<1>1. CASE UNCHANGED vars \/ Field \/ Stray \/ SendFirst \/ (Await /\ todo' = todo)
  <2>1. UNCHANGED <<screen, selected, actbuf, todo, queue, sb>>
    BY <1>1 DEF vars, Field, Stray, SendFirst, Await, programVars, mprVars
  <2> QED BY <2>1 DEF FlowInv, Flow, target, grb
<1>2. CASE App
  BY <1>2, CallKinds, CallFlow, SetupFlow DEF IInv
<1>3. CASE SendLast
  BY <1>3, SendFlow
<1>4. CASE \/ Await /\ todo' # todo
           \/ VidSync \/ ChangeBase \/ Advance \/ Free
  <2>1. /\ todo # <<>> /\ Head(todo).do # "send" /\ todo' = Tail(todo)
        /\ UNCHANGED <<screen, selected, queue, sb>>
        /\ actbuf' = actbuf \/ Advance
    BY <1>4 DEF Await, VidSync, ChangeBase, Advance, Free, Doing, mprVars
  <2> QED BY <2>1, StepFlow
<1>5. CASE \E m \in MPRs : MPR(m) \/ DMADone(m)
  BY <1>5, RendererFlow
<1> QED BY <1>1, <1>2, <1>3, <1>4, <1>5 DEF Next, Within

(* FlowInv holds initially. *)
LEMMA InitFlow == Init => FlowInv
<1>1. SUFFICES ASSUME Init, NEW m \in MPRs PROVE Flow(m)
  BY DEF Init, FlowInv
<1>2. /\ NoBuffer \in Selection /\ queue[m] = <<>> /\ sb[m] = NoBuffer
      /\ ~selected /\ todo = <<>>
  BY <1>1 DEF Init, Selection
<1>3. View(todo, m) = <<>>
  BY <1>2 DEF View
<1> QED BY <1>2, <1>3, TrackNil DEF Flow

(* FlowInv is an invariant of the specification. *)
LEMMA FlowInvariance == Spec => []FlowInv
<1>1. IInv /\ FlowInv /\ [Next]_vars => FlowInv'
  BY NextFlow
<1> QED BY <1>1, InitFlow, Invariance, PTL DEF Spec

-----------------------------------------------------------------------------
(* Whichever renderer gets a primitive, and whenever it executes it, the      *)
(* primitive is drawn to the buffer that was active when the program drew it. *)
THEOREM DrawnWhereMeantCorrect == Spec => []DrawnWhereMeant
<1>1. IInv /\ FlowInv => DrawnWhereMeant
  <2>1. SUFFICES ASSUME IInv, FlowInv, NEW m \in MPRs, Executes(m, "draw")
                 PROVE  sb[m] = Head(queue[m]).buf
    BY DEF DrawnWhereMeant
  <2>2. PICK b \in Selection : Track(queue[m], sb[m], b)
    BY <2>1 DEF FlowInv, Flow
  <2>3. queue[m] \in Seq(Commands) /\ queue[m] # <<>> /\ Head(queue[m]).op = "draw"
    BY <2>1 DEF IInv, TypeOK, Executes
  <2> QED BY <2>2, <2>3, TrackTail
<1> QED BY <1>1, Invariance, FlowInvariance, PTL

-----------------------------------------------------------------------------
(* Tracks without screen buffers, the parts of a conversion, its steps. *)

(* A set of numbers that is not empty has a least element. *)
LEMMA LeastNumber ==
  ASSUME NEW T \in SUBSET Nat, T # {}
  PROVE  \E x \in T : \A y \in T : x <= y
<1> DEFINE R == OpToRel(<, Nat)
<1>1. \A x, y \in Nat : <<x, y>> \in R <=> x < y
  BY DEF OpToRel
<1>2. IsWellFoundedOn(R, Nat)
  BY NatLessThanWellFounded
<1> HIDE DEF R
<1>3. PICK x \in T : \A y \in T : ~(<<y, x>> \in R)
  BY <1>2, WFMin
<1>4. ASSUME NEW y \in T PROVE x <= y
  <2>1. x \in Nat /\ y \in Nat
    OBVIOUS
  <2>2. <<y, x>> \notin R
    BY <1>3
  <2>3. <<y, x>> \in R <=> y < x
    BY <1>1, <2>1, Zenon
  <2> QED BY <2>1, <2>2, <2>3
<1> QED BY <1>4

(* A track without screen-buffer commands ends where it begins: there is no  *)
(* first place at which it differs.                                          *)
LEMMA TrackStill ==
  ASSUME NEW q \in Seq(Commands), NEW a, NEW z, Track(q, a, z),
         \A i \in 1 .. Len(q) : q[i].op # "sb"
  PROVE  a = z
<1>1. PICK f \in [1 .. Len(q) + 1 -> Selection] :
        /\ f[1] = a /\ f[Len(q) + 1] = z
        /\ \A i \in 1 .. Len(q) : f[i + 1] = Carry(f[i], q[i])
  BY DEF Track
<1> DEFINE T == {i \in Nat : i \in 1 .. Len(q) + 1 /\ f[i] # a}
<1>2. SUFFICES ASSUME T # {} PROVE FALSE
  <2>1. Len(q) + 1 \in Nat /\ Len(q) + 1 \in 1 .. Len(q) + 1
    OBVIOUS
  <2> QED BY <1>1, <2>1
<1>3. PICK x \in T : \A y \in T : x <= y
  <2>1. T \in SUBSET Nat
    OBVIOUS
  <2> HIDE DEF T
  <2> QED BY <1>2, <2>1, LeastNumber
<1>4. x \in Nat /\ x \in 1 .. Len(q) + 1 /\ f[x] # a /\ x # 1
  BY <1>1
<1>5. x - 1 \in Nat /\ x - 1 \in 1 .. Len(q) /\ (x - 1) + 1 = x
  BY <1>4
<1>6. f[x - 1] = a
  <2>1. ~(x <= x - 1)
    BY <1>4
  <2>2. x - 1 \notin T
    BY <1>3, <2>1
  <2>3. x - 1 \in 1 .. Len(q) + 1
    BY <1>5
  <2> QED BY <1>5, <2>2, <2>3
<1>7. f[x] = Carry(f[x - 1], q[x - 1])
  BY <1>1, <1>5
<1> QED BY <1>4, <1>5, <1>6, <1>7 DEF Carry

(* Every line is in one part. *)
LEMMA PartLines ==
  ASSUME NEW other \in Int, NEW i \in Int, i # 1, NEW l \in Int,
         FirstHeight(other) \in Int
  PROVE  l \in ConvLines(other, i) <=>
           /\ FirstHeight(other) + (i - 2) * other <= l
           /\ l < FirstHeight(other) + (i - 1) * other
<1> DEFINE h == FirstHeight(other)
           x == (i - 2) * other
           y == (i - 1) * other
<1>1. ConvLines(other, i) = h + x .. h + y - 1
  BY DEF ConvLines
<1>2. x \in Int /\ y \in Int
  OBVIOUS
<1> HIDE DEF h, x, y
<1>3. l \in ConvLines(other, i) <=> h + x <= l /\ l < h + y
  BY <1>1, <1>2 DEF h
<1> QED BY <1>3 DEF h, x, y

(* Each line is in exactly one of the parts of a conversion. *)
LEMMA LinesParted ==
  ASSUME NEW other \in Others, NEW l \in Lines
  PROVE  \E i \in 1 .. Parts(other) :
           /\ l \in ConvLines(other, i)
           /\ \A j \in 1 .. Parts(other) : l \in ConvLines(other, j) => j = i
<1> DEFINE N == NumMPRs
           h == FirstHeight(other)
<1>1. /\ N \in Nat /\ N >= 1 /\ other \in Nat /\ l \in Nat /\ l < Height
      /\ Height \in Nat
  BY ChainAssumption, ChainFacts DEF Others, Lines
<1>2. h = Height - (N - 1) * other /\ (N - 1) * other \in Nat
  BY <1>1 DEF FirstHeight
<1>3. 0 .. h - 1 = ConvLines(other, 1)
  BY DEF ConvLines
<1>4. CASE other = 0
  <2>1. Parts(other) = 1
    BY <1>1, <1>4 DEF Parts
  <2>2. h = Height
    BY <1>1, <1>2, <1>4
  <2>3. l \in ConvLines(other, 1)
    BY <1>1, <1>3, <2>2
  <2> QED BY <2>1, <2>3
<1>5. CASE other # 0
  <2>1. Parts(other) = N
    BY <1>1, <1>5 DEF Parts
  <2>2. \A i \in 1 .. N : l \in ConvLines(other, i) <=>
          IF i = 1 THEN l < h
          ELSE h + (i - 2) * other <= l /\ l < h + (i - 1) * other
    <3>1. TAKE i \in 1 .. N
    <3>2. CASE i = 1
      BY <1>1, <1>2, <1>3, <3>2
    <3>3. CASE i # 1
      <4>1. FirstHeight(other) \in Int
        BY <1>1, <1>2
      <4> QED BY <1>1, <3>3, <4>1, PartLines
    <3> QED BY <3>2, <3>3
  <2> HIDE DEF h
  <2>3. h \in Int
    BY <1>1, <1>2
  <2>4. ASSUME NEW i \in 1 .. N, NEW j \in 1 .. N, i < j,
               l \in ConvLines(other, i), l \in ConvLines(other, j)
        PROVE  FALSE
    <3>1. j # 1 /\ h + (j - 2) * other <= l
      BY <2>2, <2>4
    <3>2. (j - 2) * other \in Int /\ (j - 2) * other >= 0
      BY <1>1, <2>4
    <3>3. CASE i = 1
      <4>1. l < h
        BY <2>2, <2>4, <3>3
      <4> QED BY <1>1, <2>3, <3>1, <3>2, <4>1
    <3>4. CASE i # 1
      <4>1. l < h + (i - 1) * other
        BY <2>2, <2>4, <3>4
      <4>2. (i - 1) * other <= (j - 2) * other /\ (i - 1) * other \in Int
        BY <1>1, <2>4
      <4> QED BY <1>1, <2>3, <3>1, <3>2, <4>1, <4>2
    <3> QED BY <3>3, <3>4
  <2>5. \E i \in 1 .. N : l \in ConvLines(other, i)
    <3>1. CASE l < h
      BY <1>1, <2>2, <3>1
    <3>2. CASE ~(l < h)
      <4> DEFINE d == (l - h) \div other
      <4>1. l - h \in Nat /\ other \in Nat /\ other > 0
        BY <1>1, <1>5, <2>3, <3>2
      <4>2. d \in Int /\ d >= 0 /\ d * other <= l - h /\ l - h < d * other + other
        BY <4>1, Z3
      <4> HIDE DEF d
      <4>3. l - h < (N - 1) * other
        BY <1>1, <1>2, <2>3
      <4>4. d < N - 1
        <5>1. SUFFICES ASSUME d >= N - 1 PROVE FALSE
          BY <1>1, <4>2
        <5>2. d * other >= (N - 1) * other
          BY <1>1, <4>1, <4>2, <5>1
        <5>3. d * other \in Int /\ (N - 1) * other \in Int
          BY <1>1, <4>2
        <5> QED BY <2>3, <1>1, <4>2, <4>3, <5>2, <5>3
      <4> DEFINE i == d + 2
      <4>5. i \in 1 .. N /\ i # 1 /\ i - 2 = d /\ i - 1 = d + 1
        BY <1>1, <4>2, <4>4
      <4>6. (d + 1) * other = d * other + other /\ d * other \in Int
        BY <4>1, <4>2
      <4>7. h + (i - 2) * other <= l /\ l < h + (i - 1) * other
        BY <1>1, <2>3, <4>2, <4>5, <4>6
      <4> HIDE DEF i
      <4> QED BY <2>2, <4>5, <4>7
    <3> QED BY <3>1, <3>2
  <2>6. PICK i \in 1 .. N : l \in ConvLines(other, i)
    BY <2>5
  <2>7. \A j \in 1 .. N : l \in ConvLines(other, j) => j = i
    <3>1. TAKE j \in 1 .. N
    <3>2. HAVE l \in ConvLines(other, j)
    <3>3. ~(i < j) /\ ~(j < i)
      BY <2>4, <2>6, <3>2
    <3> QED BY <1>1, <3>3
  <2> QED BY <2>1, <2>6, <2>7
<1> QED BY <1>4, <1>5

(* The steps of SwapDrawBufGRB, counted from the end. *)
LEMMA GRBList ==
  ASSUME TypeOK, NEW other \in Others
  PROVE  LET s == GRBSteps(other)
             r == Parts(other) + 7
         IN  /\ s \in Seq(Steps) /\ Len(s) = r
             /\ \A j \in 1 .. r : s[j] = GRBStep(other, r + 1 - j)
<1> DEFINE n == Parts(other)
           x == Send(Start, SD, FALSE)
           w == Step("await")
           v == Step("vidsync")
           b == Step("base")
           a == Step("advance")
           p == <<x, w>>
           c == SendConv(other)
           e(i) == Send(Start + i - 1, Part1(other, i), TRUE)
           g(r) == GRBStep(other, r)
<1>1. /\ n \in Nat /\ c \in Seq(Steps) /\ Len(c) = n
      /\ \A i \in 1 .. n : c[i] = e(i)
  BY ConvSteps
<1>2. x \in Steps /\ w \in Steps /\ v \in Steps /\ b \in Steps /\ a \in Steps
  BY ChainFacts, TokenFacts, SendFacts, StepFacts
<1>3. /\ g(1) = a /\ g(2) = b /\ g(3) = w /\ g(4) = x
      /\ g(n + 5) = v /\ g(n + 6) = w /\ g(n + 7) = x
      /\ \A r \in 5 .. n + 4 : g(r) = e(n + 5 - r)
  <2>1. n = Parts(other)
    OBVIOUS
  <2> HIDE DEF n, x, w, v, b, a
  <2>2. \A r : GRBStep(other, r) =
          IF r \in 5 .. n + 4 THEN e(n + 5 - r)
          ELSE IF r \in {4, n + 7} THEN x
          ELSE IF r \in {3, n + 6} THEN w
          ELSE IF r = n + 5 THEN v
          ELSE IF r = 2 THEN b
          ELSE a
    BY <2>1 DEF GRBStep, x, w, v, b, a
  <2> HIDE DEF e
  <2> QED BY <1>1, <2>2
<1> HIDE DEF n, x, w, v, b, a, c, e, g
<1>4. /\ p \in Seq(Steps) /\ Len(p) = 2 /\ p[1] = x /\ p[2] = w
      /\ <<v>> \in Seq(Steps) /\ Len(<<v>>) = 1 /\ <<v>>[1] = v
      /\ <<b, a>> \in Seq(Steps) /\ Len(<<b, a>>) = 2
      /\ <<b, a>>[1] = b /\ <<b, a>>[2] = a
  BY <1>2
<1> HIDE DEF p
<1> DEFINE s1 == p \o <<v>>
           s2 == s1 \o c
           s3 == s2 \o p
           s4 == s3 \o <<b, a>>
<1>5. s1 \in Seq(Steps) /\ Len(s1) = 3 /\ s1[1] = x /\ s1[2] = w /\ s1[3] = v
  <2>1. /\ s1 \in Seq(Steps) /\ Len(s1) = Len(p) + Len(<<v>>)
        /\ \A i \in 1 .. Len(p) + Len(<<v>>) :
             s1[i] = IF i <= Len(p) THEN p[i] ELSE <<v>>[i - Len(p)]
    BY <1>4, ConcatProperties
  <2> HIDE DEF s1
  <2> QED BY <1>4, <2>1
<1> HIDE DEF s1
<1>6. /\ s2 \in Seq(Steps) /\ Len(s2) = n + 3
      /\ \A i \in 1 .. n + 3 : s2[i] = IF i <= 3 THEN s1[i] ELSE c[i - 3]
  <2>1. /\ s2 \in Seq(Steps) /\ Len(s2) = Len(s1) + Len(c)
        /\ \A i \in 1 .. Len(s1) + Len(c) :
             s2[i] = IF i <= Len(s1) THEN s1[i] ELSE c[i - Len(s1)]
    BY <1>1, <1>5, ConcatProperties
  <2> HIDE DEF s2
  <2> QED BY <1>1, <1>5, <2>1
<1> HIDE DEF s2
<1>7. /\ s3 \in Seq(Steps) /\ Len(s3) = n + 5
      /\ \A i \in 1 .. n + 5 : s3[i] = IF i <= n + 3 THEN s2[i] ELSE p[i - (n + 3)]
  <2>1. /\ s3 \in Seq(Steps) /\ Len(s3) = Len(s2) + Len(p)
        /\ \A i \in 1 .. Len(s2) + Len(p) :
             s3[i] = IF i <= Len(s2) THEN s2[i] ELSE p[i - Len(s2)]
    BY <1>4, <1>6, ConcatProperties
  <2> HIDE DEF s3
  <2> QED BY <1>1, <1>4, <1>6, <2>1
<1> HIDE DEF s3
<1>8. /\ s4 \in Seq(Steps) /\ Len(s4) = n + 7
      /\ \A i \in 1 .. n + 7 : s4[i] = IF i <= n + 5 THEN s3[i] ELSE <<b, a>>[i - (n + 5)]
  <2>1. /\ s4 \in Seq(Steps) /\ Len(s4) = Len(s3) + Len(<<b, a>>)
        /\ \A i \in 1 .. Len(s3) + Len(<<b, a>>) :
             s4[i] = IF i <= Len(s3) THEN s3[i] ELSE <<b, a>>[i - Len(s3)]
    BY <1>4, <1>7, ConcatProperties
  <2> HIDE DEF s4
  <2> QED BY <1>1, <1>4, <1>7, <2>1
<1> HIDE DEF s4
<1>9. ASSUME NEW j \in 1 .. n + 7
      PROVE  s4[j] = g(n + 8 - j)
  <2>1. CASE j = 1
    BY <1>1, <1>3, <1>5, <1>6, <1>7, <1>8, <2>1
  <2>2. CASE j = 2
    BY <1>1, <1>3, <1>5, <1>6, <1>7, <1>8, <2>2
  <2>3. CASE j = 3
    BY <1>1, <1>3, <1>5, <1>6, <1>7, <1>8, <2>3
  <2>4. CASE j \in 4 .. n + 3
    <3>1. s4[j] = s3[j] /\ s3[j] = s2[j] /\ s2[j] = c[j - 3]
      <4>1. j \in 1 .. n + 7 /\ j <= n + 5 /\ j \in 1 .. n + 5 /\ j <= n + 3
            /\ j \in 1 .. n + 3 /\ ~(j <= 3)
        BY <1>1, <2>4
      <4> QED BY <1>6, <1>7, <1>8, <4>1
    <3>2. j - 3 \in 1 .. n /\ n + 8 - j \in 5 .. n + 4 /\ n + 5 - (n + 8 - j) = j - 3
      BY <1>1, <2>4
    <3> QED BY <1>1, <1>3, <3>1, <3>2
  <2>5. CASE j = n + 4
    <3>1. s4[j] = s3[j] /\ s3[j] = p[1] /\ n + 8 - j = 4
      BY <1>1, <1>7, <1>8, <2>5
    <3> QED BY <1>3, <1>4, <3>1
  <2>6. CASE j = n + 5
    <3>1. s4[j] = s3[j] /\ s3[j] = p[2] /\ n + 8 - j = 3
      BY <1>1, <1>7, <1>8, <2>6
    <3> QED BY <1>3, <1>4, <3>1
  <2>7. CASE j = n + 6
    <3>1. j - (n + 5) = 1 /\ ~(j <= n + 5) /\ n + 8 - j = 2
      BY <1>1, <2>7
    <3>2. s4[j] = <<b, a>>[1]
      BY <1>8, <3>1
    <3> QED BY <1>3, <1>4, <3>1, <3>2
  <2>8. CASE j = n + 7
    <3>1. j - (n + 5) = 2 /\ ~(j <= n + 5) /\ n + 8 - j = 1
      BY <1>1, <2>8
    <3>2. s4[j] = <<b, a>>[2]
      BY <1>8, <3>1
    <3> QED BY <1>3, <1>4, <3>1, <3>2
  <2> QED BY <1>1, <2>1, <2>2, <2>3, <2>4, <2>5, <2>6, <2>7, <2>8
<1>10. GRBSteps(other) = s4
  BY DEF GRBSteps, SendAndWait, s4, s3, s2, s1, p, c, x, w, v, b, a
<1>11. ASSUME NEW j \in 1 .. n + 7
       PROVE  s4[j] = GRBStep(other, (n + 7) + 1 - j)
  <2>1. (n + 7) + 1 - j = n + 8 - j
    BY <1>1
  <2> QED BY <1>9, <2>1 DEF g
<1> QED BY <1>8, <1>10, <1>11 DEF n

-----------------------------------------------------------------------------
(* How far a swap has come. *)

(* The next step of a GRB swap, by the number of steps left. *)
LEMMA GRBHead ==
  ASSUME TypeOK, NEW other \in Others, GRBStage(other)
  PROVE  LET n == Parts(other)
             r == Len(todo)
             e == Head(todo)
             i == n + 5 - r
         IN  /\ n \in Nat /\ n <= NumMPRs /\ r \in Nat /\ r >= 1 /\ todo # <<>>
             /\ Tail(todo) \in Seq(Steps) /\ Len(Tail(todo)) = r - 1
             /\ \A j \in 1 .. r - 1 : Tail(todo)[j] = GRBStep(other, r - j)
             /\ r \in 5 .. n + 4 =>
                  /\ e.do = "send" /\ e.cmd = Part1(other, i) /\ e.to = Start + i - 1
                  /\ i \in 1 .. n
             /\ r \in {4, n + 7} => e.do = "send" /\ e.cmd = SD /\ e.isLong = FALSE
             /\ r \in {3, n + 6} => e.do = "await"
             /\ r = n + 5 => e.do = "vidsync"
             /\ r = 2 => e.do = "base"
             /\ r = 1 => e.do = "advance"
             /\ r \in 5 .. n + 4 \/ r \in {1, 2, 3, 4, n + 5, n + 6, n + 7}
<1> DEFINE n == Parts(other)
           r == Len(todo)
           e == Head(todo)
           i == n + 5 - r
<1>1. n \in Nat /\ n <= NumMPRs
  BY ConvSteps
<1>2. /\ todo \in Seq(Steps) /\ r \in Nat /\ r \in 1 .. n + 7
      /\ \A j \in 1 .. r : todo[j] = GRBStep(other, r + 1 - j)
  BY DEF GRBStage, TypeOK
<1>3. todo # <<>>
  BY <1>1, <1>2
<1>4. /\ e = todo[1] /\ Tail(todo) \in Seq(Steps) /\ Len(Tail(todo)) = r - 1
      /\ \A j \in 1 .. r - 1 : Tail(todo)[j] = todo[j + 1]
  BY <1>2, <1>3, HeadTailProperties
<1>5. e = GRBStep(other, r)
  <2>1. 1 \in 1 .. r /\ r + 1 - 1 = r
    BY <1>1, <1>2
  <2> QED BY <1>2, <1>4, <2>1
<1>6. \A j \in 1 .. r - 1 : Tail(todo)[j] = GRBStep(other, r - j)
  <2>1. TAKE j \in 1 .. r - 1
  <2>2. j + 1 \in 1 .. r /\ r + 1 - (j + 1) = r - j
    BY <1>2
  <2> QED BY <1>2, <1>4, <2>2
<1> HIDE DEF n, r, e
<1>7. ASSUME r \in 5 .. n + 4
      PROVE  /\ e.do = "send" /\ e.cmd = Part1(other, i) /\ e.to = Start + i - 1
             /\ i \in 1 .. n
  <2>1. i \in 1 .. n
    BY <1>1, <1>7
  <2>2. e = Send(Start + i - 1, Part1(other, i), TRUE)
    BY <1>5, <1>7 DEF GRBStep, n
  <2>3. Start + i - 1 \in MPRs /\ Part1(other, i) \in Commands
    BY <2>1, ConvSteps DEF n
  <2> QED BY <2>1, <2>2, <2>3, SendFacts
<1>8. \A k \in {1, 2, 3, 4, n + 5, n + 6, n + 7} : k \notin 5 .. n + 4
  BY <1>1
<1>9. r \in {4, n + 7} => e.do = "send" /\ e.cmd = SD /\ e.isLong = FALSE
  <2>1. r \in {4, n + 7} => e = Send(Start, SD, FALSE)
    BY <1>5, <1>8 DEF GRBStep, n
  <2> QED BY <2>1 DEF Send
<1>10. r \in {3, n + 6} => e.do = "await"
  <2>1. r \in {3, n + 6} => r \notin {4, n + 7}
    BY <1>1
  <2>2. r \in {3, n + 6} => e = Step("await")
    BY <1>5, <1>8, <2>1 DEF GRBStep, n
  <2> QED BY <2>2, StepFacts
<1>11. r = n + 5 => e.do = "vidsync"
  <2>1. r = n + 5 => r \notin {4, n + 7} /\ r \notin {3, n + 6}
    BY <1>1
  <2>2. r = n + 5 => e = Step("vidsync")
    BY <1>5, <1>8, <2>1 DEF GRBStep, n
  <2> QED BY <2>2, StepFacts
<1>12. r = 2 => e.do = "base"
  <2>1. r = 2 => r \notin {4, n + 7} /\ r \notin {3, n + 6} /\ r # n + 5
    BY <1>1
  <2>2. r = 2 => e = Step("base")
    BY <1>5, <1>8, <2>1 DEF GRBStep, n
  <2> QED BY <2>2, StepFacts
<1>13. r = 1 => e.do = "advance"
  <2>1. r = 1 => r \notin {4, n + 7} /\ r \notin {3, n + 6} /\ r # n + 5 /\ r # 2
    BY <1>1
  <2>2. r = 1 => e = Step("advance")
    BY <1>5, <1>8, <2>1 DEF GRBStep, n
  <2> QED BY <2>2, StepFacts
<1>14. r \in 5 .. n + 4 \/ r \in {1, 2, 3, 4, n + 5, n + 6, n + 7}
  BY <1>1, <1>2
<1>15. r >= 1
  BY <1>2
<1> HIDE DEF i
<1> QED BY <1>1, <1>2, <1>3, <1>4, <1>6, <1>7, <1>9, <1>10, <1>11, <1>12, <1>13, <1>14,
           <1>15, Zenon DEF n, r, e, i

(* The next step of a YCC swap, by what is left of it. *)
LEMMA YCCHead ==
  ASSUME TypeOK, YCCStage
  PROVE  /\ todo # <<>> /\ Head(todo).do \in {"vidsync", "base", "advance"}
         /\ \A i \in 1 .. Len(todo) : todo[i].do # "send"
         /\ Head(todo).do = "advance" => Tail(todo) = <<>>
         /\ Head(todo).do = "vidsync" /\ numbuf(0) = 2 => Tail(todo) = <<Step("advance")>>
         /\ Head(todo).do = "vidsync" /\ numbuf(0) # 2 =>
              numbuf(0) = 3 /\ Tail(todo) = <<Step("base"), Step("advance")>>
         /\ Head(todo).do = "base" /\ numbuf(0) = 2 =>
              Tail(todo) = <<Step("vidsync"), Step("advance")>>
         /\ Head(todo).do = "base" /\ numbuf(0) # 2 =>
              numbuf(0) = 3 /\ newField /\ Tail(todo) = <<Step("advance")>>
<1> DEFINE v == Step("vidsync")
           b == Step("base")
           a == Step("advance")
<1>1. /\ v \in Steps /\ b \in Steps /\ a \in Steps
      /\ v.do = "vidsync" /\ b.do = "base" /\ a.do = "advance"
  BY StepFacts
<1> HIDE DEF v, b, a
<1>2. ASSUME NEW x \in {v, b, a}
      PROVE  /\ <<x>> # <<>> /\ Head(<<x>>) = x /\ Tail(<<x>>) = <<>>
             /\ \A i \in 1 .. Len(<<x>>) : <<x>>[i] = x
  BY <1>1
<1>3. ASSUME NEW x \in {v, b, a}, NEW y \in {v, b, a}
      PROVE  /\ <<x, y>> # <<>> /\ Head(<<x, y>>) = x /\ Tail(<<x, y>>) = <<y>>
             /\ \A i \in 1 .. Len(<<x, y>>) : <<x, y>>[i] \in {x, y}
  BY <1>1
<1>4. ASSUME NEW x \in {v, b, a}, NEW y \in {v, b, a}, NEW z \in {v, b, a}
      PROVE  /\ <<x, y, z>> # <<>> /\ Head(<<x, y, z>>) = x /\ Tail(<<x, y, z>>) = <<y, z>>
             /\ \A i \in 1 .. Len(<<x, y, z>>) : <<x, y, z>>[i] \in {x, y, z}
  BY <1>1
<1> HIDE DEF numbuf
<1>5. CASE todo = <<a>>
  BY <1>1, <1>2, <1>5
<1>6. CASE numbuf(0) = 2 /\ todo = <<v, a>>
  BY <1>1, <1>3, <1>6 DEF a
<1>7. CASE numbuf(0) = 2 /\ todo = <<b, v, a>>
  BY <1>1, <1>4, <1>7 DEF a, v
<1>8. CASE numbuf(0) = 3 /\ newField /\ todo = <<b, a>>
  BY <1>1, <1>3, <1>8 DEF a
<1>9. CASE numbuf(0) = 3 /\ todo = <<v, b, a>>
  BY <1>1, <1>4, <1>9 DEF a, b
<1> QED BY <1>5, <1>6, <1>7, <1>8, <1>9 DEF YCCStage, v, b, a

(* What is left of a call that is not a swap is not one after its first      *)
(* step.                                                                     *)
LEMMA OrdinaryHead ==
  ASSUME TypeOK, Ordinary, todo # <<>>
  PROVE  /\ ~SwapStep(Head(todo))
         /\ \A i \in 1 .. Len(Tail(todo)) : ~SwapStep(Tail(todo)[i])
<1>1. /\ todo \in Seq(Steps) /\ Len(todo) \in Nat /\ Len(todo) >= 1
      /\ Head(todo) = todo[1] /\ Len(Tail(todo)) = Len(todo) - 1
      /\ \A i \in 1 .. Len(Tail(todo)) : Tail(todo)[i] = todo[i + 1]
  BY EmptySeq, HeadTailProperties DEF TypeOK
<1>2. \A i \in 1 .. Len(Tail(todo)) : i + 1 \in 1 .. Len(todo)
  BY <1>1
<1> HIDE DEF SwapStep
<1> QED BY <1>1, <1>2 DEF Ordinary

(* Commands in the rings after a renderer's step. *)
LEMMA RendererQueues ==
  ASSUME IInv, NEW m \in MPRs, MPR(m) \/ DMADone(m), NEW n \in MPRs
  PROVE  /\ \A c \in Waiting(n)' : c \in Waiting(n) \/ c.op \in {"wait", "sync", "break"}
         /\ OneConv(queue[n]) => OneConv(queue'[n])
         /\ \A c \in Waiting(n) : Conversion(c) /\ ~(n = m /\ ExecConv(m))
               => c \in Waiting(n)'
<1>1. queue \in [MPRs -> Seq(Commands)] /\ queue[m] \in Seq(Commands) /\ queue[n] \in Seq(Commands)
  BY DEF IInv, TypeOK
<1>2. WaitMDMA.op = "wait"
  BY DEF WaitMDMA
<1>3. ASSUME queue'[n] = queue[n]
      PROVE  /\ \A c \in Waiting(n)' : c \in Waiting(n)
             /\ OneConv(queue[n]) => OneConv(queue'[n])
             /\ \A c \in Waiting(n) : c \in Waiting(n)'
  BY <1>3 DEF Waiting
<1>4. ASSUME n = m, queue[m] # <<>>,
             queue'[m] = Tail(queue[m]) \/ queue'[m] = <<WaitMDMA>> \o Tail(queue[m])
      PROVE  /\ \A c \in Waiting(n)' : c \in Waiting(n) \/ c = WaitMDMA
             /\ OneConv(queue[n]) => OneConv(queue'[n])
             /\ \A c \in Waiting(n) : c = Head(queue[m]) \/ c \in Waiting(n)'
  BY <1>1, <1>4, Popped DEF Waiting
<1>5. CASE Halt(m) \/ DMADone(m)
  BY <1>3, <1>5 DEF Halt, DMADone
<1>6. CASE ExecSB(m) \/ ExecDraw(m) \/ ExecWait(m) \/ ExecConv(m)
  <2>1. /\ queue[m] # <<>>
        /\ ~ExecConv(m) => ~Conversion(Head(queue[m]))
    BY <1>6 DEF ExecSB, ExecDraw, ExecWait, ExecConv, Executes, Conversion
  <2>2. \E r : /\ r = Tail(queue[m]) \/ r = <<WaitMDMA>> \o Tail(queue[m])
               /\ queue' = [queue EXCEPT ![m] = r]
    BY <1>6 DEF ExecSB, ExecDraw, ExecWait, ExecConv
  <2>3. CASE n = m
    <3>1. queue'[m] = Tail(queue[m]) \/ queue'[m] = <<WaitMDMA>> \o Tail(queue[m])
      BY <1>1, <2>2
    <3> QED BY <1>2, <1>4, <2>1, <2>3, <3>1
  <2>4. CASE n # m
    <3>1. queue'[n] = queue[n]
      BY <1>1, <2>2, <2>4
    <3> QED BY <1>3, <3>1
  <2> QED BY <2>3, <2>4
<1>7. CASE ExecSync(m) \/ ExecBreak(m)
  <2> DEFINE d == Head(queue[m])
  <2>1. queue[m] # <<>> /\ d.op \in {"sync", "break"} /\ Forward(m)
    BY <1>7 DEF ExecSync, ExecBreak, Executes
  <2>2. d \in Commands /\ ~Conversion(d)
    BY <1>1, <2>1, HeadTailProperties DEF Conversion
  <2>3. \/ queue' = [queue EXCEPT ![m] = Tail(@)]
        \/ m + 1 \in MPRs /\ queue' = [queue EXCEPT ![m] = Tail(@), ![m + 1] = Append(@, d)]
    BY <2>1 DEF Forward
  <2>4. m # m + 1
    BY ChainFacts
  <2> HIDE DEF d
  <2>5. CASE n = m
    <3>1. queue'[m] = Tail(queue[m])
      BY <1>1, <2>3, <2>4
    <3> QED BY <1>2, <1>4, <2>1, <2>2, <2>5, <3>1 DEF d
  <2>6. CASE n = m + 1 /\ queue'[n] # queue[n]
    <3>1. queue'[n] = Append(queue[n], d)
      BY <1>1, <2>3, <2>4, <2>6
    <3>2. /\ ToSet(queue'[n]) = ToSet(queue[n]) \cup {d}
          /\ OneConv(queue[n]) => OneConv(queue'[n])
      BY <1>1, <2>2, <3>1, Pushed
    <3> QED BY <2>1, <3>2 DEF Waiting
  <2>7. CASE n # m /\ ~(n = m + 1 /\ queue'[n] # queue[n])
    <3>1. queue'[n] = queue[n]
      BY <1>1, <2>3, <2>7
    <3> QED BY <1>3, <3>1
  <2> QED BY <2>5, <2>6, <2>7
<1> QED BY <1>5, <1>6, <1>7 DEF MPR

(* A conversion that is executed was in the ring, and no other is left       *)
(* there.                                                                    *)
LEMMA ConvQueue ==
  ASSUME IInv, NEW m \in MPRs, ExecConv(m)
  PROVE  /\ Head(queue[m]) \in Waiting(m) /\ Conversion(Head(queue[m]))
         /\ Head(queue[m]) \in Commands
         /\ OneConv(queue[m]) => \A c \in Waiting(m)' : ~Conversion(c)
<1>1. queue \in [MPRs -> Seq(Commands)] /\ queue[m] \in Seq(Commands) /\ queue[m] # <<>>
  BY DEF IInv, TypeOK, ExecConv, Executes
<1>2. queue'[m] = <<WaitMDMA>> \o Tail(queue[m])
  BY <1>1 DEF ExecConv
<1>3. Conversion(Head(queue[m]))
  BY DEF ExecConv, Executes, Conversion
<1>4. /\ Head(queue[m]) \in ToSet(queue[m])
      /\ OneConv(queue[m]) /\ Conversion(Head(queue[m])) =>
           \A c \in ToSet(queue'[m]) : ~Conversion(c)
  BY <1>1, <1>2, Popped
<1>5. Head(queue[m]) \in Commands
  BY <1>1, HeadTailProperties
<1> QED BY <1>3, <1>4, <1>5 DEF Waiting

(* Commands in the rings after one has been sent. *)
LEMMA SentQueues ==
  ASSUME IInv, SendLast
  PROVE  LET s == Head(todo)
         IN  /\ s.to \in MPRs /\ s.cmd \in Commands
             /\ ToSet(queue'[s.to]) = Waiting(s.to) \cup {s.cmd}
             /\ \A m \in MPRs : m # s.to => queue'[m] = queue[m] /\ Waiting(m)' = Waiting(m)
             /\ OneConv(queue[s.to])
                  /\ (~Conversion(s.cmd) \/ \A c \in Waiting(s.to) : ~Conversion(c))
                => OneConv(queue'[s.to])
<1> DEFINE s == Head(todo)
           k == s.to
           c == s.cmd
<1>1. k \in MPRs /\ c \in Commands
  BY HeadFacts DEF IInv, SendLast, Doing
<1>2. queue \in [MPRs -> Seq(Commands)] /\ queue' = [queue EXCEPT ![k] = Append(@, c)]
  BY DEF IInv, TypeOK, SendLast
<1> HIDE DEF k, c
<1>3. queue'[k] = Append(queue[k], c) /\ \A m \in MPRs : m # k => queue'[m] = queue[m]
  BY <1>1, <1>2
<1>4. /\ ToSet(queue'[k]) = ToSet(queue[k]) \cup {c}
      /\ OneConv(queue[k]) /\ (~Conversion(c) \/ \A e \in ToSet(queue[k]) : ~Conversion(e))
           => OneConv(queue'[k])
  BY <1>1, <1>2, <1>3, Pushed
<1>5. /\ ToSet(queue'[k]) = Waiting(k) \cup {c}
      /\ OneConv(queue[k]) /\ (~Conversion(c) \/ \A e \in Waiting(k) : ~Conversion(e))
           => OneConv(queue'[k])
      /\ \A m \in MPRs : m # k => queue'[m] = queue[m] /\ Waiting(m)' = Waiting(m)
  BY <1>3, <1>4 DEF Waiting
<1> QED BY <1>1, <1>5 DEF k, c

-----------------------------------------------------------------------------
(* Every step keeps what the swaps rely on. *)

(* The program stays where it is in its call. *)
LEMMA StageKept ==
  ASSUME UNCHANGED <<screen, actbuf, selected, todo>>,
         synced => synced', newField => newField'
  PROVE  /\ Ordinary => Ordinary'
         /\ YCCStage => YCCStage'
         /\ \A other \in Others : GRBStage(other) => GRBStage(other)'
<1>1. Ordinary => Ordinary'
  BY DEF Ordinary
<1>2. YCCStage => YCCStage'
  BY DEF YCCStage, grb, numbuf
<1>3. ASSUME NEW other \in Others, GRBStage(other)
      PROVE  GRBStage(other)'
  <2>1. \A r : GRBStep(other, r)' = GRBStep(other, r)
    BY DEF GRBStep, Part1
  <2>2. grb' = grb
    BY DEF grb
  <2> QED BY <1>3, <2>1, <2>2 DEF GRBStage
<1> QED BY <1>1, <1>2, <1>3

(* The rings, the renderers' buffers and the lines stay as they are. *)
LEMMA DataKept ==
  ASSUME UNCHANGED <<screen, actbuf, todo, queue, sb, dma, converted>>
  PROVE  /\ NoConversion => NoConversion'
         /\ \A other \in Others : PartsInv(other) => PartsInv(other)'
         /\ \A other \in Others : FinishedInv(other) => FinishedInv(other)'
<1>1. NoConversion => NoConversion'
  BY DEF NoConversion, Waiting
<1>2. ASSUME NEW other \in Others
      PROVE  /\ \A i : Part1(other, i)' = Part1(other, i)
             /\ \A i : Sent(other, i)' <=> Sent(other, i)
             /\ \A m : Waiting(m)' = Waiting(m)
             /\ target' = target
  BY DEF Part1, Sent, Waiting, target
<1>3. \A other \in Others : PartsInv(other) => PartsInv(other)'
  BY <1>2 DEF PartsInv
<1>4. \A other \in Others : FinishedInv(other) => FinishedInv(other)'
  BY <1>2 DEF FinishedInv
<1> QED BY <1>1, <1>3, <1>4

(* Steps that touch neither calls nor rings nor conversions preserve         *)
(* CallInv.                                                                  *)
LEMMA StayCall ==
  ASSUME IInv, CallInv,
         UNCHANGED <<screen, actbuf, selected, todo, queue, sb, dma, converted>>,
         SendFirst \/ ((synced => synced') /\ (newField => newField'))
  PROVE  CallInv'
<1>1. CASE SendFirst
  <2>1. todo # <<>> /\ Head(todo).do = "send" /\ Head(todo).isLong /\ newField' = newField
    BY <1>1 DEF SendFirst, Doing, videoVars
  <2>2. CASE (Ordinary \/ YCCStage) /\ NoConversion
    <3>1. ~YCCStage
      BY <2>1, YCCHead DEF IInv
    <3>2. Ordinary'
      BY <2>2, <3>1 DEF Ordinary
    <3> QED BY <2>2, <3>2, DataKept DEF CallInv
  <2>3. ASSUME NEW other \in Others,
               GRBStage(other), PartsInv(other), FinishedInv(other)
        PROVE  CallInv'
    <3>1. Len(todo) \notin {Parts(other) + 5, 2, 1}
      BY <2>1, <2>3, GRBHead DEF IInv
    <3>2. \A r : GRBStep(other, r)' = GRBStep(other, r)
      BY DEF GRBStep, Part1
    <3>3. grb' = grb
      BY DEF grb
    <3>4. GRBStage(other)'
      BY <2>1, <2>3, <3>1, <3>2, <3>3 DEF GRBStage
    <3> QED BY <2>3, <3>4, DataKept DEF CallInv
  <2> QED BY <2>2, <2>3 DEF CallInv
<1>2. CASE (synced => synced') /\ (newField => newField')
  BY <1>2, StageKept, DataKept DEF CallInv
<1> QED BY <1>1, <1>2

(* A renderer goes on. *)
LEMMA RendererCall ==
  ASSUME IInv, CallInv, NEW m \in MPRs, MPR(m) \/ DMADone(m)
  PROVE  CallInv'
<1>1. UNCHANGED <<screen, actbuf, selected, todo, synced, newField>>
  BY DEF MPR, DMADone, ExecSB, ExecDraw, ExecConv, ExecWait, ExecSync, ExecBreak,
         Halt, mprUnchanged, programVars, videoVars
<1>2. converted' = converted \/ ExecConv(m)
  BY DEF MPR, DMADone, ExecSB, ExecDraw, ExecWait, ExecSync, ExecBreak, Halt
<1>3. CASE (Ordinary \/ YCCStage) /\ NoConversion
  <2>1. ~ExecConv(m)
    BY <1>3, ConvQueue DEF NoConversion, Conversion
  <2>2. NoConversion'
    BY <1>2, <1>3, <2>1, RendererQueues DEF NoConversion
  <2> QED BY <1>1, <1>3, <2>2, StageKept DEF CallInv
<1>4. ASSUME NEW other \in Others,
             GRBStage(other), PartsInv(other), FinishedInv(other)
      PROVE  CallInv'
  <2> DEFINE n == Parts(other)
             P(i) == Part1(other, i)
             S(i) == Sent(other, i)
  <2>1. GRBStage(other)'
    BY <1>1, <1>4, StageKept
  <2>2. /\ \A i : Part1(other, i)' = P(i)
        /\ \A i : Sent(other, i)' <=> S(i)
        /\ Parts(other)' = n /\ target' = target
    BY <1>1 DEF Part1, Sent, Parts, target
  <2>3. ASSUME NEW k \in MPRs
        PROVE  /\ OneConv(queue'[k])
               /\ \A c \in Waiting(k)' : c.op = "conv" =>
                    \E i \in 1 .. n : k = Start + i - 1 /\ S(i) /\ c = P(i)
    <3>1. \A c \in Waiting(k)' : c.op = "conv" => c \in Waiting(k)
      BY RendererQueues
    <3> QED BY <1>4, <3>1, RendererQueues DEF PartsInv
  <2>4. n \in Nat /\ \A i \in 1 .. n : Start + i - 1 \in MPRs /\ P(i).op = "conv"
    BY ConvSteps DEF IInv
  <2>5. ASSUME Len(todo) > 1, NEW i \in 1 .. n, NEW l \in ConvLines(other, i)
        PROVE  converted'[l] = IF S(i) /\ P(i) \notin Waiting(Start + i - 1)'
                               THEN 1 ELSE 0
    <3> DEFINE k == Start + i - 1
    <3>1. converted[l] = IF S(i) /\ P(i) \notin Waiting(k) THEN 1 ELSE 0
      BY <1>4, <2>5 DEF PartsInv
    <3>2. k \in MPRs /\ P(i).op = "conv" /\ Conversion(P(i))
      BY <2>4 DEF Conversion
    <3>3. P(i) \in Waiting(k)' => P(i) \in Waiting(k)
      BY <3>2, RendererQueues
    <3>4. ~(k = m /\ ExecConv(m)) => (P(i) \in Waiting(k) => P(i) \in Waiting(k)')
      BY <3>2, RendererQueues
    <3>5. CASE ~ExecConv(m)
      BY <1>2, <3>1, <3>3, <3>4, <3>5
    <3>6. CASE ExecConv(m)
      <4> DEFINE c == Head(queue[m])
      <4>1. c \in Waiting(m) /\ c.op = "conv"
        BY <3>6, ConvQueue DEF Conversion
      <4>2. PICK j \in 1 .. n : m = Start + j - 1 /\ S(j) /\ c = P(j)
        BY <1>4, <4>1 DEF PartsInv
      <4>3. l \in Lines /\ \A e \in 1 .. n : l \in ConvLines(other, e) => e = i
        <5>1. n <= NumMPRs
          BY ConvSteps DEF IInv
        <5>2. i \in 1 .. NumMPRs
          BY <2>4, <5>1, ChainFacts
        <5>3. l \in Lines
          BY <5>2, ConvLinesType
        <5> QED BY <5>3, LinesParted
      <4>4. c.lines = ConvLines(other, j)
        BY <4>2 DEF Part1, Conv
      <4>5. converted'[l] = IF l \in ConvLines(other, j) THEN converted[l] + 1
                            ELSE converted[l]
        BY <3>6, <4>3, <4>4 DEF ExecConv
      <4>6. CASE j = i
        <5>1. converted[l] = 0 /\ converted'[l] = 1
          BY <3>1, <4>1, <4>2, <4>5, <4>6
        <5>2. \A e \in Waiting(m)' : ~Conversion(e)
          BY <1>4, <3>6, ConvQueue DEF PartsInv
        <5> QED BY <3>2, <4>2, <4>6, <5>1, <5>2
      <4>7. CASE j # i
        <5>1. k # m
          BY <2>4, <4>2, <4>7, ChainFacts
        <5>2. converted'[l] = converted[l]
          BY <4>3, <4>5, <4>7
        <5> QED BY <3>1, <3>3, <3>4, <5>1, <5>2
      <4> QED BY <4>6, <4>7
    <3> QED BY <3>5, <3>6
  <2>6. PartsInv(other)'
    BY <1>1, <2>2, <2>3, <2>5 DEF PartsInv
  <2>7. ASSUME Len(todo) <= n + 5, NEW k \in MPRs
        PROVE  /\ sb'[k] = target /\ dma'[k] \subseteq {<<1, actbuf[1]>>}
               /\ \A c \in Waiting(k)' : c.op \notin {"sb", "draw"}
    <3>1. \A e \in MPRs : /\ sb[e] = target /\ dma[e] \subseteq {<<1, actbuf[1]>>}
                          /\ \A c \in Waiting(e) : c.op \notin {"sb", "draw"}
      BY <1>4, <2>7 DEF FinishedInv
    <3>2. /\ queue[m] \in Seq(Commands)
          /\ sb \in [MPRs -> Buffers \cup {NoBuffer}]
          /\ dma \in [MPRs -> SUBSET (Buffers \cup {NoBuffer})]
      BY DEF IInv, TypeOK
    <3>3. queue[m] # <<>> => Head(queue[m]) \in Waiting(m)
      <4>1. HAVE queue[m] # <<>>
      <4>2. Head(queue[m]) \in ToSet(queue[m])
        BY <3>2, <4>1, Popped
      <4> QED BY <4>2 DEF Waiting
    <3>4. ~ExecSB(m) /\ ~ExecDraw(m)
      BY <3>1, <3>3 DEF ExecSB, ExecDraw, Executes
    <3>5. sb' = sb
      BY <3>4 DEF MPR, DMADone, ExecConv, ExecWait, ExecSync, ExecBreak, Halt
    <3>6. dma'[k] \subseteq {<<1, actbuf[1]>>}
      <4>1. CASE ExecConv(m)
        <5>1. Head(queue[m]) \in Waiting(m) /\ Head(queue[m]).op = "conv"
          BY <4>1, ConvQueue DEF Conversion
        <5>2. PICK j \in 1 .. n : Head(queue[m]) = P(j)
          BY <1>4, <5>1 DEF PartsInv
        <5>3. Head(queue[m]).buf = <<1, actbuf[1]>>
          BY <5>2 DEF Part1, Conv
        <5>4. dma' = [dma EXCEPT ![m] = @ \cup {Head(queue[m]).buf}]
          BY <4>1 DEF ExecConv
        <5> QED BY <3>1, <3>2, <5>3, <5>4
      <4>2. CASE DMADone(m)
        BY <3>1, <3>2, <4>2 DEF DMADone
      <4>3. CASE ~ExecConv(m) /\ ~DMADone(m)
        <5>1. dma' = dma
          BY <3>4, <4>3 DEF MPR, ExecWait, ExecSync, ExecBreak, Halt
        <5> QED BY <3>1, <5>1
      <4> QED BY <4>1, <4>2, <4>3
    <3> QED BY <3>1, <3>5, <3>6, RendererQueues
  <2>8. FinishedInv(other)'
    BY <1>1, <2>2, <2>7 DEF FinishedInv
  <2> QED BY <2>1, <2>6, <2>8 DEF CallInv
<1> QED BY <1>3, <1>4 DEF CallInv

(* What is left of SwapDrawBufGRB when a step of it has been done. *)
LEMMA NextStage ==
  ASSUME TypeOK, NEW other \in Others, GRBStage(other), Len(todo) > 1,
         todo' = Tail(todo), UNCHANGED <<screen, actbuf, selected>>,
         Len(todo) \in {Parts(other) + 6, 3, 2} => synced',
         Len(todo) \in 3 .. Parts(other) + 5 => newField'
  PROVE  /\ GRBStage(other)' /\ Len(todo') = Len(todo) - 1
         /\ \A i \in 1 .. Parts(other) :
              /\ Sent(other, i)' <=> Sent(other, i) \/ Len(todo) = Parts(other) + 5 - i
              /\ Len(todo) = Parts(other) + 5 - i => ~Sent(other, i)
<1> DEFINE n == Parts(other)
           r == Len(todo)
           t == Tail(todo)
<1>1. /\ n \in Nat /\ r \in Nat /\ r > 1 /\ r \in 1 .. n + 7 /\ grb /\ selected
      /\ Len(t) = r - 1 /\ \A j \in 1 .. r - 1 : t[j] = GRBStep(other, r - j)
  BY GRBHead DEF GRBStage
<1>2. /\ \A k : GRBStep(other, k)' = GRBStep(other, k)
      /\ grb' = grb /\ selected' = selected /\ todo' = t
  BY DEF GRBStep, Part1, grb
<1>3. r \in {n + 6, 3, 2} => synced'
  OBVIOUS
<1>4. r \in 3 .. n + 5 => newField'
  OBVIOUS
<1> HIDE DEF n, r, t
<1>5. r - 1 \in 1 .. n + 7 /\ \A j \in 1 .. r - 1 : t[j] = GRBStep(other, (r - 1) + 1 - j)
  <2>1. \A j \in 1 .. r - 1 : (r - 1) + 1 - j = r - j
    BY <1>1
  <2> QED BY <1>1, <2>1
<1>6. r - 1 \in {n + 5, 2, 1} => synced'
  BY <1>1, <1>3
<1>7. r - 1 \in 2 .. n + 4 => newField'
  BY <1>1, <1>4
<1>8. GRBStage(other)'
  <2>1. Len(todo') = r - 1 /\ Parts(other)' = n
    BY <1>1, <1>2 DEF n, Parts
  <2>2. \A j \in 1 .. r - 1 : todo'[j] = GRBStep(other, (r - 1) + 1 - j)
    BY <1>2, <1>5
  <2> PICK x \in Nat : x = r - 1
    BY <1>1
  <2>3. /\ grb' /\ selected' /\ x \in 1 .. n + 7
        /\ x \in {n + 5, 2, 1} => synced'
        /\ x \in 2 .. n + 4 => newField'
    BY <1>1, <1>2, <1>5, <1>6, <1>7, <2>1
  <2>4. \A j \in 1 .. x : todo'[j] = GRBStep(other, x + 1 - j)'
    BY <1>2, <2>2
  <2> QED BY <1>1, <2>1, <2>3, <2>4 DEF GRBStage, n
<1>9. ASSUME NEW i \in 1 .. n
      PROVE  /\ Sent(other, i)' <=> Sent(other, i) \/ r = n + 5 - i
             /\ r = n + 5 - i => ~Sent(other, i)
  <2>1. /\ Sent(other, i) <=> r <= n + 4 - i
        /\ Sent(other, i)' <=> r - 1 <= n + 4 - i
    BY <1>1, <1>2 DEF Sent, n, r
  <2> QED BY <1>1, <2>1
<1>10. Len(todo') = r - 1
  BY <1>1, <1>2
<1> QED BY <1>8, <1>9, <1>10 DEF n, r

(* What SwapDrawBufGRB sends. *)
LEMMA GRBSends ==
  ASSUME NEW other, NEW r, GRBStep(other, r).do = "send"
  PROVE  GRBStep(other, r).cmd.op \in {"conv", "sync"}
BY DEF GRBStep, Part1, Conv, SD, Send, Step

(* A renderer with nothing to do, that will be sent no screen buffer, has the *)
(* one that the program has selected.                                         *)
LEMMA ViewStill ==
  ASSUME NEW s \in Seq(Steps), NEW m \in MPRs, NEW q, q = <<>>,
         NEW a, NEW b, NEW z, Track(q, a, b), Track(View(s, m), b, z),
         \A i \in 1 .. Len(s) : s[i].do = "send" => s[i].cmd.op # "sb"
  PROVE  a = z
<1>1. a = b
  <2>1. Len(q) \in Nat
    OBVIOUS
  <2> QED BY <2>1, TrackEnds
<1>2. /\ View(s, m) \in Seq(Commands) /\ Len(View(s, m)) = Len(s)
      /\ \A i \in 1 .. Len(s) :
           View(s, m)[i] = IF s[i].do = "send" /\ s[i].to = m THEN s[i].cmd ELSE WaitMDMA
  BY ViewType
<1>3. WaitMDMA.op # "sb"
  BY DEF WaitMDMA
<1>4. \A i \in 1 .. Len(View(s, m)) : View(s, m)[i].op # "sb"
  BY <1>2, <1>3
<1>5. b = z
  BY <1>2, <1>4, TrackStill
<1> QED BY <1>1, <1>5

(* A command has been sent. *)
LEMMA SendCall ==
  ASSUME IInv, CallInv, SendLast
  PROVE  CallInv'
<1>1. PICK k \in MPRs, c \in Commands : k = Head(todo).to /\ c = Head(todo).cmd
  BY SentQueues
<1>2. /\ TypeOK /\ todo # <<>> /\ Head(todo).do = "send" /\ todo' = Tail(todo)
      /\ UNCHANGED <<screen, actbuf, selected, sb, dma, converted, newField>>
  BY DEF IInv, SendLast, Doing, videoVars
<1>3. /\ Waiting(k)' = Waiting(k) \cup {c}
      /\ \A m \in MPRs : m # k => queue'[m] = queue[m] /\ Waiting(m)' = Waiting(m)
      /\ OneConv(queue[k]) /\ (c.op # "conv" \/ \A e \in Waiting(k) : e.op # "conv")
           => OneConv(queue'[k])
  <2>1. ToSet(queue'[k]) = Waiting(k) \cup {c}
    BY <1>1, SentQueues
  <2>2. Waiting(k)' = ToSet(queue'[k])
    BY DEF Waiting
  <2> QED BY <1>1, <2>1, <2>2, SentQueues DEF Conversion
<1>4. CASE (Ordinary \/ YCCStage) /\ NoConversion
  <2>1. Ordinary
    BY <1>2, <1>4, YCCHead
  <2>2. Ordinary' /\ c.op # "conv"
    <3>1. /\ ~SwapStep(Head(todo))
          /\ \A i \in 1 .. Len(Tail(todo)) : ~SwapStep(Tail(todo)[i])
      BY <1>2, <2>1, OrdinaryHead
    <3>2. c.op # "conv"
      BY <1>1, <1>2, <3>1 DEF SwapStep
    <3> HIDE DEF SwapStep
    <3> QED BY <1>2, <3>1, <3>2 DEF Ordinary
  <2>3. NoConversion'
    BY <1>2, <1>3, <1>4, <2>2 DEF NoConversion
  <2> QED BY <2>2, <2>3 DEF CallInv
<1>5. ASSUME NEW other \in Others,
             GRBStage(other), PartsInv(other), FinishedInv(other)
      PROVE  CallInv'
  <2> DEFINE n == Parts(other)
             r == Len(todo)
             P(i) == Part1(other, i)
             S(i) == Sent(other, i)
  <2>1. /\ n \in Nat /\ r \in Nat /\ r >= 1
        /\ r \in 5 .. n + 4 => /\ c = P(n + 5 - r) /\ k = Start + (n + 5 - r) - 1
                               /\ n + 5 - r \in 1 .. n
        /\ r \in {4, n + 7} => c = SD
        /\ r \in 5 .. n + 4 \/ r \in {4, n + 7}
    BY <1>1, <1>2, <1>5, GRBHead
  <2>2. /\ GRBStage(other)' /\ Len(todo') = r - 1
        /\ \A i \in 1 .. n : /\ Sent(other, i)' <=> S(i) \/ r = n + 5 - i
                             /\ r = n + 5 - i => ~S(i)
    <3>1. n \in Nat /\ r \in Nat /\ (r \in 5 .. n + 4 \/ r \in {4, n + 7})
      BY <2>1
    <3>2. r \in 2 .. n + 4 => newField
      BY <1>5 DEF GRBStage
    <3> HIDE DEF n, r
    <3>3. r > 1 /\ r \notin {n + 6, 3, 2} /\ (r \in 3 .. n + 5 => r \in 2 .. n + 4)
      BY <3>1
    <3> QED BY <1>2, <1>5, <3>2, <3>3, NextStage DEF n, r, S
  <2>3. /\ \A i : Part1(other, i)' = P(i)
        /\ Parts(other)' = n /\ target' = target
    BY <1>2 DEF Part1, Parts, target
  <2>4. \A i \in 1 .. n : P(i).op = "conv"
    BY <1>2, ConvSteps
  <2>5. SD.op = "sync"
    BY TokenFacts
  <2>6. /\ \A m \in MPRs :
             /\ OneConv(queue[m])
             /\ \A e \in Waiting(m) : e.op = "conv" =>
                  \E i \in 1 .. n : m = Start + i - 1 /\ S(i) /\ e = P(i)
        /\ r > 1 => \A i \in 1 .. n : \A l \in ConvLines(other, i) :
             converted[l] = IF S(i) /\ P(i) \notin Waiting(Start + i - 1) THEN 1 ELSE 0
    BY <1>5 DEF PartsInv
  <2>7. r <= n + 5 =>
          \A m \in MPRs : /\ sb[m] = target
                           /\ dma[m] \subseteq {<<1, actbuf[1]>>}
                           /\ \A e \in Waiting(m) : e.op \notin {"sb", "draw"}
    BY <1>5 DEF FinishedInv
  <2> HIDE DEF n, r, P, S
  <2>8. ASSUME NEW i \in 1 .. n, k = Start + i - 1, c = P(i)
        PROVE  r = n + 5 - i
    <3>1. r \in 5 .. n + 4
      BY <2>1, <2>4, <2>5, <2>8
    <3> QED BY <2>1, <2>8, <3>1, ChainFacts
  <2>9. ASSUME NEW m \in MPRs
        PROVE  /\ OneConv(queue'[m])
               /\ \A e \in Waiting(m)' : e.op = "conv" =>
                    \E i \in 1 .. n : m = Start + i - 1 /\ Sent(other, i)' /\ e = P(i)
    <3>1. \A e \in Waiting(m) : e.op = "conv" =>
            \E i \in 1 .. n : m = Start + i - 1 /\ Sent(other, i)' /\ e = P(i)
      BY <2>2, <2>6
    <3>2. CASE m # k
      BY <1>3, <2>6, <3>1, <3>2
    <3>3. CASE m = k /\ c.op # "conv"
      BY <1>3, <2>6, <3>1, <3>3
    <3>4. CASE m = k /\ c.op = "conv"
      <4>1. PICK i \in 1 .. n : i = n + 5 - r /\ c = P(i) /\ k = Start + i - 1
        BY <2>1, <2>5, <3>4
      <4>2. r = n + 5 - i
        BY <2>1, <4>1
      <4>3. Sent(other, i)' /\ ~S(i)
        BY <2>2, <4>2
      <4>4. \A e \in Waiting(k) : e.op # "conv"
        <5>1. SUFFICES ASSUME NEW e \in Waiting(k), e.op = "conv" PROVE FALSE
          OBVIOUS
        <5>2. PICK j \in 1 .. n : k = Start + j - 1 /\ S(j)
          BY <2>6, <5>1
        <5>3. j = i
          BY <2>1, <4>1, <5>2, ChainFacts
        <5> QED BY <4>3, <5>2, <5>3
      <4> QED BY <1>3, <2>6, <3>1, <3>4, <4>1, <4>3, <4>4
    <3> QED BY <3>2, <3>3, <3>4
  <2>10. ASSUME NEW i \in 1 .. n, NEW l \in ConvLines(other, i)
         PROVE  converted'[l] = IF Sent(other, i)' /\ P(i) \notin Waiting(Start + i - 1)'
                                THEN 1 ELSE 0
    <3>1. converted'[l] = IF S(i) /\ P(i) \notin Waiting(Start + i - 1) THEN 1 ELSE 0
      <4>1. r > 1
        BY <2>1
      <4> QED BY <1>2, <2>6, <4>1
    <3>2. PICK e \in MPRs : e = Start + i - 1
      BY <1>2, ConvSteps DEF n
    <3>3. CASE r = n + 5 - i
      <4>1. c = P(i) /\ k = Start + i - 1
        <5>1. r \in 5 .. n + 4 /\ n + 5 - r = i
          BY <2>1, <3>3
        <5> QED BY <2>1, <5>1
      <4>2. P(i) \in Waiting(e)'
        BY <1>3, <3>2, <4>1
      <4>3. ~S(i)
        BY <2>2, <3>3
      <4> QED BY <3>1, <3>2, <4>2, <4>3
    <3>4. CASE r # n + 5 - i
      <4>1. Sent(other, i)' <=> S(i)
        BY <2>2, <3>4
      <4>2. P(i) \in Waiting(e)' <=> P(i) \in Waiting(e)
        BY <1>3, <2>8, <3>2, <3>4
      <4> QED BY <3>1, <3>2, <4>1, <4>2
    <3> QED BY <3>3, <3>4
  <2>11. PartsInv(other)'
    BY <2>3, <2>9, <2>10 DEF PartsInv, P
  <2>12. ASSUME r - 1 <= n + 5, NEW m \in MPRs
         PROVE  /\ sb'[m] = target /\ dma'[m] \subseteq {<<1, actbuf[1]>>}
                /\ \A e \in Waiting(m)' : e.op \notin {"sb", "draw"}
    <3>1. r <= n + 5
      BY <2>1, <2>12
    <3>2. c.op \notin {"sb", "draw"}
      BY <2>1, <2>4, <2>5
    <3>3. \A e \in Waiting(m)' : e \in Waiting(m) \/ e = c
      BY <1>3
    <3> QED BY <1>2, <2>7, <3>1, <3>2, <3>3
  <2>13. FinishedInv(other)'
    BY <1>2, <2>2, <2>3, <2>12 DEF FinishedInv
  <2> QED BY <2>2, <2>11, <2>13 DEF CallInv
<1> QED BY <1>4, <1>5 DEF CallInv

(* A step has been done that sends nothing. *)
LEMMA WaitCall ==
  ASSUME IInv, IInv', FlowInv', CallInv,
         (Await /\ todo' # todo) \/ VidSync \/ ChangeBase \/ Advance \/ Free
  PROVE  CallInv'
<1>1. /\ TypeOK /\ todo \in Seq(Steps) /\ todo # <<>> /\ todo' = Tail(todo)
      /\ UNCHANGED <<screen, selected, queue, sb, dma>>
      /\ Advance \/ UNCHANGED <<actbuf, converted>>
  BY DEF IInv, TypeOK, Await, VidSync, ChangeBase, Advance, Free, Doing, mprVars
<1>2. /\ Await => Head(todo).do = "await" /\ synced' /\ newField' = newField
      /\ VidSync => Head(todo).do = "vidsync" /\ newField' /\ (synced => synced')
      /\ ChangeBase => Head(todo).do = "base" /\ (synced => synced')
      /\ Advance => Head(todo).do = "advance"
      /\ Free => Head(todo).do = "free"
  BY DEF Await, VidSync, ChangeBase, Advance, Free, Doing, videoVars
<1>3. Advance => \A l \in Lines : converted'[l] = 0
  BY DEF Advance
<1>4. /\ grb' = grb /\ numbuf(0)' = numbuf(0)
      /\ \A m : Waiting(m)' = Waiting(m)
  BY <1>1 DEF grb, numbuf, Waiting
<1>5. CASE (Ordinary \/ YCCStage) /\ NoConversion
  <2>1. NoConversion'
    BY <1>1, <1>3, <1>4, <1>5 DEF NoConversion
  <2>2. CASE Ordinary
    <3>1. \A i \in 1 .. Len(Tail(todo)) : ~SwapStep(Tail(todo)[i])
      BY <1>1, <2>2, OrdinaryHead
    <3>2. Ordinary'
      BY <1>1, <3>1 DEF Ordinary
    <3> QED BY <2>1, <3>2 DEF CallInv
  <2>3. CASE YCCStage /\ Head(todo).do = "advance"
    <3>1. todo' = <<>>
      BY <1>1, <2>3, YCCHead
    <3>2. Ordinary'
      BY <3>1 DEF Ordinary
    <3> QED BY <2>1, <3>2 DEF CallInv
  <2>4. CASE YCCStage /\ Head(todo).do # "advance"
    <3>1. /\ VidSync \/ ChangeBase
          /\ ~grb /\ ~selected
      BY <1>1, <1>2, <2>4, YCCHead DEF YCCStage
    <3>2. /\ VidSync => /\ numbuf(0) = 2 => todo' = <<Step("advance")>>
                        /\ numbuf(0) # 2 => numbuf(0) = 3 /\ todo' = <<Step("base"), Step("advance")>>
          /\ ChangeBase => /\ numbuf(0) = 2 => todo' = <<Step("vidsync"), Step("advance")>>
                           /\ numbuf(0) # 2 => todo' = <<Step("advance")>>
      BY <1>1, <1>2, <2>4, YCCHead
    <3>3. ~grb' /\ ~selected' /\ numbuf(0)' = numbuf(0) /\ (VidSync => newField')
      <4>1. ~grb' /\ numbuf(0)' = numbuf(0)
        BY <1>4, <3>1
      <4>2. ~selected'
        BY <1>1, <3>1
      <4>3. VidSync => newField'
        BY <1>2, Zenon
      <4> QED BY <4>1, <4>2, <4>3
    <3>4. \/ todo' = <<Step("advance")>>
          \/ numbuf(0) = 2 /\ todo' = <<Step("vidsync"), Step("advance")>>
          \/ numbuf(0) = 3 /\ newField' /\ todo' = <<Step("base"), Step("advance")>>
      BY <3>1, <3>2, <3>3
    <3>5. YCCStage'
      BY <3>3, <3>4 DEF YCCStage
    <3> QED BY <2>1, <3>5 DEF CallInv
  <2> QED BY <1>5, <2>2, <2>3, <2>4
<1>6. ASSUME NEW other \in Others,
             GRBStage(other), PartsInv(other), FinishedInv(other)
      PROVE  CallInv'
  <2>1. PICK n \in Nat, r \in Nat : n = Parts(other) /\ r = Len(todo) /\ r >= 1
    BY <1>1, <1>6, GRBHead
  <2>2. \/ r \in {3, n + 6} /\ Head(todo).do = "await"
        \/ r = n + 5 /\ Head(todo).do = "vidsync"
        \/ r = 2 /\ Head(todo).do = "base"
        \/ r = 1 /\ Head(todo).do = "advance"
    <3>1. /\ r \in 5 .. n + 4 => Head(todo).do = "send"
          /\ r \in {4, n + 7} => Head(todo).do = "send"
          /\ r \in {3, n + 6} => Head(todo).do = "await"
          /\ r = n + 5 => Head(todo).do = "vidsync"
          /\ r = 2 => Head(todo).do = "base"
          /\ r = 1 => Head(todo).do = "advance"
          /\ r \in 5 .. n + 4 \/ r \in {1, 2, 3, 4, n + 5, n + 6, n + 7}
      BY <1>1, <1>6, <2>1, GRBHead
    <3>2. Head(todo).do # "send"
      BY <1>1, <1>2
    <3>3. CASE r \in {1, 2, 3, n + 5, n + 6}
      BY <3>1, <3>3
    <3>4. CASE r \notin {1, 2, 3, n + 5, n + 6}
      BY <3>1, <3>2, <3>4
    <3> QED BY <3>3, <3>4
  <2>3. CASE r = 1
    <3>1. Advance
      BY <1>2, <2>1, <2>2, <2>3
    <3>2. Len(todo') = 0
      <4>1. Len(Tail(todo)) = r - 1
        BY <1>1, <1>6, <2>1, GRBHead
      <4> QED BY <1>1, <2>3, <4>1
    <3>3. Ordinary'
      BY <3>2 DEF Ordinary
    <3>4. NoConversion'
      <4>1. synced /\ synced' = synced
        BY <1>6, <2>1, <2>3, <3>1 DEF GRBStage, Advance
      <4>2. \A m \in MPRs : queue[m] = <<>>
        BY <4>1 DEF IInv, SyncMeansDone
      <4>3. \A m \in MPRs : Waiting(m) = {}
        BY <4>2 DEF Waiting, ToSet
      <4> QED BY <1>3, <1>4, <3>1, <4>3 DEF NoConversion
    <3> QED BY <3>3, <3>4 DEF CallInv
  <2>4. CASE r > 1
    <3>1. /\ ~Advance /\ ~Free /\ UNCHANGED <<actbuf, converted>>
          /\ r \in {3, n + 6} => Await
          /\ r = n + 5 => VidSync
          /\ r = 2 => ChangeBase
      <4>1. ~Advance /\ ~Free
        BY <1>2, <2>2, <2>4
      <4>2. UNCHANGED <<actbuf, converted>>
        BY <1>1, <4>1
      <4>3. Head(todo).do = "await" => Await
        BY <1>2, <4>1
      <4>4. Head(todo).do = "vidsync" => VidSync
        BY <1>2, <4>1
      <4>5. Head(todo).do = "base" => ChangeBase
        BY <1>2, <4>1
      <4>6. /\ r \in {3, n + 6} => Head(todo).do = "await"
            /\ r = n + 5 => Head(todo).do = "vidsync"
            /\ r = 2 => Head(todo).do = "base"
        <5>1. r = 2 => r # 3 /\ r # n + 5 /\ r # n + 6 /\ r # 1
          BY <2>1
        <5>2. r = n + 5 => r # 3 /\ r # 2 /\ r # n + 6 /\ r # 1
          BY <2>1
        <5>3. r \in {3, n + 6} => r # 2 /\ r # n + 5 /\ r # 1
          OBVIOUS
        <5> QED BY <2>2, <5>1, <5>2, <5>3
      <4>7. /\ r \in {3, n + 6} => Await
            /\ r = n + 5 => VidSync
            /\ r = 2 => ChangeBase
        BY <4>3, <4>4, <4>5, <4>6
      <4> QED BY <4>1, <4>2, <4>7
    <3>2. /\ r \in {n + 5, 2, 1} => synced
          /\ r \in 2 .. n + 4 => newField
      BY <1>6, <2>1 DEF GRBStage
    <3>3. r \in {n + 6, 3, 2} => synced'
      BY <1>2, <3>1, <3>2
    <3>4. r \in 3 .. n + 5 => newField'
      BY <1>2, <2>2, <3>1, <3>2
    <3>5. /\ GRBStage(other)' /\ Len(todo') = r - 1
          /\ \A i \in 1 .. n : Sent(other, i)' <=> Sent(other, i) \/ r = n + 5 - i
      BY <1>1, <1>6, <2>1, <2>4, <3>1, <3>3, <3>4, NextStage
    <3>6. \A i \in 1 .. n : Sent(other, i)' <=> Sent(other, i)
      BY <2>1, <2>2, <3>5
    <3>7. /\ \A i : Part1(other, i)' = Part1(other, i)
          /\ Parts(other)' = n /\ target' = target
      BY <2>1, <3>1 DEF Part1, Parts, target
    <3>8. PartsInv(other)'
      BY <1>1, <1>4, <1>6, <2>1, <2>4, <3>1, <3>6, <3>7 DEF PartsInv
    <3>9. FinishedInv(other)'
      <4>1. CASE r <= n + 5
        BY <1>1, <1>4, <1>6, <2>1, <3>1, <3>7, <4>1 DEF FinishedInv
      <4>2. CASE r = n + 6
        <5>1. \A m \in MPRs : queue'[m] = <<>> /\ dma'[m] = {}
          BY <3>3, <4>2 DEF IInv, SyncMeansDone
        <5>2. /\ todo' \in Seq(Steps) /\ selected'
              /\ \A j \in 1 .. Len(todo') : \E x : todo'[j] = GRBStep(other, x)'
          BY <3>5 DEF IInv, TypeOK, GRBStage
        <5>3. \A x : GRBStep(other, x)' = GRBStep(other, x)
          BY <1>4, <3>7 DEF GRBStep
        <5>4. \A j \in 1 .. Len(todo') : todo'[j].do = "send" => todo'[j].cmd.op # "sb"
          BY <5>2, <5>3, GRBSends
        <5>5. ASSUME NEW m \in MPRs
              PROVE  sb'[m] = target'
          <6>1. PICK b \in Selection, z \in Selection :
                  /\ Track(queue'[m], sb'[m], b) /\ Track(View(todo', m), b, z)
                  /\ z = target'
            BY <5>2 DEF FlowInv, Flow
          <6> QED BY <5>1, <5>2, <5>4, <6>1, ViewStill
        <5>6. \A m \in MPRs : Waiting(m)' = {}
          BY <5>1 DEF Waiting, ToSet
        <5> QED BY <5>1, <5>5, <5>6 DEF FinishedInv
      <4>3. CASE r > n + 6
        BY <2>2, <4>3
      <4> QED BY <2>1, <4>1, <4>2, <4>3
    <3> QED BY <3>5, <3>8, <3>9 DEF CallInv
  <2> QED BY <2>1, <2>3, <2>4
<1> QED BY <1>5, <1>6 DEF CallInv

(* A call that has begun. *)
LEMMA OrdinaryClear ==
  ASSUME TypeOK, NEW c \in {0, 1}
  PROVE  ClearBuffers(c) \in Seq(OrdinarySteps)
<1>1. ASSUME NEW i \in 0 .. 2
      PROVE  ClearBuffer(c, i) \in Seq(OrdinarySteps)
  <2> DEFINE b == <<c, i>>
             p == SendSB(b)
             d == Send(Nth(i + 1), Draw(b), TRUE)
  <2>1. b \in Buffers
    BY DEF Buffers
  <2>2. Draw(b) \in Commands /\ Draw(b).op # "conv" /\ SB(b).op # "conv" /\ Nth(i + 1) \in MPRs
    <3>1. i + 1 \in Nat
      OBVIOUS
    <3>2. Nth(i + 1) \in MPRs
      BY <3>1, NthType
    <3>3. Draw(b) \in Commands
      BY <2>1, CommandFacts
    <3>4. Draw(b).op # "conv" /\ SB(b).op # "conv"
      BY DEF Draw, SB
    <3> QED BY <3>2, <3>3, <3>4
  <2> HIDE DEF b
  <2>3. d \in OrdinarySteps
    BY <2>2, SendKinds
  <2>4. p \in Seq(Steps) /\ \A k \in 1 .. Len(p) : p[k] \in OrdinarySteps
    <3>1. /\ p \in Seq(Steps) /\ Len(p) = NumMPRs
          /\ \A k \in 1 .. NumMPRs : p[k].do = "send" /\ p[k].cmd = SB(b)
      BY <2>1, SendSBSteps
    <3>2. \A k \in 1 .. Len(p) : p[k] \in Steps
      BY <3>1
    <3> QED BY <2>2, <3>1, <3>2 DEF OrdinarySteps, SwapStep
  <2> HIDE DEF p, d
  <2>5. p \in Seq(OrdinarySteps)
    BY <2>4
  <2>6. Append(p, d) \in Seq(OrdinarySteps)
    BY <2>3, <2>5
  <2> QED BY <2>6 DEF ClearBuffer, p, d, b
<1> DEFINE p(i) == ClearBuffer(c, i)
<1>2. p(0) \in Seq(OrdinarySteps) /\ p(1) \in Seq(OrdinarySteps) /\ p(2) \in Seq(OrdinarySteps)
  BY <1>1
<1> HIDE DEF p
<1>3. p(0) \o p(1) \in Seq(OrdinarySteps)
  BY <1>2
<1>4. p(0) \o p(1) \o p(2) \in Seq(OrdinarySteps)
  BY <1>2, <1>3
<1>5. numbuf(c) \in 1 .. 3
  BY BufferFacts
<1> HIDE DEF numbuf
<1>6. \/ numbuf(c) = 1 /\ ClearBuffers(c) = p(0)
      \/ numbuf(c) = 2 /\ ClearBuffers(c) = p(0) \o p(1)
      \/ numbuf(c) = 3 /\ ClearBuffers(c) = p(0) \o p(1) \o p(2)
  BY <1>5 DEF ClearBuffers, p
<1> QED BY <1>2, <1>3, <1>4, <1>6

(* The elements of an extended sequence. *)
LEMMA AppendOnce ==
  ASSUME NEW S, NEW p \in Seq(S), NEW z \in S
  PROVE  /\ Append(p, z) \in Seq(S) /\ Len(Append(p, z)) = Len(p) + 1
         /\ Append(p, z)[Len(p) + 1] = z
         /\ \A i \in 1 .. Len(p) : Append(p, z)[i] = p[i]
BY AppendProperties

(* Appending to a sequence of two. *)
LEMMA AppendTwo ==
  ASSUME NEW S, NEW x \in S, NEW y \in S, NEW z \in S
  PROVE  Append(<<x, y>>, z) = <<x, y, z>>
<1>1. <<x, y>> \in Seq(S) /\ Len(<<x, y>>) = 2 /\ <<x, y>>[1] = x /\ <<x, y>>[2] = y
  OBVIOUS
<1>2. /\ <<x, y, z>> \in Seq(S) /\ Len(<<x, y, z>>) = 3
      /\ <<x, y, z>>[1] = x /\ <<x, y, z>>[2] = y /\ <<x, y, z>>[3] = z
  OBVIOUS
<1>3. ASSUME NEW p \in Seq(S), Len(p) = 2, p[1] = x, p[2] = y,
             NEW r \in Seq(S), Len(r) = 3, r[1] = x, r[2] = y, r[3] = z
      PROVE  Append(p, z) = r
  <2> DEFINE q == Append(p, z)
  <2>1. /\ q \in Seq(S) /\ Len(q) = Len(p) + 1 /\ q[Len(p) + 1] = z
        /\ \A i \in 1 .. Len(p) : q[i] = p[i]
    BY AppendOnce
  <2> HIDE DEF q
  <2>2. Len(q) = Len(r) /\ \A i \in 1 .. Len(q) : q[i] = r[i]
    BY <1>3, <2>1
  <2>3. q = r
    BY <2>1, <2>2, SeqEqual
  <2> QED BY <2>3 DEF q
<1> QED BY <1>1, <1>2, <1>3, Zenon

(* The steps of a YCC swap, by the number of buffers. *)
LEMMA YCCList ==
  ASSUME TypeOK
  PROVE  LET s == Append(YCCSteps, Step("advance"))
         IN  \/ numbuf(0) = 1 /\ s = <<Step("advance")>>
             \/ numbuf(0) = 2 /\ s = <<Step("base"), Step("vidsync"), Step("advance")>>
             \/ numbuf(0) = 3 /\ s = <<Step("vidsync"), Step("base"), Step("advance")>>
<1> DEFINE v == Step("vidsync")
           b == Step("base")
           a == Step("advance")
<1>1. v \in Steps /\ b \in Steps /\ a \in Steps
  BY StepFacts
<1>2. numbuf(0) \in 1 .. 3
  BY BufferFacts
<1> HIDE DEF v, b, a, numbuf
<1>3. Append(<<>>, a) = <<a>>
  BY <1>1
<1>4. Append(<<b, v>>, a) = <<b, v, a>>
  BY <1>1, AppendTwo
<1>5. Append(<<v, b>>, a) = <<v, b, a>>
  BY <1>1, AppendTwo
<1>6. \/ numbuf(0) = 1 /\ YCCSteps = <<>>
      \/ numbuf(0) = 2 /\ YCCSteps = <<b, v>>
      \/ numbuf(0) = 3 /\ YCCSteps = <<v, b>>
  BY <1>2 DEF YCCSteps, b, v
<1>7. \/ numbuf(0) = 1 /\ Append(YCCSteps, a) = <<a>>
      \/ numbuf(0) = 2 /\ Append(YCCSteps, a) = <<b, v, a>>
      \/ numbuf(0) = 3 /\ Append(YCCSteps, a) = <<v, b, a>>
  BY <1>3, <1>4, <1>5, <1>6
<1> QED BY <1>7 DEF v, b, a

(* None of the steps of SwapDrawBufYCC sends anything. *)
LEMMA YCCSilent ==
  ASSUME TypeOK, NEW s, s = Append(YCCSteps, Step("advance"))
  PROVE  \A i \in 1 .. Len(s) : s[i].do # "send"
<1> DEFINE v == Step("vidsync")
           b == Step("base")
           a == Step("advance")
<1>1. /\ v \in Steps /\ b \in Steps /\ a \in Steps
      /\ v.do = "vidsync" /\ b.do = "base" /\ a.do = "advance"
  BY StepFacts
<1>2. s = <<a>> \/ s = <<b, v, a>> \/ s = <<v, b, a>>
  BY YCCList
<1> HIDE DEF v, b, a
<1>3. ASSUME NEW x \in {v, b}, NEW y \in {v, b}
      PROVE  \A i \in 1 .. Len(<<x, y, a>>) : <<x, y, a>>[i] \in {v, b, a}
  BY <1>1
<1>4. \A i \in 1 .. Len(<<a>>) : <<a>>[i] \in {v, b, a}
  BY <1>1
<1>5. \A i \in 1 .. Len(s) : s[i] \in {v, b, a}
  BY <1>2, <1>3, <1>4
<1> QED BY <1>1, <1>5

(* Beginning a call preserves CallInv, *)
LEMMA CallCall ==
  ASSUME IInv, CallInv, NEW s, Call(s),
         \/ Quietly(s) \/ Drawing(s) \/ Selecting(s)
         \/ Clearing(s) \/ Converting(s) \/ Swapping(s)
  PROVE  CallInv'
<1>1. /\ TypeOK /\ target \in Buffers
      /\ todo = <<>> /\ todo' = s
      /\ UNCHANGED <<screen, synced, queue, sb, dma, converted>>
      /\ grb' = grb /\ numbuf(0)' = numbuf(0)
  BY BufferFacts DEF IInv, Call, Ready, mprVars, grb, numbuf
<1>2. NoConversion
  <2>1. Len(todo) = 0
    BY <1>1
  <2> QED BY <2>1 DEF CallInv, GRBStage
<1>3. NoConversion'
  BY <1>1, <1>2 DEF NoConversion, Waiting
<1>4. ASSUME s \in Seq(OrdinarySteps) PROVE CallInv'
  <2>1. \A i \in 1 .. Len(s) : s[i] \in OrdinarySteps
    BY <1>4
  <2>2. Ordinary'
    BY <1>1, <2>1 DEF Ordinary, OrdinarySteps
  <2> QED BY <1>3, <2>2 DEF CallInv
<1>5. CASE Quietly(s) \/ Drawing(s)
  <2>1. s \in Seq(DrawSteps(target))
    BY <1>5 DEF Quietly, Drawing
  <2>2. DrawSteps(target) \subseteq OrdinarySteps
    BY DEF DrawSteps
  <2> HIDE DEF target
  <2>3. s \in Seq(OrdinarySteps)
    BY <2>1, <2>2
  <2> QED BY <1>4, <2>3
<1>6. CASE Selecting(s)
  <2>1. /\ s \in Seq(Steps) /\ Len(s) = NumMPRs
        /\ \A i \in 1 .. NumMPRs : s[i].do = "send" /\ s[i].cmd = SB(target)
    BY <1>1, <1>6, SendSBSteps DEF Selecting
  <2>2. SB(target).op # "conv"
    BY DEF SB
  <2>3. \A i \in 1 .. Len(s) : ~SwapStep(s[i])
    BY <2>1, <2>2 DEF SwapStep
  <2>4. Ordinary'
    BY <1>1, <2>3 DEF Ordinary
  <2> QED BY <1>3, <2>4 DEF CallInv
<1>7. CASE Clearing(s)
  <2>1. PICK c \in {0, 1} : s = ClearBuffers(c) \o SendAndWait(SD)
    BY <1>7 DEF Clearing
  <2> DEFINE p == ClearBuffers(c)
             q == SendAndWait(SD)
  <2>2. p \in Seq(OrdinarySteps) /\ q \in Seq(OrdinarySteps)
    BY <1>1, OrdinaryClear, TokenKinds
  <2>3. s = p \o q
    BY <2>1
  <2> HIDE DEF p, q
  <2>4. s \in Seq(OrdinarySteps)
    BY <2>2, <2>3
  <2> QED BY <1>4, <2>4
<1>8. CASE Converting(s)
  <2>1. PICK other \in Others : s = GRBSteps(other)
    BY <1>8 DEF Converting
  <2>2. PICK n \in Nat : n = Parts(other)
    BY <1>1, ConvSteps
  <2>3. /\ s \in Seq(Steps) /\ Len(s) = n + 7
        /\ \A j \in 1 .. n + 7 : s[j] = GRBStep(other, (n + 7) + 1 - j)
    BY <1>1, <2>1, <2>2, GRBList
  <2>4. /\ \A r : GRBStep(other, r)' = GRBStep(other, r)
        /\ \A i : Part1(other, i)' = Part1(other, i)
        /\ Parts(other)' = n /\ grb' /\ selected'
    BY <1>1, <1>8, <2>2 DEF GRBStep, Part1, Parts, Converting
  <2>5. Len(todo') = n + 7
    BY <1>1, <2>3
  <2>6. GRBStage(other)'
    <3>1. n + 7 \notin {n + 5, 2, 1} /\ n + 7 \notin 2 .. n + 4 /\ n + 7 \in 1 .. n + 7
      BY <2>2
    <3>2. \A j \in 1 .. n + 7 : todo'[j] = GRBStep(other, (n + 7) + 1 - j)'
      BY <1>1, <2>3, <2>4
    <3> QED BY <2>4, <2>5, <3>1, <3>2 DEF GRBStage
  <2>7. \A i \in 1 .. n : ~Sent(other, i)'
    <3>1. \A i \in 1 .. n : ~(n + 7 <= n + 4 - i)
      BY <2>2
    <3> QED BY <2>4, <2>5, <3>1 DEF Sent
  <2>8. \A m \in MPRs : \A c \in Waiting(m)' : c.op # "conv"
    BY <1>3 DEF NoConversion
  <2>9. \A m \in MPRs : OneConv(queue'[m])
    <3>1. TAKE m \in MPRs
    <3>2. queue'[m] \in Seq(Commands)
      BY <1>1 DEF TypeOK
    <3>3. \A i \in 1 .. Len(queue'[m]) : queue'[m][i] \in ToSet(queue'[m])
      BY <3>2, ToSetFacts
    <3>4. \A i \in 1 .. Len(queue'[m]) : queue'[m][i].op # "conv"
      BY <2>8, <3>3 DEF Waiting
    <3> QED BY <3>4 DEF OneConv
  <2>10. \A i \in 1 .. n : \A l \in ConvLines(other, i) : converted'[l] = 0
    <3>1. TAKE i \in 1 .. n
    <3>2. i \in 1 .. NumMPRs
      <4>1. n <= NumMPRs /\ NumMPRs \in Nat
        BY <1>1, <2>2, ConvSteps, ChainFacts
      <4> QED BY <4>1
    <3>3. ConvLines(other, i) \subseteq Lines
      BY <3>2, ConvLinesType
    <3> QED BY <1>3, <3>3 DEF NoConversion
  <2>11. PartsInv(other)'
    BY <2>4, <2>7, <2>8, <2>9, <2>10 DEF PartsInv
  <2>12. FinishedInv(other)'
    <3>1. ~(n + 7 <= n + 5)
      BY <2>2
    <3> QED BY <2>4, <2>5, <3>1 DEF FinishedInv
  <2> QED BY <2>6, <2>11, <2>12 DEF CallInv
<1>9. CASE Swapping(s)
  <2>1. \/ s = <<Step("advance")>>
        \/ numbuf(0) = 2 /\ s = <<Step("base"), Step("vidsync"), Step("advance")>>
        \/ numbuf(0) = 3 /\ s = <<Step("vidsync"), Step("base"), Step("advance")>>
    BY <1>1, <1>9, YCCList DEF Swapping
  <2>2. ~grb' /\ ~selected'
    BY <1>1, <1>9 DEF Swapping
  <2>3. YCCStage'
    BY <1>1, <2>1, <2>2 DEF YCCStage
  <2> QED BY <1>3, <2>3 DEF CallInv
<1> QED BY <1>5, <1>6, <1>7, <1>8, <1>9

(* as does setting up the chain. *)
LEMMA SetupCall ==
  ASSUME IInv, CallInv, mdSetupMPRChain
  PROVE  CallInv'
<1>1. /\ todo = <<>> /\ todo' = todo /\ converted' = converted
      /\ \A m \in MPRs : queue'[m] = queue[m] \/ queue'[m] = <<>>
  BY DEF mdSetupMPRChain, Ready
<1>2. NoConversion /\ Ordinary'
  <2>1. Len(todo) = 0 /\ Len(todo') = 0
    BY <1>1
  <2> QED BY <2>1 DEF CallInv, GRBStage, Ordinary
<1>3. \A m \in MPRs : Waiting(m)' = Waiting(m) \/ Waiting(m)' = {}
  BY <1>1 DEF Waiting, ToSet
<1>4. NoConversion'
  BY <1>1, <1>2, <1>3 DEF NoConversion
<1> QED BY <1>2, <1>4 DEF CallInv

(* Every step preserves CallInv. *)
LEMMA NextCall ==
  ASSUME IInv, IInv', FlowInv', CallInv, [Next]_vars
  PROVE  CallInv'
<1>1. CASE UNCHANGED vars \/ Field \/ Stray \/ SendFirst \/ (Await /\ todo' = todo)
  <2>1. /\ UNCHANGED <<screen, actbuf, selected, todo, queue, sb, dma, converted>>
        /\ SendFirst \/ ((synced => synced') /\ (newField => newField'))
    BY <1>1 DEF vars, Field, Stray, SendFirst, Await, programVars, mprVars, videoVars
  <2> QED BY <2>1, StayCall
<1>2. CASE App
  BY <1>2, CallKinds, CallCall, SetupCall DEF IInv
<1>3. CASE SendLast
  BY <1>3, SendCall
<1>4. CASE (Await /\ todo' # todo) \/ VidSync \/ ChangeBase \/ Advance \/ Free
  BY <1>4, WaitCall
<1>5. CASE \E m \in MPRs : MPR(m) \/ DMADone(m)
  BY <1>5, RendererCall
<1> QED BY <1>1, <1>2, <1>3, <1>4, <1>5 DEF Next, Within

(* CallInv holds initially. *)
LEMMA InitCall == Init => CallInv
<1>1. SUFFICES ASSUME Init PROVE Ordinary /\ NoConversion
  BY DEF CallInv
<1>2. /\ Len(todo) = 0 /\ \A m \in MPRs : queue[m] = <<>>
      /\ \A l \in Lines : converted[l] = 0
  BY <1>1 DEF Init
<1>3. \A m \in MPRs : Waiting(m) = {}
  BY <1>2 DEF Waiting, ToSet
<1> QED BY <1>2, <1>3 DEF Ordinary, NoConversion

(* CallInv is an invariant of the specification. *)
LEMMA CallInvariance == Spec => []CallInv
<1>1. IInv /\ IInv' /\ FlowInv' /\ CallInv /\ [Next]_vars => CallInv'
  BY NextCall
<1> QED BY <1>1, InitCall, Invariance, FlowInvariance, PTL DEF Spec

-----------------------------------------------------------------------------
(* What is written. *)

(* The last two steps of a GRB swap. *)
LEMMA GRBLast ==
  ASSUME TypeOK, NEW other \in Others
  PROVE  /\ GRBStep(other, 1) = Step("advance")
         /\ GRBStep(other, 2) = Step("base")
<1>1. PICK n \in Nat : n = Parts(other)
  BY ConvSteps
<1>2. ASSUME NEW r \in {1, 2}
      PROVE  r \notin 5 .. n + 4 /\ r \notin {4, n + 7} /\ r \notin {3, n + 6} /\ r # n + 5
  OBVIOUS
<1> QED BY <1>1, <1>2 DEF GRBStep

(* When a frame is handed over and when the swap ends, nothing more is to be  *)
(* sent; a frame that has been converted is finished.                         *)
LEMMA SwapEnd ==
  ASSUME IInv, CallInv, Doing("base") \/ Doing("advance")
  PROVE  /\ grb => \A m \in MPRs : dma[m] = {} /\ Waiting(m) = {}
         /\ \A i \in 1 .. Len(todo) : todo[i].do # "send"
         /\ ~grb => /\ ~AwaitLast
                    /\ Doing("advance") => todo = <<Step("advance")>>
<1>1. TypeOK /\ todo # <<>> /\ Head(todo).do \in {"base", "advance"}
  BY DEF IInv, Doing
<1>2. ~Ordinary
  BY <1>1, OrdinaryHead DEF SwapStep
<1>3. CASE YCCStage
  <2>1. Step("advance").do = "advance" /\ Step("base").do = "base"
        /\ Step("vidsync").do = "vidsync"
    BY StepFacts
  <2>2. \A i \in 1 .. Len(todo) : todo[i].do # "send"
    BY <1>1, <1>3, YCCHead DEF YCCStage
  <2>3. ~grb
    BY <1>3 DEF YCCStage
  <2>4. ~AwaitLast
    BY <1>3, <2>1 DEF YCCStage, AwaitLast
  <2>5. Head(todo).do = "advance" => todo = <<Step("advance")>>
    BY <1>3, <2>1 DEF YCCStage
  <2> QED BY <2>2, <2>3, <2>4, <2>5 DEF Doing
<1>4. ASSUME NEW other \in Others, GRBStage(other)
      PROVE  /\ grb /\ synced
             /\ \A i \in 1 .. Len(todo) : todo[i].do # "send"
  <2>1. PICK n \in Nat, r \in Nat : n = Parts(other) /\ r = Len(todo) /\ r >= 1
    BY <1>1, <1>4, GRBHead
  <2>2. /\ r \in 5 .. n + 4 => Head(todo).do = "send"
        /\ r \in {4, n + 7} => Head(todo).do = "send"
        /\ r \in {3, n + 6} => Head(todo).do = "await"
        /\ r = n + 5 => Head(todo).do = "vidsync"
        /\ r \in 5 .. n + 4 \/ r \in {1, 2, 3, 4, n + 5, n + 6, n + 7}
    BY <1>1, <1>4, <2>1, GRBHead
  <2>3. r \in {1, 2}
    BY <1>1, <2>2
  <2>4. grb /\ synced /\ \A i \in 1 .. r : todo[i] = GRBStep(other, r + 1 - i)
    BY <1>4, <2>1, <2>3 DEF GRBStage
  <2>5. \A i \in 1 .. r : r + 1 - i \in {1, 2}
    BY <2>3
  <2>6. GRBStep(other, 1).do # "send" /\ GRBStep(other, 2).do # "send"
    BY <1>1, GRBLast, StepFacts
  <2>7. \A x \in {1, 2} : GRBStep(other, x).do # "send"
    BY <2>6
  <2> QED BY <2>1, <2>4, <2>5, <2>7
<1>5. synced => \A m \in MPRs : dma[m] = {} /\ Waiting(m) = {}
  BY DEF IInv, SyncMeansDone, Waiting, ToSet
<1> QED BY <1>2, <1>3, <1>4, <1>5 DEF CallInv, YCCStage

(* Only drawing and converting write to a screen buffer. *)
LEMMA WritesOf ==
  ASSUME NEW c \in Commands
  PROVE  /\ c.op \notin {"draw", "conv"} => Writes(c) = {}
         /\ c.op \in {"draw", "conv"} => Writes(c) = {c.buf} /\ c.buf \in Buffers
BY DEF Writes, Commands

(* The buffers that may be written stay so, and no others are written. *)
LEMMA WriteKept ==
  ASSUME WriteInv, Writable \subseteq Writable', late \subseteq late',
         \A m \in MPRs :
           /\ \A b \in dma'[m] : b \in dma[m] \/ b \in Writable \cup late
           /\ \A c \in Waiting(m)' :
                c \in Waiting(m) \/ Writes(c) \subseteq Writable \cup late,
         \A i \in 1 .. Len(todo') : todo'[i].do = "send" =>
           /\ todo'[i].cmd.op = "draw" => todo'[i].cmd.buf \in Drawable'
           /\ todo'[i].cmd.op = "conv" => todo'[i].cmd.buf = <<1, actbuf'[1]>>
  PROVE  WriteInv'
<1>1. \A m \in MPRs :
        /\ dma[m] \subseteq Writable \cup late
        /\ \A c \in Waiting(m) : Writes(c) \subseteq Writable \cup late
  BY DEF WriteInv
<1> HIDE DEF Drawable, Writable
<1>2. \A m \in MPRs :
        /\ dma'[m] \subseteq Writable' \cup late'
        /\ \A c \in Waiting(m)' : Writes(c) \subseteq Writable' \cup late'
  BY <1>1
<1> QED BY <1>2 DEF WriteInv

(* As long as nothing else is shown or drawn to, they do. *)
LEMMA DrawableKept ==
  ASSUME TypeOK, UNCHANGED <<screen, actbuf, base>>, newField => newField',
         AwaitLast => AwaitLast'
  PROVE  Drawable \subseteq Drawable' /\ Writable \subseteq Writable'
<1>1. target' = target /\ target \in Buffers /\ grb' = grb
  BY BufferFacts DEF target, grb
<1>2. Drawable \subseteq Drawable'
  BY <1>1 DEF Drawable
<1> QED BY <1>1, <1>2 DEF Writable

(* A step of a call is done. *)
LEMMA AwaitKept ==
  ASSUME TypeOK, todo # <<>>, todo' = Tail(todo)
  PROVE  /\ AwaitLast => AwaitLast' \/ (Head(todo).do = "await" /\ todo' = <<>>)
         /\ \A i \in 1 .. Len(todo') : i + 1 \in 1 .. Len(todo) /\ todo'[i] = todo[i + 1]
<1>1. /\ todo[1] = Head(todo) /\ Len(todo) >= 1 /\ Len(todo) \in Nat
      /\ Tail(todo) \in Seq(Steps)
      /\ Len(Tail(todo)) = Len(todo) - 1
      /\ \A i \in 1 .. Len(todo) - 1 : Tail(todo)[i] = todo[i + 1]
  BY HeadFacts
<1>2. \A i \in 1 .. Len(Tail(todo)) : i + 1 \in 1 .. Len(todo) /\ Tail(todo)[i] = todo[i + 1]
  BY <1>1
<1>3. CASE Len(todo) = 1
  BY <1>1, <1>2, <1>3, EmptySeq DEF AwaitLast
<1>4. CASE Len(todo) > 1
  <2>1. Len(Tail(todo)) \in 1 .. Len(Tail(todo)) /\ Len(Tail(todo)) + 1 = Len(todo)
    BY <1>1, <1>4
  <2>2. Tail(todo)[Len(Tail(todo))] = todo[Len(todo)] /\ Tail(todo) # <<>>
    BY <1>1, <1>2, <2>1, EmptySeq
  <2> QED BY <1>2, <2>2 DEF AwaitLast
<1> QED BY <1>1, <1>3, <1>4

(* Beginning a call preserves WriteInv, *)
LEMMA CallWrite ==
  ASSUME IInv, CallInv, WriteInv, NEW s, Call(s),
         \/ Quietly(s) \/ Drawing(s) \/ Selecting(s)
         \/ Clearing(s) \/ Converting(s) \/ Swapping(s)
  PROVE  WriteInv'
<1>1. /\ TypeOK /\ target \in Buffers /\ actbuf \in [{0, 1} -> 0 .. 2]
      /\ todo = <<>> /\ todo' = s
      /\ UNCHANGED <<screen, queue, dma, base, newField, late>>
      /\ \A m : Waiting(m)' = Waiting(m)
      /\ ~AwaitLast
  BY BufferFacts DEF IInv, TypeOK, Call, Ready, mprVars, videoVars, Waiting, AwaitLast
<1>2. ASSUME NEW c \in {0, 1}, s = ClearBuffers(c) \o SendAndWait(SD) PROVE AwaitLast'
  <2> DEFINE p == ClearBuffers(c)
             q == SendAndWait(SD)
  <2>1. p \in Seq(OrdinarySteps) /\ q \in Seq(OrdinarySteps)
    BY <1>1, OrdinaryClear, TokenKinds
  <2>2. Len(q) = 2 /\ q[2].do = "await"
    BY DEF SendAndWait, Step
  <2>3. s = p \o q
    BY <1>2
  <2> HIDE DEF p, q
  <2>4. Len(s) = Len(p) + 2 /\ Len(p) \in Nat /\ s[Len(p) + 2] = q[2]
    <3>1. /\ Len(s) = Len(p) + Len(q) /\ Len(p) \in Nat
          /\ \A i \in 1 .. Len(p) + Len(q) : s[i] = IF i <= Len(p) THEN p[i] ELSE q[i - Len(p)]
      BY <2>1, <2>3, ConcatProperties
    <3>2. Len(p) + 2 \in 1 .. Len(p) + Len(q) /\ ~(Len(p) + 2 <= Len(p))
          /\ (Len(p) + 2) - Len(p) = 2
      BY <2>2, <3>1
    <3> QED BY <2>2, <3>1, <3>2
  <2>5. s # <<>>
    BY <2>4
  <2> QED BY <1>1, <2>2, <2>4, <2>5 DEF AwaitLast
<1>3. Writable \subseteq Writable' /\ target' \in Drawable'
  <2>1. CASE actbuf' = actbuf
    BY <1>1, <2>1, DrawableKept DEF Drawable, target
  <2>2. CASE Clearing(s)
    <3>1. base' = NoBuffer /\ AwaitLast'
      BY <1>1, <1>2, <2>2 DEF Clearing
    <3>2. Drawable' = Buffers
      BY <3>1 DEF Drawable
    <3>3. <<1, actbuf[1]>> \in Buffers /\ target' \in Buffers
      BY <1>1, <2>2 DEF Buffers, Clearing, target
    <3> QED BY <1>1, <3>2, <3>3 DEF Writable, Drawable
  <2> QED BY <2>1, <2>2 DEF Quietly, Drawing, Selecting, Converting, Swapping
<1>4. ASSUME \A i \in 1 .. Len(s) : s[i].do = "send" =>
               /\ s[i].cmd.op = "draw" => s[i].cmd.buf \in Drawable'
               /\ s[i].cmd.op = "conv" => s[i].cmd.buf = <<1, actbuf'[1]>>
      PROVE  WriteInv'
  BY <1>1, <1>3, <1>4, WriteKept
<1>5. CASE Quietly(s) \/ Drawing(s)
  <2>1. s \in Seq(DrawSteps(target))
    BY <1>5 DEF Quietly, Drawing
  <2>2. \A i \in 1 .. Len(s) : s[i] \in DrawSteps(target)
    BY <2>1
  <2>3. \A i \in 1 .. Len(s) : s[i].do = "send" =>
          /\ s[i].cmd.op = "draw" => s[i].cmd.buf = target
          /\ s[i].cmd.op # "conv"
    BY <2>2 DEF DrawSteps, OrdinarySteps, SwapStep
  <2>4. target' = target
    BY <1>5 DEF Quietly, Drawing, target
  <2> QED BY <1>3, <1>4, <2>3, <2>4
<1>6. CASE Selecting(s)
  <2>1. Len(s) = NumMPRs /\ \A i \in 1 .. NumMPRs : s[i].cmd = SB(target)
    BY <1>1, <1>6, SendSBSteps DEF Selecting
  <2>2. SB(target).op = "sb"
    BY DEF SB
  <2> QED BY <1>4, <2>1, <2>2
<1>7. CASE Clearing(s)
  <2>1. PICK c \in {0, 1} : s = ClearBuffers(c) \o SendAndWait(SD)
    BY <1>7 DEF Clearing
  <2> DEFINE p == ClearBuffers(c)
             q == SendAndWait(SD)
  <2>2. p \in Seq(OrdinarySteps) /\ q \in Seq(OrdinarySteps)
    BY <1>1, OrdinaryClear, TokenKinds
  <2>3. s = p \o q
    BY <2>1
  <2> HIDE DEF p, q
  <2>4. s \in Seq(OrdinarySteps)
    BY <2>2, <2>3
  <2>5. \A i \in 1 .. Len(s) : s[i] \in OrdinarySteps
    BY <2>4
  <2>6. \A i \in 1 .. Len(s) : s[i].do = "send" => s[i].cmd \in Commands /\ s[i].cmd.op # "conv"
    BY <2>5 DEF OrdinarySteps, SwapStep, Steps
  <2>7. Drawable' = Buffers
    BY <1>1, <1>2, <1>7, <2>1 DEF Clearing, Drawable
  <2>8. \A i \in 1 .. Len(s) : s[i].do = "send" /\ s[i].cmd.op = "draw" => s[i].cmd.buf \in Drawable'
    BY <2>6, <2>7, WritesOf
  <2> QED BY <1>4, <2>6, <2>8
<1>8. CASE Converting(s)
  <2>1. PICK other \in Others : s = GRBSteps(other)
    BY <1>8 DEF Converting
  <2>2. /\ Len(s) = Parts(other) + 7 /\ Parts(other) \in Nat
        /\ \A j \in 1 .. Parts(other) + 7 :
             s[j] = GRBStep(other, (Parts(other) + 7) + 1 - j)
    BY <1>1, <2>1, GRBList, ConvSteps
  <2>3. \A r : GRBStep(other, r).do = "send" =>
          /\ GRBStep(other, r).cmd.op # "draw"
          /\ GRBStep(other, r).cmd.op = "conv" =>
               GRBStep(other, r).cmd.buf = <<1, actbuf[1]>>
    BY DEF GRBStep, Part1, Conv, SD, Send, Step
  <2>4. actbuf' = actbuf
    BY <1>8 DEF Converting
  <2> QED BY <1>4, <2>2, <2>3, <2>4
<1>9. CASE Swapping(s)
  <2>1. \A i \in 1 .. Len(s) : s[i].do # "send"
    BY <1>1, <1>9, YCCSilent DEF Swapping
  <2> QED BY <1>4, <2>1
<1> QED BY <1>5, <1>6, <1>7, <1>8, <1>9

(* as do the renderers' steps, *)
LEMMA RendererWrite ==
  ASSUME IInv, FlowInv, WriteInv, NEW m \in MPRs, MPR(m) \/ DMADone(m)
  PROVE  WriteInv'
<1>1. /\ UNCHANGED <<screen, actbuf, todo, base, newField, late>>
      /\ queue[m] \in Seq(Commands)
      /\ dma \in [MPRs -> SUBSET (Buffers \cup {NoBuffer})]
      /\ actbuf \in [{0, 1} -> 0 .. 2]
  BY DEF MPR, DMADone, ExecSB, ExecDraw, ExecConv, ExecWait, ExecSync, ExecBreak,
         Halt, mprUnchanged, programVars, videoVars, IInv, TypeOK
<1>2. ASSUME NEW n \in MPRs, NEW c \in Waiting(n)'
      PROVE  c \in Waiting(n) \/ Writes(c) \subseteq Writable \cup late
  <2>1. c \in Waiting(n) \/ c.op \in {"wait", "sync", "break"}
    BY <1>2, RendererQueues
  <2> QED BY <2>1 DEF Writes
<1>3. \A c \in Waiting(m) : Writes(c) \subseteq Writable \cup late
  BY DEF WriteInv
<1>4. queue[m] # <<>> => Head(queue[m]) \in Waiting(m) /\ Head(queue[m]) \in Commands
  <2>1. HAVE queue[m] # <<>>
  <2>2. Head(queue[m]) \in ToSet(queue[m])
    BY <1>1, <2>1, Popped
  <2> QED BY <1>1, <2>1, <2>2, HeadTailProperties DEF Waiting
<1>5. ASSUME NEW n \in MPRs, NEW b \in dma'[n]
      PROVE  b \in dma[n] \/ b \in Writable \cup late
  <2>1. CASE ExecDraw(m)
    <3>1. queue[m] # <<>> /\ Head(queue[m]).op = "draw"
      BY <2>1 DEF ExecDraw, Executes
    <3>2. PICK a \in Selection : Track(queue[m], sb[m], a)
      BY DEF FlowInv, Flow
    <3>3. Head(queue[m]).buf = sb[m]
      BY <1>1, <3>1, <3>2, TrackTail
    <3>4. Writes(Head(queue[m])) = {sb[m]}
      BY <1>4, <3>1, <3>3, WritesOf
    <3>5. sb[m] \in Writable \cup late
      BY <1>3, <1>4, <3>1, <3>4
    <3>6. dma' = [dma EXCEPT ![m] = @ \cup {sb[m]}]
      BY <2>1 DEF ExecDraw
    <3> QED BY <1>1, <1>5, <3>5, <3>6
  <2>2. CASE ExecConv(m)
    <3>1. queue[m] # <<>> /\ Head(queue[m]).op = "conv"
      BY <2>2 DEF ExecConv, Executes
    <3>2. Writes(Head(queue[m])) = {Head(queue[m]).buf}
      BY <1>4, <3>1, WritesOf
    <3>3. Head(queue[m]).buf \in Writable \cup late
      BY <1>3, <1>4, <3>1, <3>2
    <3>4. dma' = [dma EXCEPT ![m] = @ \cup {Head(queue[m]).buf}]
      BY <2>2 DEF ExecConv
    <3> QED BY <1>1, <1>5, <3>3, <3>4
  <2>3. CASE DMADone(m)
    BY <1>1, <1>5, <2>3 DEF DMADone
  <2>4. CASE ~ExecDraw(m) /\ ~ExecConv(m) /\ ~DMADone(m)
    <3>1. dma' = dma
      BY <2>4 DEF MPR, ExecSB, ExecWait, ExecSync, ExecBreak, Halt
    <3> QED BY <1>5, <3>1
  <2> QED BY <2>1, <2>2, <2>3, <2>4
<1>6. \A i \in 1 .. Len(todo') : todo'[i].do = "send" =>
        /\ todo'[i].cmd.op = "draw" => todo'[i].cmd.buf \in Drawable
        /\ todo'[i].cmd.op = "conv" => todo'[i].cmd.buf = <<1, actbuf'[1]>>
  BY <1>1 DEF WriteInv
<1>7. Drawable \subseteq Drawable' /\ Writable \subseteq Writable'
  BY <1>1, DrawableKept DEF AwaitLast, IInv
<1> QED BY <1>1, <1>2, <1>5, <1>6, <1>7, WriteKept

(* What the program sends next writes where it may. *)
LEMMA HeadWrites ==
  ASSUME IInv, CallInv, WriteInv, todo # <<>>, Head(todo).do = "send"
  PROVE  Writes(Head(todo).cmd) \subseteq Writable
<1>1. TypeOK /\ 1 \in 1 .. Len(todo) /\ todo[1] = Head(todo) /\ Head(todo).cmd \in Commands
  BY HeadFacts DEF IInv
<1>2. PICK c \in Commands : c = Head(todo).cmd
  BY <1>1
<1>3. /\ c.op = "draw" => c.buf \in Drawable
      /\ c.op = "conv" => c.buf = <<1, actbuf[1]>>
  BY <1>1, <1>2 DEF WriteInv
<1>4. c.op = "conv" => grb /\ newField
  <2>1. HAVE c.op = "conv"
  <2>2. SwapStep(Head(todo))
    BY <1>2, <2>1 DEF SwapStep
  <2>3. ~Ordinary /\ ~YCCStage
    BY <1>1, <2>2, OrdinaryHead, YCCHead
  <2>4. PICK other \in Others : GRBStage(other)
    BY <2>3 DEF CallInv
  <2>5. PICK n \in Nat, r \in Nat : n = Parts(other) /\ r = Len(todo) /\ r >= 1
    BY <1>1, <2>4, GRBHead
  <2>6. /\ r \in {4, n + 7} => c = SD
        /\ r \in {3, n + 6} => Head(todo).do = "await"
        /\ r = n + 5 => Head(todo).do = "vidsync"
        /\ r = 2 => Head(todo).do = "base"
        /\ r = 1 => Head(todo).do = "advance"
        /\ r \in 5 .. n + 4 \/ r \in {1, 2, 3, 4, n + 5, n + 6, n + 7}
    BY <1>1, <1>2, <2>4, <2>5, GRBHead
  <2>7. SD.op # "conv"
    BY TokenFacts
  <2>8. r \in 5 .. n + 4
    BY <2>1, <2>6, <2>7
  <2>9. r \in 2 .. n + 4
    BY <2>8
  <2> QED BY <2>4, <2>5, <2>9 DEF GRBStage
<1> QED BY <1>2, <1>3, <1>4, WritesOf DEF Writable

(* sending the last packet of a command, *)
LEMMA SendWrite ==
  ASSUME IInv, CallInv, WriteInv, SendLast
  PROVE  WriteInv'
<1>1. PICK k \in MPRs, c \in Commands : k = Head(todo).to /\ c = Head(todo).cmd
  BY SentQueues
<1>2. /\ TypeOK /\ todo # <<>> /\ Head(todo).do = "send" /\ todo' = Tail(todo)
      /\ UNCHANGED <<screen, actbuf, base, dma, newField, late>>
  BY DEF IInv, SendLast, Doing, videoVars
<1>3. /\ todo[1] = Head(todo) /\ Len(todo) >= 1 /\ Len(todo) \in Nat
      /\ Len(Tail(todo)) = Len(todo) - 1
      /\ \A i \in 1 .. Len(todo) - 1 : Tail(todo)[i] = todo[i + 1]
  BY <1>2, HeadFacts
<1>4. \A i \in 1 .. Len(todo) : todo[i].do = "send" =>
        /\ todo[i].cmd.op = "draw" => todo[i].cmd.buf \in Drawable
        /\ todo[i].cmd.op = "conv" => todo[i].cmd.buf = <<1, actbuf[1]>>
  BY DEF WriteInv
<1>5. Drawable \subseteq Drawable' /\ Writable \subseteq Writable'
  <2>1. AwaitLast => AwaitLast'
    BY <1>2, AwaitKept
  <2> QED BY <1>2, <2>1, DrawableKept
<1>6. Writes(c) \subseteq Writable
  BY <1>1, <1>2, HeadWrites
<1>8. ASSUME NEW m \in MPRs, NEW e \in Waiting(m)'
      PROVE  e \in Waiting(m) \/ Writes(e) \subseteq Writable \cup late
  <2>1. CASE m = k
    <3>1. ToSet(queue'[k]) = Waiting(k) \cup {c}
      BY <1>1, SentQueues
    <3>2. Waiting(k)' = ToSet(queue'[k])
      BY DEF Waiting
    <3> QED BY <1>6, <1>8, <2>1, <3>1, <3>2
  <2>2. CASE m # k
    BY <1>1, <1>8, <2>2, SentQueues
  <2> QED BY <2>1, <2>2
<1>9. \A i \in 1 .. Len(todo') : todo'[i].do = "send" =>
        /\ todo'[i].cmd.op = "draw" => todo'[i].cmd.buf \in Drawable'
        /\ todo'[i].cmd.op = "conv" => todo'[i].cmd.buf = <<1, actbuf'[1]>>
  <2>1. \A i \in 1 .. Len(todo') : i + 1 \in 1 .. Len(todo) /\ todo'[i] = todo[i + 1]
    BY <1>2, AwaitKept
  <2> QED BY <1>2, <1>4, <1>5, <2>1
<1> QED BY <1>2, <1>5, <1>8, <1>9, WriteKept

(* and the steps of the program that send nothing. *)
LEMMA WaitWrite ==
  ASSUME IInv, IInv', CallInv, WriteInv, VideoInv,
         (Await /\ todo' # todo) \/ VidSync \/ ChangeBase \/ Advance \/ Free
  PROVE  WriteInv'
<1>1. /\ TypeOK /\ todo # <<>> /\ todo' = Tail(todo) /\ UNCHANGED <<screen, queue, dma>>
      /\ \A m : Waiting(m)' = Waiting(m)
  BY DEF IInv, Await, VidSync, ChangeBase, Advance, Free, Doing, mprVars, Waiting
<1>2. /\ AwaitLast => AwaitLast' \/ (Head(todo).do = "await" /\ todo' = <<>>)
      /\ \A i \in 1 .. Len(todo') : i + 1 \in 1 .. Len(todo) /\ todo'[i] = todo[i + 1]
  BY <1>1, AwaitKept
<1>3. \A i \in 1 .. Len(todo) : todo[i].do = "send" =>
        /\ todo[i].cmd.op = "draw" => todo[i].cmd.buf \in Drawable
        /\ todo[i].cmd.op = "conv" => todo[i].cmd.buf = <<1, actbuf[1]>>
  BY DEF WriteInv
<1>4. CASE Await /\ todo' # todo
  <2>1. synced' /\ UNCHANGED <<actbuf, base, newField>>
    BY <1>4 DEF Await, videoVars
  <2>2. \A m \in MPRs : dma'[m] = {} /\ Waiting(m)' = {}
    BY <2>1 DEF IInv, SyncMeansDone, Waiting, ToSet
  <2>3. todo' = <<>> \/ Drawable \subseteq Drawable'
    BY <1>1, <1>2, <2>1, DrawableKept
  <2>4. \A i \in 1 .. Len(todo') : todo'[i].do = "send" =>
          /\ todo'[i].cmd.op = "draw" => todo'[i].cmd.buf \in Drawable'
          /\ todo'[i].cmd.op = "conv" => todo'[i].cmd.buf = <<1, actbuf'[1]>>
    <3>1. CASE todo' = <<>>
      BY <3>1
    <3>2. CASE todo' # <<>>
      BY <1>2, <1>3, <2>1, <2>3, <3>2
    <3> QED BY <3>1, <3>2
  <2> QED BY <2>2, <2>4 DEF WriteInv
<1>5. CASE VidSync \/ Free
  <2>1. UNCHANGED <<actbuf, base, late>> /\ (newField => newField')
        /\ Head(todo).do # "await"
    BY <1>5 DEF VidSync, Free, Doing, videoVars
  <2>2. Drawable \subseteq Drawable' /\ Writable \subseteq Writable'
    BY <1>1, <1>2, <2>1, DrawableKept
  <2>3. \A i \in 1 .. Len(todo') : todo'[i].do = "send" =>
          /\ todo'[i].cmd.op = "draw" => todo'[i].cmd.buf \in Drawable'
          /\ todo'[i].cmd.op = "conv" => todo'[i].cmd.buf = <<1, actbuf'[1]>>
    BY <1>2, <1>3, <2>1, <2>2
  <2> QED BY <1>1, <2>1, <2>2, <2>3, WriteKept
<1>6. ASSUME ChangeBase \/ Advance
      PROVE  WriteInv'
  <2>1. Doing("base") \/ Doing("advance")
    BY <1>6 DEF ChangeBase, Advance
  <2>2. /\ grb => \A m \in MPRs : dma[m] = {} /\ Waiting(m) = {}
        /\ \A i \in 1 .. Len(todo') : todo'[i].do # "send"
        /\ ~grb => ~AwaitLast
    BY <1>2, <2>1, SwapEnd
  <2>3. \A m \in MPRs : /\ dma[m] \subseteq Writable \cup late
                         /\ \A c \in Waiting(m) : Writes(c) \subseteq Writable \cup late
    BY DEF WriteInv
  <2>4. ASSUME ~grb => Writable \cup late \subseteq Writable' \cup late'
        PROVE  WriteInv'
    <3>1. CASE grb
      BY <1>1, <2>2, <3>1 DEF WriteInv
    <3>2. CASE ~grb
      <4> HIDE DEF Writable
      <4>1. \A m \in MPRs :
              /\ dma'[m] \subseteq Writable' \cup late'
              /\ \A c \in Waiting(m)' : Writes(c) \subseteq Writable' \cup late'
        BY <1>1, <2>3, <2>4, <3>2
      <4> QED BY <2>2, <4>1 DEF WriteInv
    <3> QED BY <3>1, <3>2
  <2>5. ASSUME ~grb PROVE Writable = {target} /\ target' \in Writable' /\ shown = 0
    <3>1. target' \in Buffers
      BY DEF IInv, TypeOK, target, Buffers
    <3>2. target' \in Writable'
      BY <3>1 DEF Writable, Drawable
    <3> QED BY <2>2, <2>5, <3>2 DEF Writable, Drawable, shown
  <2>6. CASE ChangeBase
    <3>1. late \subseteq late' /\ target' = target
      BY <2>6 DEF ChangeBase, target
    <3> QED BY <2>4, <2>5, <3>1
  <2>7. CASE Advance
    <3>1. /\ Doing("advance") /\ late' = late
          /\ actbuf' = [actbuf EXCEPT ![shown] = IF @ + 1 = numbuf(shown) THEN 0 ELSE @ + 1]
      BY <2>7 DEF Advance
    <3>2. ASSUME ~grb, ~synced PROVE target \in late \/ target' = target
      <4>1. shown = 0 /\ Handed
        BY <2>5, <3>1, <3>2 DEF Handed
      <4>2. CASE base = NoBuffer
        <5>1. numbuf(0) = 1
          BY <4>1, <4>2 DEF VideoInv, HandedInv
        <5>2. actbuf \in [{0, 1} -> 0 .. 2] /\ actbuf[0] < numbuf(0)
          BY <1>1 DEF TypeOK
        <5>3. actbuf[0] = 0
          BY <5>1, <5>2
        <5>4. actbuf'[0] = 0
          BY <3>1, <4>1, <5>1, <5>2, <5>3
        <5> QED BY <5>3, <5>4 DEF target
      <4>3. CASE base # NoBuffer
        <5>1. base = target
          BY <4>1, <4>3 DEF VideoInv, target
        <5> QED BY <3>2, <4>1, <4>3, <5>1 DEF VideoInv, HandedInv
      <4> QED BY <4>2, <4>3
    <3>3. CASE synced
      <4>1. \A m \in MPRs : dma[m] = {} /\ Waiting(m) = {}
        BY <3>3 DEF IInv, SyncMeansDone, Waiting, ToSet
      <4> QED BY <1>1, <2>2, <4>1 DEF WriteInv
    <3>4. CASE ~synced
      BY <2>4, <2>5, <3>1, <3>2, <3>4
    <3> QED BY <3>3, <3>4
  <2> QED BY <1>6, <2>6, <2>7
<1> QED BY <1>4, <1>5, <1>6

(* Every step preserves WriteInv. *)
LEMMA NextWrite ==
  ASSUME IInv, IInv', FlowInv, CallInv, WriteInv, VideoInv, [Next]_vars
  PROVE  WriteInv'
<1>1. /\ TypeOK
      /\ \A i \in 1 .. Len(todo) : todo[i].do = "send" =>
           /\ todo[i].cmd.op = "draw" => todo[i].cmd.buf \in Drawable
           /\ todo[i].cmd.op = "conv" => todo[i].cmd.buf = <<1, actbuf[1]>>
  BY DEF IInv, WriteInv
<1>2. CASE UNCHANGED vars \/ Field \/ Stray \/ SendFirst \/ (Await /\ todo' = todo)
  <2>1. /\ UNCHANGED <<screen, actbuf, todo, base, queue, dma>> /\ (newField => newField')
        /\ late' = late
    <3>1. Await /\ todo' = todo => late' = late
      <4>1. todo # <<>> => Tail(todo) # todo
        BY <1>1, HeadFacts
      <4> QED BY <4>1 DEF Await, Doing
    <3> QED BY <1>2, <3>1 DEF vars, Field, Stray, SendFirst, Await, programVars, mprVars,
                             videoVars
  <2>2. (\A m : Waiting(m)' = Waiting(m)) /\ AwaitLast' = AwaitLast
    BY <2>1 DEF Waiting, AwaitLast
  <2>3. Drawable \subseteq Drawable' /\ Writable \subseteq Writable'
    BY <1>1, <2>1, <2>2, DrawableKept
  <2> QED BY <1>1, <2>1, <2>2, <2>3, WriteKept
<1>3. CASE mdSetupMPRChain
  <2>1. /\ UNCHANGED <<screen, actbuf, todo, base, dma, newField, late>>
        /\ \A m \in MPRs : queue'[m] = queue[m] \/ queue'[m] = <<>>
    BY <1>3 DEF mdSetupMPRChain, videoVars
  <2>2. \A m \in MPRs : Waiting(m)' = Waiting(m) \/ Waiting(m)' = {}
    BY <2>1 DEF Waiting, ToSet
  <2>3. Drawable \subseteq Drawable' /\ Writable \subseteq Writable'
    BY <1>1, <2>1, DrawableKept DEF AwaitLast
  <2> QED BY <1>1, <2>1, <2>2, <2>3, WriteKept
<1>4. CASE App
  BY <1>3, <1>4, CallKinds, CallWrite DEF IInv
<1>5. CASE SendLast
  BY <1>5, SendWrite
<1>6. CASE (Await /\ todo' # todo) \/ VidSync \/ ChangeBase \/ Advance \/ Free
  BY <1>6, WaitWrite
<1>7. CASE \E m \in MPRs : MPR(m) \/ DMADone(m)
  BY <1>7, RendererWrite
<1> QED BY <1>2, <1>4, <1>5, <1>6, <1>7 DEF Next, Within

-----------------------------------------------------------------------------
(* What is shown. *)

(* What follows a step, as far as the video encoder is concerned. *)
LEMMA NextHead ==
  ASSUME TypeOK, StageInv, todo # <<>>, todo' = Tail(todo), screen' = screen
  PROVE  /\ Head(todo).do \in {"send", "await", "free"} =>
              ~Handed /\ ~Handed'
         /\ Head(todo).do = "vidsync" => (Handed' <=> Handed)
         /\ Head(todo).do = "base" =>
              /\ ~Handed /\ Handed'
              /\ numbuf(shown) # 1
              /\ ~grb /\ numbuf(0) = 2 => Doing("vidsync")'
              /\ newField \/ (~grb /\ numbuf(0) = 2)
         /\ Head(todo).do = "advance" => Handed /\ ~Handed'
<1>1. /\ grb' = grb /\ numbuf(0)' = numbuf(0) /\ shown' = shown
      /\ \A d : Doing(d) <=> Head(todo).do = d
      /\ \A d : Doing(d)' <=> Tail(todo) # <<>> /\ Head(Tail(todo)).do = d
  BY DEF grb, numbuf, shown, Doing
<1>2. CASE Ordinary
  <2>1. /\ ~SwapStep(Head(todo))
        /\ \A i \in 1 .. Len(Tail(todo)) : ~SwapStep(Tail(todo)[i])
    BY <1>2, OrdinaryHead
  <2>2. Tail(todo) \in Seq(Steps)
    BY HeadFacts
  <2>3. Tail(todo) # <<>> => Head(Tail(todo)) = Tail(todo)[1] /\ 1 \in 1 .. Len(Tail(todo))
    BY <2>2, EmptySeq, HeadTailProperties
  <2>4. Tail(todo) # <<>> => ~SwapStep(Head(Tail(todo)))
    BY <2>1, <2>3
  <2>5. ~Handed /\ ~Handed'
    BY <1>1, <2>1, <2>4 DEF Handed, SwapStep
  <2> QED BY <2>1, <2>5 DEF SwapStep
<1>3. CASE YCCStage
  <2> DEFINE v == Step("vidsync")
             b == Step("base")
             a == Step("advance")
             t == Tail(todo)
  <2>1. /\ v \in Steps /\ b \in Steps /\ a \in Steps
        /\ v.do = "vidsync" /\ b.do = "base" /\ a.do = "advance"
    BY StepFacts
  <2>2. ~grb
    BY <1>3 DEF YCCStage
  <2>3. /\ Head(todo).do \in {"vidsync", "base", "advance"}
        /\ Head(todo).do = "advance" => t = <<>>
        /\ Head(todo).do = "vidsync" /\ numbuf(0) = 2 => t = <<a>>
        /\ Head(todo).do = "vidsync" /\ numbuf(0) # 2 => numbuf(0) = 3 /\ t = <<b, a>>
        /\ Head(todo).do = "base" /\ numbuf(0) = 2 => t = <<v, a>>
        /\ Head(todo).do = "base" /\ numbuf(0) # 2 => numbuf(0) = 3 /\ newField /\ t = <<a>>
    BY <1>3, YCCHead
  <2> HIDE DEF v, b, a, t
  <2>4. /\ <<a>> # <<>> /\ Head(<<a>>) = a
        /\ <<b, a>> # <<>> /\ Head(<<b, a>>) = b
        /\ <<v, a>> # <<>> /\ Head(<<v, a>>) = v
    BY <2>1
  <2>5. \A d : Doing(d)' <=> t # <<>> /\ Head(t).do = d
    BY <1>1 DEF t
  <2>6. shown = 0
    BY <2>2 DEF shown
  <2>7. CASE Head(todo).do = "advance"
    BY <1>1, <2>2, <2>3, <2>5, <2>7 DEF Handed
  <2>8. CASE Head(todo).do = "vidsync"
    <3>1. CASE numbuf(0) = 2
      BY <1>1, <2>1, <2>2, <2>3, <2>4, <2>5, <2>8, <3>1 DEF Handed
    <3>2. CASE numbuf(0) # 2
      BY <1>1, <2>1, <2>2, <2>3, <2>4, <2>5, <2>8, <3>2 DEF Handed
    <3> QED BY <3>1, <3>2
  <2>9. CASE Head(todo).do = "base"
    <3>1. CASE numbuf(0) = 2
      <4>1. t = <<v, a>>
        BY <2>3, <2>9, <3>1
      <4>2. Doing("vidsync")'
        BY <2>1, <2>4, <2>5, <4>1
      <4>3. Handed'
        BY <1>1, <2>2, <3>1, <4>2 DEF Handed
      <4>4. ~Handed
        BY <1>1, <2>9 DEF Handed
      <4>5. numbuf(shown) # 1
        BY <2>6, <3>1
      <4> QED BY <2>2, <2>9, <3>1, <4>2, <4>3, <4>4, <4>5
    <3>2. CASE numbuf(0) # 2
      BY <1>1, <2>1, <2>2, <2>3, <2>4, <2>5, <2>6, <2>9, <3>2 DEF Handed
    <3> QED BY <3>1, <3>2
  <2> QED BY <2>3, <2>7, <2>8, <2>9
<1>4. ASSUME NEW other \in Others, GRBStage(other)
      PROVE  /\ Head(todo).do \in {"send", "await", "free"} => ~Handed /\ ~Handed'
             /\ Head(todo).do = "vidsync" => (Handed' <=> Handed)
             /\ Head(todo).do = "base" =>
                  /\ ~Handed /\ Handed'
                  /\ numbuf(shown) # 1
                  /\ newField
             /\ Head(todo).do = "advance" => Handed /\ ~Handed'
             /\ grb
  <2>1. PICK n \in Nat, r \in Nat : n = Parts(other) /\ r = Len(todo) /\ r >= 1
    BY <1>4, GRBHead
  <2>2. /\ Tail(todo) \in Seq(Steps) /\ Len(Tail(todo)) = r - 1
        /\ \A j \in 1 .. r - 1 : Tail(todo)[j] = GRBStep(other, r - j)
        /\ r \in 5 .. n + 4 => Head(todo).do = "send"
        /\ r \in {4, n + 7} => Head(todo).do = "send"
        /\ r \in {3, n + 6} => Head(todo).do = "await"
        /\ r = n + 5 => Head(todo).do = "vidsync"
        /\ r = 2 => Head(todo).do = "base"
        /\ r = 1 => Head(todo).do = "advance"
        /\ r \in 5 .. n + 4 \/ r \in {1, 2, 3, 4, n + 5, n + 6, n + 7}
    BY <1>4, <2>1, GRBHead
  <2>3. grb /\ (r = 2 => newField)
    BY <1>4, <2>1 DEF GRBStage
  <2>4. numbuf(shown) = 2
    BY <2>3, ChainAssumption DEF numbuf, shown, grb, TypeOK
  <2>5. r > 1 => Tail(todo) # <<>> /\ Head(Tail(todo)) = GRBStep(other, r - 1)
    <3>1. HAVE r > 1
    <3>2. Tail(todo) # <<>>
      <4>1. SUFFICES ASSUME Tail(todo) = <<>> PROVE FALSE
        OBVIOUS
      <4>2. Len(<<>>) = 0
        OBVIOUS
      <4>3. Len(Tail(todo)) = Len(<<>>)
        BY <4>1, Zenon
      <4>4. Len(Tail(todo)) = r - 1
        BY <2>2
      <4> QED BY <3>1, <4>2, <4>3, <4>4
    <3>3. Head(Tail(todo)) = Tail(todo)[1]
      BY <2>2, <3>2, HeadTailProperties
    <3>4. 1 \in 1 .. r - 1
      BY <3>1
    <3> QED BY <2>2, <3>2, <3>3, <3>4
  <2>6. r = 1 => Tail(todo) = <<>>
    BY <2>2, EmptySeq
  <2>7. \A x \in Nat : x > 1 => GRBStep(other, x).do # "advance" \/ x > n + 7
    <3>1. TAKE x \in Nat
    <3>2. HAVE x > 1
    <3>3. CASE x \in 5 .. n + 4 \/ x \in {4, n + 7}
      <4>1. GRBStep(other, x).do = "send"
        BY <2>1, <3>3 DEF GRBStep, Send
      <4> QED BY <4>1
    <3>4. CASE x \notin 5 .. n + 4 /\ x \in {2, 3, n + 5, n + 6} /\ x \notin {4, n + 7}
      BY <2>1, <3>4, StepFacts DEF GRBStep
    <3>5. x > n + 7 \/ x \in 5 .. n + 4 \/ x \in {2, 3, 4, n + 5, n + 6, n + 7}
      BY <3>1, <3>2
    <3> QED BY <3>3, <3>4, <3>5
  <2>8. r <= n + 7
    BY <1>4, <2>1 DEF GRBStage
  <2>9. Handed <=> Head(todo).do = "advance"
    BY <1>1, <2>3 DEF Handed
  <2>10. Handed' <=> Tail(todo) # <<>> /\ Head(Tail(todo)).do = "advance"
    BY <1>1, <2>3 DEF Handed
  <2>11. CASE r = 1
    BY <2>2, <2>3, <2>6, <2>9, <2>10, <2>11
  <2>12. CASE r = 2
    <3>1. GRBStep(other, r - 1).do = "advance"
      BY <2>12, GRBLast, StepFacts
    <3> QED BY <2>2, <2>3, <2>4, <2>5, <2>9, <2>10, <2>12, <3>1
  <2>13. CASE r > 2
    <3>1. GRBStep(other, r - 1).do # "advance"
      <4>1. r - 1 \in Nat /\ r - 1 > 1 /\ ~(r - 1 > n + 7)
        BY <2>8, <2>13
      <4> QED BY <2>7, <4>1
    <3>2. ~Handed'
      BY <2>5, <2>10, <2>13, <3>1
    <3>3. Head(todo).do \in {"send", "await", "vidsync"}
      BY <2>2, <2>13
    <3>4. ~Handed
      BY <2>9, <3>3
    <3> QED BY <2>3, <3>2, <3>3, <3>4
  <2> QED BY <2>1, <2>11, <2>12, <2>13
<1> QED BY <1>2, <1>3, <1>4 DEF StageInv

(* A call that has begun has handed nothing over, unless the screen has only  *)
(* one buffer.                                                                *)
LEMMA CallHanded ==
  ASSUME IInv, NEW s, Call(s),
         \/ Quietly(s) \/ Drawing(s) \/ Selecting(s)
         \/ Clearing(s) \/ Converting(s) \/ Swapping(s)
  PROVE  Handed' => numbuf(shown) = 1
<1>1. /\ TypeOK /\ target \in Buffers /\ todo' = s
      /\ grb' = grb /\ numbuf(0)' = numbuf(0)
      /\ \A d : Doing(d)' <=> s # <<>> /\ Head(s).do = d
  BY BufferFacts DEF IInv, Call, grb, numbuf, Doing
<1>2. ASSUME s \in Seq(Steps),
             \A i \in 1 .. Len(s) : s[i].do \notin {"vidsync", "advance"}
      PROVE  ~Handed'
  <2>1. s # <<>> => 1 \in 1 .. Len(s) /\ Head(s) = s[1]
    BY <1>2, EmptySeq, HeadTailProperties
  <2>2. ~Doing("advance")' /\ ~Doing("vidsync")'
    BY <1>1, <1>2, <2>1
  <2> QED BY <2>2 DEF Handed
<1>3. ASSUME s \in Seq(OrdinarySteps) PROVE ~Handed'
  <2>1. s \in Seq(Steps) /\ \A i \in 1 .. Len(s) : s[i] \in OrdinarySteps
    BY <1>3 DEF OrdinarySteps
  <2>2. \A i \in 1 .. Len(s) : s[i].do \notin {"vidsync", "advance"}
    BY <2>1 DEF OrdinarySteps, SwapStep
  <2> QED BY <1>2, <2>1, <2>2
<1>4. CASE Quietly(s) \/ Drawing(s)
  <2>1. s \in Seq(DrawSteps(target))
    BY <1>4 DEF Quietly, Drawing
  <2>2. DrawSteps(target) \subseteq OrdinarySteps
    BY DEF DrawSteps
  <2> HIDE DEF target
  <2>3. s \in Seq(OrdinarySteps)
    BY <2>1, <2>2
  <2> QED BY <1>3, <2>3
<1>5. CASE Selecting(s)
  <2>1. /\ s \in Seq(Steps) /\ Len(s) = NumMPRs
        /\ \A i \in 1 .. NumMPRs : s[i].do = "send"
    BY <1>1, <1>5, SendSBSteps DEF Selecting
  <2> QED BY <1>2, <2>1
<1>6. CASE Clearing(s)
  <2>1. PICK c \in {0, 1} : s = ClearBuffers(c) \o SendAndWait(SD)
    BY <1>6 DEF Clearing
  <2> DEFINE p == ClearBuffers(c)
             q == SendAndWait(SD)
  <2>2. p \in Seq(OrdinarySteps) /\ q \in Seq(OrdinarySteps)
    BY <1>1, OrdinaryClear, TokenKinds
  <2>3. s = p \o q
    BY <2>1
  <2> HIDE DEF p, q
  <2>4. s \in Seq(OrdinarySteps)
    BY <2>2, <2>3
  <2> QED BY <1>3, <2>4
<1>7. CASE Converting(s)
  <2>1. PICK other \in Others : s = GRBSteps(other)
    BY <1>7 DEF Converting
  <2>2. PICK n \in Nat : n = Parts(other)
    BY <1>1, ConvSteps
  <2>3. /\ s \in Seq(Steps) /\ Len(s) = n + 7
        /\ \A j \in 1 .. n + 7 : s[j] = GRBStep(other, (n + 7) + 1 - j)
    BY <1>1, <2>1, <2>2, GRBList
  <2>4. s # <<>> /\ 1 \in 1 .. n + 7 /\ (n + 7) + 1 - 1 = n + 7
    BY <2>3, EmptySeq
  <2>5. Head(s) = GRBStep(other, n + 7)
    BY <2>3, <2>4, HeadTailProperties
  <2>6. GRBStep(other, n + 7).do = "send"
    BY <2>2 DEF GRBStep, Send
  <2>7. grb
    BY <1>7 DEF Converting
  <2> QED BY <1>1, <2>5, <2>6, <2>7 DEF Handed
<1>8. CASE Swapping(s)
  <2> DEFINE v == Step("vidsync")
             b == Step("base")
             a == Step("advance")
  <2>1. v \in Steps /\ b \in Steps /\ v.do = "vidsync" /\ b.do = "base" /\ a \in Steps
    BY StepFacts
  <2>2. \/ numbuf(0) = 1
        \/ numbuf(0) = 2 /\ s = <<b, v, a>>
        \/ numbuf(0) = 3 /\ s = <<v, b, a>>
    BY <1>1, <1>8, YCCList DEF Swapping
  <2>3. ~grb /\ shown = 0
    BY <1>8 DEF Swapping, shown
  <2> HIDE DEF v, b, a
  <2>4. Head(<<b, v, a>>) = b /\ Head(<<v, b, a>>) = v
    BY <2>1
  <2>5. CASE numbuf(0) = 1
    BY <2>3, <2>5
  <2>6. CASE numbuf(0) = 2 /\ s = <<b, v, a>>
    BY <1>1, <2>1, <2>3, <2>4, <2>6 DEF Handed
  <2>7. CASE numbuf(0) = 3 /\ s = <<v, b, a>>
    BY <1>1, <2>1, <2>3, <2>4, <2>7 DEF Handed
  <2> QED BY <2>2, <2>5, <2>6, <2>7
<1> QED BY <1>4, <1>5, <1>6, <1>7, <1>8

(* Steps that the video encoder does not notice. *)
LEMMA VideoKept ==
  ASSUME VideoInv, UNCHANGED <<screen, base, displayed, newField>>,
         base # NoBuffer => actbuf' = actbuf /\ (Handed' <=> Handed),
         Doing("vidsync") /\ ~newField => Doing("vidsync")',
         Handed' => \/ Handed /\ UNCHANGED <<synced, late>>
                    \/ base = NoBuffer /\ numbuf(shown) = 1
  PROVE  VideoInv'
<1>1. /\ grb' = grb /\ shown' = shown /\ \A c : numbuf(c)' = numbuf(c)
      /\ numbuf(shown)' = numbuf(shown)
  BY DEF grb, shown, numbuf
<1>2. base # NoBuffer =>
        base' = <<shown', IF Handed' THEN actbuf'[shown'] ELSE Pred(actbuf[shown])'>>
  <2>1. HAVE base # NoBuffer
  <2>2. Pred(actbuf[shown])' = Pred(actbuf[shown])
    BY <1>1, <2>1 DEF Pred
  <2>3. base = <<shown, IF Handed THEN actbuf[shown] ELSE Pred(actbuf[shown])>>
    BY <2>1 DEF VideoInv
  <2> QED BY <1>1, <2>1, <2>2, <2>3
<1>3. Pred(base[2])' = Pred(base[2])
  BY <1>1 DEF Pred
<1>4. ~grb /\ numbuf(0) = 2 => newField' \/ Doing("vidsync")'
  BY DEF VideoInv
<1>5. HandedInv'
  BY <1>1 DEF VideoInv, HandedInv
<1> QED BY <1>1, <1>2, <1>3, <1>4, <1>5 DEF VideoInv

(* The active buffers are buffers. *)
LEMMA BaseFacts ==
  ASSUME TypeOK, NEW c \in {0, 1}
  PROVE  <<c, actbuf[c]>> \in Buffers /\ <<c, actbuf[c]>> # NoBuffer
BY ChainAssumption, BufferFacts DEF Buffers

(* A buffer is handed to the video encoder. *)
LEMMA ChangeBaseVideo ==
  ASSUME TypeOK, StageInv, VideoInv, ChangeBase
  PROVE  VideoInv' /\ newField
<1>1. /\ todo # <<>> /\ Head(todo).do = "base" /\ todo' = Tail(todo)
      /\ UNCHANGED <<screen, actbuf, displayed>>
      /\ base' = <<shown, actbuf[shown]>> /\ newField' = FALSE
  BY DEF ChangeBase, Doing
<1>2. /\ ~Handed /\ Handed' /\ numbuf(shown) # 1
      /\ ~grb /\ numbuf(0) = 2 => Doing("vidsync")'
      /\ newField \/ (~grb /\ numbuf(0) = 2)
  BY <1>1, NextHead
<1>3. newField
  <2>1. ~Doing("vidsync")
    BY <1>1 DEF Doing
  <2> QED BY <1>2, <2>1 DEF VideoInv
<1>4. /\ grb' = grb /\ shown' = shown /\ numbuf(0)' = numbuf(0)
      /\ numbuf(shown)' = numbuf(shown) /\ shown \in {0, 1}
  BY <1>1 DEF grb, shown, numbuf
<1>5. base' # NoBuffer
  BY <1>1, <1>4, BaseFacts
<1>6. base' = <<shown', actbuf'[shown']>>
  BY <1>1, <1>4
<1>7. displayed = base /\ (displayed # NoBuffer => displayed[1] = shown)
  BY <1>3 DEF VideoInv
<1>8. ASSUME ~grb, base # NoBuffer
      PROVE  displayed = <<0, Pred(base[2])'>>
  <2>1. shown = 0
    BY <1>8 DEF shown
  <2>2. base = <<0, Pred(actbuf[0])>>
    BY <1>2, <1>8, <2>1 DEF VideoInv
  <2>3. base'[2] = actbuf[0]
    BY <1>1, <2>1
  <2>4. Pred(base[2])' = Pred(actbuf[0])
    BY <1>4, <2>3 DEF Pred
  <2> QED BY <1>7, <2>2, <2>4
<1>9. ~grb /\ numbuf(0) = 3 => displayed \in {NoBuffer, <<0, Pred(base[2])'>>}
  BY <1>7, <1>8
<1>10. displayed # NoBuffer => displayed[1] = shown
  BY <1>7
<1>11. HandedInv'
  <2>1. synced' \/ base' \in late'
    BY DEF ChangeBase
  <2> QED BY <1>5, <2>1 DEF HandedInv
<1>12. VideoInv'
  BY <1>1, <1>2, <1>4, <1>5, <1>6, <1>9, <1>10, <1>11 DEF VideoInv
<1> QED BY <1>3, <1>12

(* The swap goes on to the next buffer. *)
LEMMA AdvanceVideo ==
  ASSUME TypeOK, StageInv, VideoInv, Advance
  PROVE  VideoInv'
<1>1. /\ todo # <<>> /\ Head(todo).do = "advance" /\ todo' = Tail(todo)
      /\ UNCHANGED <<screen, base, displayed, newField>>
      /\ actbuf' = [actbuf EXCEPT ![shown] = IF @ + 1 = numbuf(shown) THEN 0 ELSE @ + 1]
  BY DEF Advance, Doing, videoVars
<1>2. Handed /\ ~Handed'
  BY <1>1, NextHead
<1>3. /\ grb' = grb /\ shown' = shown /\ \A c : numbuf(c)' = numbuf(c)
      /\ numbuf(shown)' = numbuf(shown) /\ shown \in {0, 1}
  BY <1>1 DEF grb, shown, numbuf
<1>4. actbuf \in [{0, 1} -> 0 .. 2] /\ numbuf(shown) \in 1 .. 3
  BY <1>3, BufferFacts DEF TypeOK
<1>5. Pred(actbuf[shown])' = actbuf[shown]
  <2>1. actbuf'[shown] = IF actbuf[shown] + 1 = numbuf(shown) THEN 0 ELSE actbuf[shown] + 1
    BY <1>1, <1>3, <1>4
  <2>2. Pred(actbuf[shown])' = IF actbuf'[shown] = 0 THEN numbuf(shown) - 1
                               ELSE actbuf'[shown] - 1
    BY <1>3 DEF Pred
  <2>3. actbuf[shown] \in 0 .. 2
    BY <1>3, <1>4
  <2> HIDE DEF numbuf, shown
  <2> QED BY <1>4, <2>1, <2>2, <2>3
<1>6. base # NoBuffer =>
        base' = <<shown', IF Handed' THEN actbuf'[shown'] ELSE Pred(actbuf[shown])'>>
  <2>1. HAVE base # NoBuffer
  <2>2. base = <<shown, actbuf[shown]>>
    BY <1>2, <2>1 DEF VideoInv
  <2> QED BY <1>1, <1>2, <1>3, <1>5, <2>2
<1>7. ~grb /\ numbuf(0) = 2 => newField
  <2>1. ~Doing("vidsync")
    BY <1>1 DEF Doing
  <2> QED BY <2>1 DEF VideoInv
<1>8. Pred(base[2])' = Pred(base[2]) /\ HandedInv'
  BY <1>1, <1>2, <1>3 DEF Pred, HandedInv
<1> QED BY <1>1, <1>3, <1>6, <1>7, <1>8 DEF VideoInv

(* A field preserves VideoInv. *)
LEMMA FieldVideo ==
  ASSUME TypeOK, VideoInv, Field
  PROVE  VideoInv'
<1>1. /\ UNCHANGED <<screen, actbuf, todo, base, synced, late>>
      /\ displayed' = base /\ newField' = TRUE
  BY DEF Field, programVars
<1>2. /\ grb' = grb /\ shown' = shown /\ \A c : numbuf(c)' = numbuf(c)
      /\ numbuf(shown)' = numbuf(shown)
      /\ \A d : Doing(d)' <=> Doing(d)
  BY <1>1 DEF grb, shown, numbuf, Doing
<1>3. (Handed' <=> Handed) /\ Pred(actbuf[shown])' = Pred(actbuf[shown])
  BY <1>1, <1>2 DEF Handed, Pred
<1>4. base # NoBuffer =>
        /\ base' = <<shown', IF Handed' THEN actbuf'[shown'] ELSE Pred(actbuf[shown])'>>
        /\ base[1] = shown
  <2>1. HAVE base # NoBuffer
  <2>2. base = <<shown, IF Handed THEN actbuf[shown] ELSE Pred(actbuf[shown])>>
    BY <2>1 DEF VideoInv
  <2> QED BY <1>1, <1>2, <1>3, <2>2
<1>5. numbuf(shown) = 1 => base = NoBuffer
  BY DEF VideoInv
<1>6. HandedInv'
  BY <1>1, <1>2, <1>3 DEF VideoInv, HandedInv
<1> QED BY <1>1, <1>2, <1>4, <1>5, <1>6 DEF VideoInv

(* Every step preserves VideoInv. *)
LEMMA NextVideo ==
  ASSUME IInv, CallInv, VideoInv, [Next]_vars
  PROVE  VideoInv'
<1>1. TypeOK /\ StageInv
  BY DEF IInv, CallInv, StageInv
<1>2. CASE \/ UNCHANGED vars \/ Stray \/ SendFirst \/ (Await /\ todo' = todo)
           \/ mdSetupMPRChain \/ \E m \in MPRs : MPR(m) \/ DMADone(m)
  <2>1. UNCHANGED <<screen, actbuf, todo, base, displayed, newField>>
    BY <1>2 DEF vars, Stray, SendFirst, Await, mdSetupMPRChain, MPR, DMADone, ExecSB,
                ExecDraw, ExecConv, ExecWait, ExecSync, ExecBreak, Halt,
                mprUnchanged, programVars, videoVars
  <2>2. (\A d : Doing(d)' <=> Doing(d)) /\ grb' = grb /\ numbuf(0)' = numbuf(0)
    BY <2>1 DEF Doing, grb, numbuf
  <2>3. Handed' <=> Handed
    BY <2>2 DEF Handed
  <2>4. CASE SendFirst \/ Await
    <3>1. ~Handed
      BY <2>4 DEF SendFirst, Await, Doing, Handed
    <3> QED BY <2>1, <2>2, <2>3, <3>1, VideoKept
  <2>5. CASE ~SendFirst /\ ~Await
    <3>1. UNCHANGED <<synced, late>>
      BY <1>2, <2>5 DEF vars, Stray, mdSetupMPRChain, MPR, DMADone, ExecSB,
                        ExecDraw, ExecConv, ExecWait, ExecSync, ExecBreak, Halt,
                        mprUnchanged, programVars
    <3> QED BY <2>1, <2>2, <2>3, <3>1, VideoKept
  <2> QED BY <2>4, <2>5
<1>3. CASE App /\ ~mdSetupMPRChain
  <2>1. PICK s : /\ Call(s)
                 /\ \/ Quietly(s) \/ Drawing(s) \/ Selecting(s)
                    \/ Clearing(s) \/ Converting(s) \/ Swapping(s)
    BY <1>1, <1>3, CallKinds
  <2>2. UNCHANGED <<screen, base, displayed, newField>> /\ todo = <<>>
    BY <2>1 DEF Call, Ready, videoVars
  <2>3. ~Handed /\ ~Doing("vidsync")
    BY <2>2 DEF Handed, Doing
  <2>4. base # NoBuffer => actbuf' = actbuf
    BY <2>1 DEF Quietly, Drawing, Selecting, Clearing, Converting, Swapping
  <2>5. Handed' => base = NoBuffer /\ numbuf(shown) = 1
    <3>1. Handed' => numbuf(shown) = 1
      BY <2>1, CallHanded
    <3> QED BY <3>1 DEF VideoInv
  <2> QED BY <2>2, <2>3, <2>4, <2>5, VideoKept
<1>4. CASE SendLast \/ (Await /\ todo' # todo) \/ VidSync \/ Free
  <2>1. /\ todo # <<>> /\ todo' = Tail(todo)
        /\ UNCHANGED <<screen, actbuf, base, displayed, newField>>
        /\ Head(todo).do \in {"send", "await", "vidsync", "free"}
        /\ Head(todo).do = "vidsync" => newField
    BY <1>4 DEF SendLast, Await, VidSync, Free, Doing, videoVars
  <2>2. Handed' <=> Handed
    BY <1>1, <2>1, NextHead
  <2>3. Doing("vidsync") => newField
    BY <2>1 DEF Doing
  <2>4. Handed' => Handed /\ UNCHANGED <<synced, late>>
    <3>1. CASE SendLast \/ Await
      <4>1. ~Handed
        BY <3>1 DEF SendLast, Await, Doing, Handed
      <4> QED BY <2>2, <4>1
    <3>2. CASE VidSync \/ Free
      BY <2>2, <3>2 DEF VidSync, Free
    <3> QED BY <1>4, <3>1, <3>2
  <2> QED BY <2>1, <2>2, <2>3, <2>4, VideoKept
<1>5. CASE ChangeBase
  BY <1>1, <1>5, ChangeBaseVideo
<1>6. CASE Advance
  BY <1>1, <1>6, AdvanceVideo
<1>7. CASE Field
  BY <1>1, <1>7, FieldVideo
<1> QED BY <1>2, <1>3, <1>4, <1>5, <1>6, <1>7 DEF Next, Within

(* WriteInv and VideoInv hold initially. *)
LEMMA InitWrite == Init => WriteInv /\ VideoInv
<1>1. SUFFICES ASSUME Init PROVE WriteInv /\ VideoInv
  OBVIOUS
<1>2. /\ \A m \in MPRs : queue[m] = <<>> /\ dma[m] = {}
      /\ Len(todo) = 0 /\ todo = <<>>
      /\ base = NoBuffer /\ displayed = NoBuffer /\ newField
  BY <1>1 DEF Init
<1>3. \A m \in MPRs : Waiting(m) = {}
  BY <1>2 DEF Waiting, ToSet
<1>4. ~Handed
  BY <1>2 DEF Handed, Doing
<1> QED BY <1>2, <1>3, <1>4 DEF WriteInv, VideoInv, HandedInv

(* WriteInv and VideoInv are invariants of the specification. *)
LEMMA WriteInvariance == Spec => [](WriteInv /\ VideoInv)
<1>1. IInv /\ IInv' /\ FlowInv /\ CallInv /\ WriteInv /\ VideoInv /\ [Next]_vars
        => WriteInv' /\ VideoInv'
  BY NextWrite, NextVideo
<1> QED BY <1>1, InitWrite, Invariance, FlowInvariance, CallInvariance, PTL DEF Spec

-----------------------------------------------------------------------------
(* A renderer converts lines only when the frame is finished: it holds the    *)
(* buffer that was drawn to, and no renderer has drawing left.                *)
THEOREM ConvertsFinishedFrameCorrect == Spec => []ConvertsFinishedFrame
<1>1. IInv /\ CallInv => ConvertsFinishedFrame
  <2>1. SUFFICES ASSUME IInv, CallInv, NEW m \in MPRs, Executes(m, "conv")
                 PROVE  /\ sb[m] = <<0, 0>>
                        /\ \A e \in MPRs : /\ <<0, 0>> \notin dma[e]
                                            /\ \A c \in Waiting(e) : c.op # "draw"
    BY DEF ConvertsFinishedFrame
  <2>2. TypeOK /\ queue[m] \in Seq(Commands)
    BY <2>1 DEF IInv, TypeOK
  <2>3. PICK c \in Waiting(m) : c.op = "conv"
    <3>1. queue[m] # <<>> /\ Head(queue[m]).op = "conv"
      BY <2>1 DEF Executes
    <3>2. Head(queue[m]) \in ToSet(queue[m])
      BY <2>2, <3>1, Popped
    <3> QED BY <3>1, <3>2 DEF Waiting
  <2>4. PICK other \in Others : GRBStage(other) /\ PartsInv(other) /\ FinishedInv(other)
    BY <2>1, <2>3 DEF CallInv, NoConversion
  <2>5. PICK n \in Nat, r \in Nat : n = Parts(other) /\ r = Len(todo)
    BY <2>2, <2>4, GRBHead
  <2>6. PICK i \in 1 .. n : Sent(other, i)
    BY <2>3, <2>4, <2>5 DEF PartsInv
  <2>7. r <= n + 5
    BY <2>5, <2>6 DEF Sent
  <2>8. \A e \in MPRs : /\ sb[e] = target /\ dma[e] \subseteq {<<1, actbuf[1]>>}
                        /\ \A d \in Waiting(e) : d.op \notin {"sb", "draw"}
    BY <2>4, <2>5, <2>7 DEF FinishedInv
  <2>9. target = <<0, 0>>
    <3>1. numbuf(0) = 1
      BY <2>4 DEF GRBStage, numbuf
    <3>2. actbuf[0] < 1 /\ actbuf[0] \in 0 .. 2
      BY <2>2, <3>1 DEF TypeOK
    <3> QED BY <3>2 DEF target
  <2>10. <<0, 0>> # <<1, actbuf[1]>>
    OBVIOUS
  <2> QED BY <2>8, <2>9, <2>10
<1> QED BY <1>1, Invariance, CallInvariance, PTL

(* When a converted frame is handed to the video encoder, each of its lines   *)
(* has been converted once, for every height, number of renderers and         *)
(* rounding of the parts.                                                     *)
THEOREM FrameConvertedCorrect == Spec => []FrameConverted
<1>1. IInv /\ CallInv => FrameConverted
  <2>1. SUFFICES ASSUME IInv, CallInv, grb, Doing("base"), NEW l \in Lines
                 PROVE  converted[l] = 1
    BY DEF FrameConverted
  <2>2. TypeOK /\ todo # <<>> /\ Head(todo).do = "base"
    BY <2>1 DEF IInv, Doing
  <2>3. PICK other \in Others : GRBStage(other) /\ PartsInv(other)
    <3>1. ~Ordinary
      BY <2>2, OrdinaryHead DEF SwapStep
    <3> QED BY <2>1, <3>1 DEF CallInv, YCCStage
  <2>4. PICK n \in Nat, r \in Nat : n = Parts(other) /\ r = Len(todo) /\ r >= 1
    BY <2>2, <2>3, GRBHead
  <2>5. r = 2
    <3>1. /\ r \in 5 .. n + 4 => Head(todo).do = "send"
          /\ r \in {4, n + 7} => Head(todo).do = "send"
          /\ r \in {3, n + 6} => Head(todo).do = "await"
          /\ r = n + 5 => Head(todo).do = "vidsync"
          /\ r = 1 => Head(todo).do = "advance"
          /\ r \in 5 .. n + 4 \/ r \in {1, 2, 3, 4, n + 5, n + 6, n + 7}
      BY <2>2, <2>3, <2>4, GRBHead
    <3> QED BY <2>2, <3>1
  <2>6. \A m \in MPRs : Waiting(m) = {}
    BY <2>1, SwapEnd
  <2>7. PICK i \in 1 .. n : l \in ConvLines(other, i)
    BY <2>4, LinesParted
  <2>8. Sent(other, i)
    <3>1. r <= n + 4 - i
      BY <2>5
    <3> QED BY <2>4, <3>1 DEF Sent
  <2>9. Part1(other, i) \notin Waiting(Start + i - 1)
    BY <2>2, <2>4, <2>6, ConvSteps
  <2>10. Len(todo) > 1
    BY <2>4, <2>5
  <2> QED BY <2>3, <2>4, <2>7, <2>8, <2>9, <2>10 DEF PartsInv
<1> QED BY <1>1, Invariance, CallInvariance, PTL

(* Between the swaps, no buffer that may be written is shown or will be at    *)
(* the next field.                                                            *)
LEMMA OffScreen ==
  ASSUME TypeOK, VideoInv, ~Handed, NEW b \in Writable
  PROVE  b # displayed /\ b # base
<1>1. /\ actbuf \in [{0, 1} -> 0 .. 2]
      /\ screen \in Modes /\ \A c \in {0, 1} : actbuf[c] < numbuf(c)
  BY DEF TypeOK
<1>2. ~Handed /\ (~grb /\ numbuf(0) = 2 => ~Doing("vidsync"))
  BY DEF Handed
<1>3. CASE base = NoBuffer
  <2>1. displayed = NoBuffer
    BY <1>3 DEF VideoInv
  <2>2. b \in Buffers
    <3>1. <<1, actbuf[1]>> \in Buffers /\ target \in Buffers
      BY BufferFacts
    <3> QED BY <1>3, <3>1 DEF Writable, Drawable
  <2>3. NoBuffer \notin Buffers
    BY ChainAssumption DEF Buffers
  <2> QED BY <1>3, <2>1, <2>2, <2>3
<1>4. CASE base # NoBuffer
  <2>1. /\ base = <<shown, Pred(actbuf[shown])>> /\ numbuf(shown) # 1
        /\ displayed # NoBuffer => displayed[1] = shown
        /\ newField => displayed = base
        /\ ~grb /\ numbuf(0) = 2 => newField
        /\ ~grb /\ numbuf(0) = 3 => displayed \in {NoBuffer, base, <<0, Pred(base[2])>>}
    BY <1>2, <1>4 DEF VideoInv
  <2>2. b = target \/ (newField /\ b = <<1, actbuf[1]>>)
    BY <1>4 DEF Writable, Drawable
  <2>3. b \in Buffers /\ NoBuffer \notin Buffers
    BY <1>1, <2>2, ChainAssumption, BufferFacts DEF Buffers
  <2>4. shown \in {0, 1} /\ (shown = 0 <=> ~grb)
    BY DEF shown
  <2>5. numbuf(0) \in 1 .. 3 /\ numbuf(1) \in 1 .. 3
    BY <1>1, BufferFacts
  <2>6. actbuf[shown] \in 0 .. 2 /\ actbuf[shown] < numbuf(shown) /\ numbuf(shown) \in {2, 3}
    BY <1>1, <2>1, <2>4, <2>5
  <2>7. \A x : Pred(x) = IF x = 0 THEN numbuf(shown) - 1 ELSE x - 1
    BY DEF Pred
  <2> HIDE DEF numbuf, shown, Pred, grb
  <2>8. Pred(actbuf[shown]) # actbuf[shown]
    BY <2>6, <2>7
  <2>9. CASE grb
    <3>1. shown = 1 /\ base = <<1, Pred(actbuf[1])>> /\ Pred(actbuf[1]) # actbuf[1]
      BY <2>1, <2>4, <2>8, <2>9
    <3>2. CASE b = target
      <4>1. b[1] = 0
        BY <3>2 DEF target
      <4> QED BY <2>1, <2>3, <3>1, <4>1
    <3>3. CASE newField /\ b = <<1, actbuf[1]>>
      BY <2>1, <3>1, <3>3
    <3> QED BY <2>2, <3>2, <3>3
  <2>10. CASE ~grb
    <3>1. shown = 0 /\ base = <<0, Pred(actbuf[0])>> /\ Pred(actbuf[0]) # actbuf[0]
      BY <2>1, <2>4, <2>8, <2>10
    <3>2. displayed \in {NoBuffer, base, <<0, Pred(Pred(actbuf[0]))>>}
          /\ (numbuf(0) = 2 => displayed = base)
      BY <2>1, <2>6, <2>10, <3>1
    <3>3. numbuf(0) = 3 => Pred(Pred(actbuf[0])) # actbuf[0]
      BY <2>6, <2>7, <3>1
    <3>4. (b # base /\ b # <<0, Pred(Pred(actbuf[0]))>>) \/ numbuf(0) # 3
      BY <2>2, <3>1, <3>3 DEF target
    <3>5. b # base
      BY <2>2, <3>1 DEF target
    <3>6. numbuf(0) \in {2, 3}
      BY <2>6, <3>1
    <3> QED BY <2>3, <3>2, <3>4, <3>5, <3>6
  <2> QED BY <2>9, <2>10
<1> QED BY <1>3, <1>4

(* What the program sends is never meant for the buffer that is shown or will *)
(* be at the next field; and no renderer writes there, or is going to, except *)
(* into a frame that the program handed over before the renderers answered.   *)
THEOREM NoTearingCorrect == Spec => []NoTearing
<1>1. IInv /\ CallInv /\ WriteInv /\ VideoInv => NoTearing
  <2>1. SUFFICES ASSUME IInv, CallInv, WriteInv, VideoInv
                 PROVE  NoTearing
    OBVIOUS
  <2>2. TypeOK
    BY <2>1 DEF IInv
  <2>3. Doing("send") => {displayed, base} \cap Writes(Head(todo).cmd) = {}
    <3>1. HAVE Doing("send")
    <3>2. todo # <<>> /\ Head(todo).do = "send" /\ ~Handed
      BY <3>1 DEF Doing, Handed
    <3>3. Writes(Head(todo).cmd) \subseteq Writable
      BY <2>1, <3>2, HeadWrites
    <3>4. \A b \in Writable : b # displayed /\ b # base
      BY <2>1, <2>2, <3>2, OffScreen
    <3> HIDE DEF Writable
    <3> QED BY <3>3, <3>4
  <2>4. ASSUME NEW m \in MPRs, NEW b \in dma[m] \cup UNION {Writes(c) : c \in Waiting(m)},
               b \in {displayed, base}
        PROVE  b \in late
    <3>1. b \in Writable \cup late
      BY <2>1, <2>4 DEF WriteInv
    <3>2. ~synced
      <4>1. dma[m] # {} \/ Waiting(m) # {}
        BY <2>4
      <4>2. queue[m] = <<>> => Waiting(m) = {}
        BY DEF Waiting, ToSet
      <4> QED BY <2>1, <4>1, <4>2 DEF IInv, SyncMeansDone
    <3>3. CASE ~Handed
      BY <2>1, <2>2, <2>4, <3>1, <3>3, OffScreen
    <3>4. CASE Handed /\ base = NoBuffer
      <4>1. displayed = NoBuffer /\ NoBuffer \notin Buffers
        BY <2>1, <3>4, ChainAssumption DEF VideoInv, Buffers
      <4>2. Writable \subseteq Buffers
        BY <2>2, BufferFacts DEF Writable, Drawable, TypeOK, Buffers
      <4>3. late \subseteq Buffers
        BY <2>2 DEF TypeOK
      <4> QED BY <2>4, <3>1, <3>4, <4>1, <4>2, <4>3
    <3>5. CASE Handed /\ base # NoBuffer
      <4>1. base \in late /\ base = <<shown, actbuf[shown]>>
        BY <2>1, <3>2, <3>5 DEF VideoInv, HandedInv
      <4>2. Writable \subseteq {target, <<1, actbuf[1]>>} /\ (~grb => Writable = {target})
        BY <3>5 DEF Writable, Drawable
      <4>3. CASE ~grb
        <5>1. base = target
          BY <4>1, <4>3 DEF shown, target
        <5> QED BY <3>1, <4>1, <4>2, <4>3, <5>1
      <4>4. CASE grb
        <5>1. shown = 1 /\ base = <<1, actbuf[1]>>
          BY <4>1, <4>4 DEF shown
        <5>2. displayed # NoBuffer => displayed[1] = 1
          BY <2>1, <5>1 DEF VideoInv
        <5>3. target \in Buffers /\ NoBuffer \notin Buffers /\ target[1] = 0
          BY <2>2, BufferFacts, ChainAssumption DEF target, Buffers
        <5>4. target # base /\ target # displayed
          BY <5>1, <5>2, <5>3
        <5> QED BY <2>4, <3>1, <4>1, <4>2, <5>1, <5>4
      <4> QED BY <4>3, <4>4
    <3> QED BY <3>3, <3>4, <3>5
  <2> QED BY <2>3, <2>4 DEF NoTearing
<1> QED BY <1>1, Invariance, CallInvariance, WriteInvariance, PTL

(* A frame that has been handed to the video encoder is displayed before the  *)
(* next one is.                                                               *)
THEOREM EveryFrameShownCorrect == Spec => EveryFrameShown
<1>1. IInv /\ CallInv /\ VideoInv /\ [Next]_vars
        => [base' # base => displayed = base]_vars
  <2>1. SUFFICES ASSUME IInv, CallInv, VideoInv, [Next]_vars, base' # base
                 PROVE  displayed = base
    OBVIOUS
  <2>2. ChangeBase
    <3>1. \A s : Call(s) => base' = base
      BY DEF Call, videoVars
    <3>2. App => base' = base
      BY <2>1, <3>1, CallKinds DEF mdSetupMPRChain, videoVars, IInv
    <3>3. (\E m \in MPRs : MPR(m) \/ DMADone(m)) => base' = base
      BY DEF MPR, DMADone, ExecSB, ExecDraw, ExecConv, ExecWait, ExecSync, ExecBreak,
             Halt, mprUnchanged, videoVars
    <3>4. UNCHANGED vars \/ Field \/ Stray => base' = base
      BY DEF vars, Field, Stray, videoVars
    <3>5. Within /\ ~ChangeBase => base' = base
      BY DEF Within, SendFirst, SendLast, Await, VidSync, Advance, Free, videoVars
    <3> QED BY <2>1, <3>2, <3>3, <3>4, <3>5 DEF Next
  <2>3. newField
    BY <2>1, <2>2, ChangeBaseVideo DEF IInv, CallInv, StageInv
  <2> QED BY <2>1, <2>3 DEF VideoInv
<1> QED BY <1>1, Invariance, CallInvariance, WriteInvariance, PTL DEF Spec, EveryFrameShown

-----------------------------------------------------------------------------
(* The refinement of FrameQueue.  The buffers that renderer m writes to or    *)
(* has been told to.                                                          *)
Due(m) == dma[m] \cup UNION {Writes(c) : c \in Waiting(m)}

Outstanding == UNION {Due(m) : m \in MPRs}

(* What renderers and buses do adds nothing to what is outstanding: a command *)
(* that is executed wrote its buffer into the ring before.                    *)
LEMMA RendererOutstanding ==
  ASSUME IInv, DrawnWhereMeant, NEW m \in MPRs, MPR(m) \/ DMADone(m)
  PROVE  Outstanding' \subseteq Outstanding
<1>1. /\ queue[m] \in Seq(Commands)
      /\ dma \in [MPRs -> SUBSET (Buffers \cup {NoBuffer})]
  BY DEF IInv, TypeOK
<1>2. SUFFICES ASSUME NEW n \in MPRs, NEW b \in Due(n)' PROVE b \in Outstanding
  BY DEF Outstanding
<1>3. CASE b \in dma'[n]
  <2>1. ASSUME queue[m] # <<>>, b \in Writes(Head(queue[m])) PROVE b \in Outstanding
    <3>1. Head(queue[m]) \in Waiting(m)
      BY <1>1, <2>1, Popped DEF Waiting
    <3> QED BY <2>1, <3>1 DEF Outstanding, Due
  <2>2. b \in dma[n] => b \in Outstanding
    BY DEF Outstanding, Due
  <2>3. CASE ExecDraw(m)
    <3>1. /\ queue[m] # <<>> /\ Head(queue[m]).op = "draw" /\ Executes(m, "draw")
          /\ dma' = [dma EXCEPT ![m] = @ \cup {sb[m]}]
      BY <2>3 DEF ExecDraw, Executes
    <3>2. Writes(Head(queue[m])) = {sb[m]}
      BY <3>1 DEF DrawnWhereMeant, Writes
    <3> QED BY <1>1, <1>3, <2>1, <2>2, <3>1, <3>2
  <2>4. CASE ExecConv(m)
    <3>1. /\ queue[m] # <<>> /\ Head(queue[m]).op = "conv"
          /\ dma' = [dma EXCEPT ![m] = @ \cup {Head(queue[m]).buf}]
      BY <2>4 DEF ExecConv, Executes
    <3>2. Writes(Head(queue[m])) = {Head(queue[m]).buf}
      BY <3>1 DEF Writes
    <3> QED BY <1>1, <1>3, <2>1, <2>2, <3>1, <3>2
  <2>5. CASE DMADone(m)
    BY <1>1, <1>3, <2>2, <2>5 DEF DMADone
  <2>6. CASE ~ExecDraw(m) /\ ~ExecConv(m) /\ ~DMADone(m)
    <3>1. dma' = dma
      BY <2>6 DEF MPR, ExecSB, ExecWait, ExecSync, ExecBreak, Halt
    <3> QED BY <1>3, <2>2, <3>1
  <2> QED BY <2>3, <2>4, <2>5, <2>6
<1>4. ASSUME NEW c \in Waiting(n)', b \in Writes(c) PROVE b \in Outstanding
  <2>1. c \in Waiting(n) \/ c.op \in {"wait", "sync", "break"}
    BY <1>4, RendererQueues
  <2>2. c \in Waiting(n)
    BY <1>4, <2>1 DEF Writes
  <2> QED BY <1>4, <2>2 DEF Outstanding, Due
<1> QED BY <1>2, <1>3, <1>4 DEF Due

(* A command that is sent adds the buffer it writes to, if it writes. *)
LEMMA SendOutstanding ==
  ASSUME IInv, SendLast
  PROVE  /\ Outstanding \subseteq Outstanding'
         /\ Outstanding' \subseteq Outstanding \cup Writes(Head(todo).cmd)
<1>1. PICK k \in MPRs, c \in Commands : k = Head(todo).to /\ c = Head(todo).cmd
  BY SentQueues
<1>2. dma' = dma
  BY DEF SendLast
<1>3. ASSUME NEW n \in MPRs
      PROVE  Waiting(n) \subseteq Waiting(n)' /\ Waiting(n)' \subseteq Waiting(n) \cup {c}
  <2>1. CASE n = k
    <3>1. ToSet(queue'[k]) = Waiting(k) \cup {c}
      BY <1>1, SentQueues
    <3> QED BY <2>1, <3>1 DEF Waiting
  <2>2. CASE n # k
    BY <1>1, <2>2, SentQueues
  <2> QED BY <2>1, <2>2
<1>4. ASSUME NEW n \in MPRs
      PROVE  Due(n) \subseteq Due(n)' /\ Due(n)' \subseteq Due(n) \cup Writes(c)
  BY <1>2, <1>3 DEF Due
<1> QED BY <1>1, <1>4 DEF Outstanding

(* The chain starts with what was left in the rings thrown away. *)
LEMMA SetupOutstanding ==
  ASSUME mdSetupMPRChain
  PROVE  Outstanding' \subseteq Outstanding
<1>1. dma' = dma
  BY DEF mdSetupMPRChain
<1>2. ASSUME NEW n \in MPRs PROVE Due(n)' \subseteq Due(n)
  <2>1. CASE Up'
    <3>1. queue'[n] = <<>>
      BY <2>1 DEF mdSetupMPRChain
    <3>2. Waiting(n)' = {}
      BY <3>1 DEF Waiting, ToSet
    <3> QED BY <1>1, <3>2 DEF Due
  <2>2. CASE ~Up'
    <3>1. queue' = queue
      BY <2>2 DEF mdSetupMPRChain
    <3> QED BY <1>1, <3>1 DEF Due, Waiting
  <2> QED BY <2>1, <2>2
<1> QED BY <1>2 DEF Outstanding

(* The initial state is that of a frame queue. *)
LEMMA FramesInit == Init => Frames!Init
<1>1. SUFFICES ASSUME Init
               PROVE  Outstanding = {} /\ base = NoBuffer /\ displayed = NoBuffer /\ late = {}
  BY DEF Frames!Init, Outstanding, Due
<1>2. \A m \in MPRs : dma[m] = {} /\ Waiting(m) = {}
  BY <1>1 DEF Init, Waiting, ToSet
<1>3. \A m \in MPRs : Due(m) = {}
  BY <1>2 DEF Due
<1> QED BY <1>1, <1>3 DEF Init, Outstanding

(* Every step is one of the frame queue or none. *)
LEMMA FramesStep ==
  ASSUME IInv, IInv', CallInv, VideoInv, DrawnWhereMeant, NoTearing, [Next]_vars
  PROVE  [Frames!Next]_Frames!vars
<1> USE DEF Frames!vars, Frames!Next
<1>1. synced => Outstanding = {}
  <2>1. synced => \A m \in MPRs : dma[m] = {} /\ Waiting(m) = {}
    BY DEF IInv, SyncMeansDone, Waiting, ToSet
  <2> QED BY <2>1 DEF Outstanding, Due
<1>2. synced' => Outstanding' = {}
  <2>1. synced' => \A m \in MPRs : dma'[m] = {} /\ Waiting(m)' = {}
    BY DEF IInv, SyncMeansDone, Waiting, ToSet
  <2> QED BY <2>1 DEF Outstanding, Due
<1>3. CASE UNCHANGED <<base, displayed, late>> /\ Outstanding' \subseteq Outstanding
  <2>1. Frames!Finish
    BY <1>3 DEF Frames!Finish, Outstanding, Due
  <2> QED BY <2>1
<1>4. CASE UNCHANGED <<base, displayed, queue, dma, late>>
  <2>1. Outstanding' = Outstanding
    BY <1>4 DEF Outstanding, Due, Waiting
  <2> QED BY <1>3, <1>4, <2>1
<1>5. CASE SendLast
  <2>1. /\ UNCHANGED <<base, displayed, late>> /\ Outstanding \subseteq Outstanding'
        /\ Outstanding' \subseteq Outstanding \cup Writes(Head(todo).cmd)
    BY <1>5, SendOutstanding DEF SendLast, videoVars
  <2>2. {base, displayed} \cap Writes(Head(todo).cmd) = {}
    BY <1>5 DEF NoTearing, SendLast
  <2>3. {base, displayed} \cap (Outstanding' \ Outstanding) = {}
    BY <2>1, <2>2
  <2>4. Frames!Draw
    BY <2>1, <2>3 DEF Frames!Draw, Outstanding, Due
  <2> QED BY <2>4
<1>6. CASE ChangeBase
  <2>1. /\ base' = <<shown, actbuf[shown]>>
        /\ late' = IF synced THEN late ELSE late \cup {base'}
        /\ UNCHANGED <<displayed, queue, dma>>
    BY <1>6 DEF ChangeBase, mprVars
  <2>2. Outstanding' = Outstanding
    BY <2>1 DEF Outstanding, Due, Waiting
  <2>3. base' # NoBuffer
    <3>1. shown \in {0, 1} /\ actbuf[shown] \in 0 .. 2
      BY DEF IInv, TypeOK, shown
    <3> QED BY <2>1, <3>1, ChainAssumption
  <2>4. displayed = base
    BY <1>6, ChangeBaseVideo DEF IInv, CallInv, StageInv, VideoInv
  <2>5. CASE synced
    <3>1. Frames!HandOver
      BY <1>1, <2>1, <2>2, <2>3, <2>4, <2>5 DEF Frames!HandOver, Outstanding, Due
    <3> QED BY <3>1
  <2>6. CASE ~synced
    <3>1. Frames!HandOverEarly
      BY <2>1, <2>2, <2>3, <2>4, <2>6 DEF Frames!HandOverEarly, Outstanding, Due
    <3> QED BY <3>1
  <2> QED BY <2>5, <2>6
<1>7. CASE Field
  <2>1. displayed' = base /\ UNCHANGED <<base, queue, dma, late>>
    BY <1>7 DEF Field, mprVars
  <2>2. Outstanding' = Outstanding
    BY <2>1 DEF Outstanding, Due, Waiting
  <2>3. Frames!Field
    BY <2>1, <2>2 DEF Frames!Field, Outstanding, Due
  <2> QED BY <2>3
<1>8. CASE App
  <2>1. CASE mdSetupMPRChain
    <3>1. UNCHANGED <<base, displayed, late>>
      BY <2>1 DEF mdSetupMPRChain, videoVars
    <3> QED BY <1>3, <2>1, <3>1, SetupOutstanding
  <2>2. CASE \E s : Call(s)
    <3>1. UNCHANGED <<base, displayed, queue, dma, late>>
      BY <2>2 DEF Call, videoVars, mprVars
    <3> QED BY <1>4, <3>1
  <2> QED BY <1>8, <2>1, <2>2, CallKinds DEF IInv
<1>9. CASE \E m \in MPRs : MPR(m) \/ DMADone(m)
  <2>1. UNCHANGED <<base, displayed, late>>
    BY <1>9 DEF MPR, DMADone, ExecSB, ExecDraw, ExecConv, ExecWait, ExecSync,
       ExecBreak, Halt, mprUnchanged, videoVars
  <2> QED BY <1>3, <1>9, <2>1, RendererOutstanding
<1>10. CASE SendFirst \/ VidSync \/ Advance \/ Free \/ Stray \/ UNCHANGED vars
  <2>1. UNCHANGED <<base, displayed, queue, dma, late>>
    BY <1>10 DEF SendFirst, VidSync, Advance, Free, Stray, vars, videoVars, mprVars
  <2> QED BY <1>4, <2>1
<1>11. CASE Await
  <2>1. UNCHANGED <<base, displayed, queue, dma>>
    BY <1>11 DEF Await, videoVars, mprVars
  <2>2. Outstanding' = Outstanding
    BY <2>1 DEF Outstanding, Due, Waiting
  <2>3. late' = late \/ (late' = {} /\ synced')
    BY <1>11 DEF Await
  <2>4. CASE late' = {} /\ synced'
    <3>1. Frames!AllDone
      BY <1>2, <2>1, <2>2, <2>4 DEF Frames!AllDone, Outstanding, Due
    <3> QED BY <3>1
  <2> QED BY <1>4, <2>1, <2>3, <2>4
<1> QED BY <1>5, <1>6, <1>7, <1>8, <1>9, <1>10, <1>11 DEF Next, Within

(* The screen buffers of M3DL are a frame queue, whatever the drawing mode,   *)
(* the number of renderers and the sizes of their rings: frames that were     *)
(* followed by mdDrawSync are handed over finished, others are marked, and    *)
(* nobody begins to draw into a buffer that is shown or comes next.           *)
THEOREM ChainImplementsFrames == Spec => ImplementsFrames
<1>1. IInv /\ IInv' /\ CallInv /\ VideoInv /\ DrawnWhereMeant /\ NoTearing /\ [Next]_vars
        => [Frames!Next]_Frames!vars
  BY FramesStep
<1>2. Spec => Frames!Spec
  BY <1>1, FramesInit, Invariance, CallInvariance, WriteInvariance, DrawnWhereMeantCorrect,
     NoTearingCorrect, PTL DEF Spec, Frames!Spec
<1> QED BY <1>2 DEF ImplementsFrames
=============================================================================
