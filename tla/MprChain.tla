------------------------------ MODULE MprChain ------------------------------
(***************************************************************************)
(* M3DL: one program, a chain of renderers (MPRs) on consecutive MPEs, and *)
(* the video encoder.  Drawing calls send commands to one renderer after   *)
(* the other and return; settings go to all of them; mdDrawSync sends a    *)
(* token that each renderer passes on when its own DMA is done, and that   *)
(* the last one answers.  A frame is drawn, possibly converted from GRB to *)
(* YCC by all renderers, and handed to the video encoder.                  *)
(*                                                                         *)
(* Sources: setup.c, scrmode.c, drawprim.s, setscbuf.s, drawsync.s,        *)
(* scrconv.s, removmpr.s for the program's side, mprscrbf.s, mprtile.s     *)
(* (and the other drawing overlays), mprscrcv.s, mprsncdr.s, mprbrkdr.s    *)
(* for the renderers'.  MprRing shows that a renderer takes whole commands *)
(* in order, as the queues do here, if nobody sends in between the packets *)
(* of another.  Bad* are slips that break a property.                      *)
(***************************************************************************)
EXTENDS Integers, Sequences, SequencesExt

CONSTANTS
  Start,     (* startmpe: the first renderer's MPE                           *)
  NumMPRs,   (* nummpes                                                      *)
  Height,    (* rendh: lines to convert                                      *)
  QueueLen,  (* bound: commands that wait in a renderer's ring               *)
  MaxStrays, (* bound: packets that others send to the program               *)
  MaxEarly,  (* bound: buffers handed over unsynced between two answers      *)
  Modes,     (* drawing modes and numbers of buffers: <<"YCC", 2>>, ...      *)
  NoBuffer   (* no buffer is shown                                           *)

ASSUME ChainAssumption ==
  /\ Start \in Nat
  /\ NumMPRs \in Nat \ {0}
  /\ Height \in Nat
  /\ QueueLen \in Nat \ {0}
  /\ MaxStrays \in Nat
  /\ MaxEarly \in Nat
  /\ Modes \subseteq {"YCC"} \X (1 .. 3) \cup {<<"GRB", 2>>}
  /\ NoBuffer \notin {0, 1} \X (0 .. 2)

VARIABLES
  screen,    \* mode and number of the buffers shown: the drawing context
  taken,     \* MPEs that other programs hold
  allocated, \* MPEs that M3DL holds
  active,    \* MPR_mpeinfo: the renderer that got the last primitive
  actbuf,    \* dcx[0].actbuf and dcx[1].actbuf
  selected,  \* the program has called mdActiveDrawContext for this frame
  synced,    \* nothing has been sent since the last mdDrawSync
  todo,      \* what is left of the call the program is in
  sending,   \* it has sent the first packet of a longer command
  inbox,     \* the packet the program would receive next
  strays,    \* packets that others have sent
  queue,     \* commands in the ring of each renderer
  status,    \* of each renderer: "off", "run", "halting"
  sb,        \* MPR_sbSDRAM: the screen buffer of each renderer
  dma,       \* buffers each renderer has writes outstanding to
  converted, \* how often this frame's lines have been converted
  base,      \* the buffer of the last _VidChangeBase
  displayed, \* the buffer that the video encoder shows
  newField,  \* a field has begun since _VidChangeBase
  late       \* history: buffers handed to the encoder unsynced, since the last
             \* answer of the renderers

programVars == <<allocated, active, actbuf, selected, synced, todo, sending>>
mprVars == <<queue, status, sb, dma, converted>>
videoVars == <<base, displayed, newField>>
vars == <<screen, taken, programVars, inbox, strays, mprVars, videoVars, late>>

EndMPR == Start + NumMPRs - 1
MPRs == Start .. EndMPR
Lines == 0 .. Height - 1

(* Buffer i of context 0, that is drawn to, or of context 1, displayed.       *)
Buffers == {0, 1} \X (0 .. 2)

grb == screen[1] = "GRB"
numbuf(c) == IF grb /\ c = 0 THEN 1 ELSE screen[2]

(* The context that is shown, and the buffer that is drawn to. *)
shown == IF grb THEN 1 ELSE 0
target == <<0, actbuf[0]>>

(* Commands.  A draw carries the buffer that the program means it for.        *)
SB(b) == [op |-> "sb", buf |-> b]
Draw(b) == [op |-> "draw", buf |-> b]
Conv(b, lines) == [op |-> "conv", buf |-> b, lines |-> lines]
SD == [op |-> "sync"]
BD == [op |-> "break"]
WaitMDMA == [op |-> "wait"]

Writes(c) == IF c.op \in {"draw", "conv"} THEN {c.buf} ELSE {}

(* What the program has still to do in a call. *)
Send(m, c, isLong) == [do |-> "send", to |-> m, cmd |-> c, isLong |-> isLong]
Step(s) == [do |-> s]

(* The last renderer is left out. *)
BadSendSB(b) == [i \in 1 .. NumMPRs - 1 |-> Send(Start + i - 1, SB(b), FALSE)]

SendSB(b) == [i \in 1 .. NumMPRs |-> Send(Start + i - 1, SB(b), FALSE)]

(* Nobody waits for the answer. *)
BadSendAndWait(c) == <<Send(Start, c, FALSE)>>

SendAndWait(c) == <<Send(Start, c, FALSE), Step("await")>>

(* The renderer that gets the i-th primitive from now on. *)
Nth(i) == Start + ((active - Start + i) % NumMPRs)

Init ==
  /\ screen \in Modes
  /\ taken \in SUBSET MPRs
  /\ allocated = {}
  /\ active = Start
  /\ actbuf = [c \in {0, 1} |-> 0]
  /\ selected = FALSE /\ synced = FALSE
  /\ todo = <<>> /\ sending = FALSE
  /\ inbox = "none" /\ strays = 0
  /\ queue = [m \in MPRs |-> <<>>]
  /\ status = [m \in MPRs |-> "off"]
  /\ sb = [m \in MPRs |-> NoBuffer]
  /\ dma = [m \in MPRs |-> {}]
  /\ converted = [l \in Lines |-> 0]
  /\ base = NoBuffer /\ displayed = NoBuffer /\ newField = TRUE
  /\ late = {}

-----------------------------------------------------------------------------
(* The calls.  Each begins when the one before has returned; what it sends    *)
(* and waits for becomes todo.                                                *)
Ready == todo = <<>>
Up == allocated = MPRs

Call(steps) ==
  /\ Ready /\ Up
  /\ todo' = steps
  /\ UNCHANGED <<screen, taken, allocated, synced, sending, inbox, strays,
                 mprVars, videoVars, late>>

(* The MPEs are allocated in order, and kept when one cannot be had. *)
mdSetupMPRChain ==
  /\ Ready /\ ~Up
  /\ LET blocked == taken \cup allocated
     IN  allocated' = {m \in MPRs : \A n \in blocked : m < n} \cup allocated
  /\ IF Up'
     THEN /\ active' = Start
          /\ status' = [m \in MPRs |-> "run"]
          /\ queue' = [m \in MPRs |-> <<>>]
          /\ selected' = FALSE
     ELSE UNCHANGED <<active, status, queue, selected>>
  /\ UNCHANGED <<screen, taken, actbuf, synced, todo, sending, inbox, strays,
                 sb, dma, converted, videoVars, late>>

(* The MPEs are freed before the renderers have stopped. *)
BadRemove ==
  /\ Call(<<Step("free")>> \o SendAndWait(BD))
  /\ UNCHANGED <<active, actbuf, selected>>

mdRemoveMPRChain ==
  /\ Call(SendAndWait(BD) \o <<Step("free")>>)
  /\ UNCHANGED <<active, actbuf, selected>>

mdDrawSync ==
  /\ Call(SendAndWait(SD))
  /\ UNCHANGED <<active, actbuf, selected>>

mdActiveDrawContext ==
  /\ Call(SendSB(target))
  /\ selected' = TRUE
  /\ UNCHANGED <<active, actbuf>>

(* mdDrawTile, mdDrawSprite, mdDrawPoly: one renderer after the other. *)
mdDrawPrim ==
  /\ selected
  /\ Call(<<Send(Nth(1), Draw(target), TRUE)>>)
  /\ active' = Nth(1)
  /\ UNCHANGED <<actbuf, selected>>

(* Every renderer gets its part of an image; the last is the one that was     *)
(* active.                                                                    *)
mdDrawImage ==
  /\ selected
  /\ Call([i \in 1 .. NumMPRs |-> Send(Nth(i), Draw(target), TRUE)])
  /\ UNCHANGED <<active, actbuf, selected>>

(* mdClearDraw (c = 0) and mdClearDisp (c = 1): every buffer of a context is  *)
(* selected in turn and cleared by one renderer.  The renderers keep the last *)
(* of them, while actbuf is 0 again.  The header says not to do it every      *)
(* frame; programs do it before they show anything.                           *)
ClearBuffer(c, i) ==
  Append(SendSB(<<c, i>>), Send(Nth(i + 1), Draw(<<c, i>>), TRUE))

ClearBuffers(c) ==
  CASE numbuf(c) = 1 -> ClearBuffer(c, 0)
    [] numbuf(c) = 2 -> ClearBuffer(c, 0) \o ClearBuffer(c, 1)
    [] numbuf(c) = 3 -> ClearBuffer(c, 0) \o ClearBuffer(c, 1) \o ClearBuffer(c, 2)

Clear(c) ==
  /\ base = NoBuffer
  /\ Call(ClearBuffers(c) \o SendAndWait(SD))
  /\ active' = Nth(numbuf(c))
  /\ actbuf' = [actbuf EXCEPT ![c] = 0]
  /\ selected' = FALSE

mdClearDraw == Clear(0)
mdClearDisp ==
  \/ grb /\ Clear(1)
  \/ ~grb /\ Call(SendAndWait(SD)) /\ UNCHANGED <<active, actbuf, selected>>

(* The remainder of the lines is forgotten. *)
BadFirstHeight(other) == other

(* The first renderer converts what the others leave. *)
FirstHeight(other) == Height - (NumMPRs - 1) * other

(* mdDrawConv: the lines of the frame are split among the renderers.  Each    *)
(* reads the screen buffer it has.                                            *)
ConvLines(other, i) ==
  LET first == FirstHeight(other)
  IN  IF i = 1 THEN 0 .. first - 1
      ELSE first + (i - 2) * other .. first + (i - 1) * other - 1

SendConv(other) ==
  LET n == IF Height = 0 THEN 0 ELSE IF other = 0 THEN 1 ELSE NumMPRs
  IN  [i \in 1 .. n |->
         Send(Start + i - 1, Conv(<<1, actbuf[1]>>, ConvLines(other, i)), TRUE)]

(* The height of the other parts is a product with a reciprocal of low        *)
(* precision, never above the quotient.                                       *)
Others == {Height \div NumMPRs, (Height \div NumMPRs) - 1} \cap Nat

(* The conversion does not wait for the drawing. *)
BadSwapDrawBufGRB ==
  /\ grb /\ selected
  /\ \E other \in Others :
       Call(<<Step("vidsync")>> \o SendConv(other)
            \o SendAndWait(SD) \o <<Step("base"), Step("advance")>>)
  /\ UNCHANGED <<active, actbuf, selected>>

SwapDrawBufGRB ==
  /\ grb /\ selected
  /\ \E other \in Others :
       Call(SendAndWait(SD) \o <<Step("vidsync")>> \o SendConv(other)
            \o SendAndWait(SD) \o <<Step("base"), Step("advance")>>)
  /\ UNCHANGED <<active, actbuf, selected>>

(* Two buffers are changed in the order that is right for three. *)
BadYCCSteps ==
  CASE numbuf(0) = 1 -> <<>>
    [] OTHER         -> <<Step("vidsync"), Step("base")>>

(* With three buffers nobody waits for a field. *)
BadYCCStepsEarly ==
  CASE numbuf(0) = 1 -> <<>>
    [] numbuf(0) = 2 -> <<Step("base"), Step("vidsync")>>
    [] numbuf(0) = 3 -> <<Step("base")>>

YCCSteps ==
  CASE numbuf(0) = 1 -> <<>>
    [] numbuf(0) = 2 -> <<Step("base"), Step("vidsync")>>
    [] numbuf(0) = 3 -> <<Step("vidsync"), Step("base")>>

(* The swap does not wait for the renderers: other programs call mdDrawSync   *)
(* before it; Background/bground.c:200 draws once more after its mdDrawSync.  *)
SwapDrawBufYCC ==
  /\ ~grb
  /\ ~synced => Cardinality(late) < MaxEarly
  /\ Call(Append(YCCSteps, Step("advance")))
  /\ selected' = FALSE
  /\ UNCHANGED <<active, actbuf>>

-----------------------------------------------------------------------------
(* The steps within a call. *)
Doing(s) == todo # <<>> /\ Head(todo).do = s

(* The first packet of a longer command... *)
SendFirst ==
  /\ Doing("send") /\ Head(todo).isLong /\ ~sending
  /\ sending' = TRUE
  /\ synced' = FALSE
  /\ UNCHANGED <<screen, taken, allocated, active, actbuf, selected, todo,
                 inbox, strays, mprVars, videoVars, late>>

(* ... and the last, or only one: the command is in the ring.                 *)
SendLast ==
  /\ Doing("send") /\ Head(todo).isLong = sending
  /\ LET s == Head(todo)
     IN  /\ Len(queue[s.to]) < QueueLen
         /\ queue' = [queue EXCEPT ![s.to] = Append(@, s.cmd)]
  /\ sending' = FALSE
  /\ synced' = FALSE
  /\ todo' = Tail(todo)
  /\ UNCHANGED <<screen, taken, allocated, active, actbuf, selected, inbox,
                 strays, status, sb, dma, converted, videoVars, late>>

(* Any packet will do. *)
BadAwait ==
  /\ Doing("await") /\ inbox # "none"
  /\ inbox' = "none"
  /\ todo' = Tail(todo)
  /\ synced' = TRUE /\ late' = {}
  /\ UNCHANGED <<screen, taken, allocated, active, actbuf, selected, sending,
                 strays, mprVars, videoVars>>

(* A packet is received; only SYNC from the last renderer ends the wait, any  *)
(* other is lost.                                                             *)
Await ==
  /\ Doing("await") /\ inbox # "none"
  /\ inbox' = "none"
  /\ IF inbox = "SYNC"
     THEN todo' = Tail(todo) /\ synced' = TRUE /\ late' = {}
     ELSE UNCHANGED <<todo, synced, late>>
  /\ UNCHANGED <<screen, taken, allocated, active, actbuf, selected, sending,
                 strays, mprVars, videoVars>>

(* _VidSync(0). *)
VidSync ==
  /\ Doing("vidsync") /\ newField
  /\ todo' = Tail(todo)
  /\ UNCHANGED <<screen, taken, allocated, active, actbuf, selected, synced,
                 sending, inbox, strays, mprVars, videoVars, late>>

(* _VidChangeBase. *)
ChangeBase ==
  /\ Doing("base")
  /\ base' = <<shown, actbuf[shown]>>
  /\ newField' = FALSE
  /\ late' = IF synced THEN late ELSE late \cup {<<shown, actbuf[shown]>>}
  /\ todo' = Tail(todo)
  /\ UNCHANGED <<screen, taken, allocated, active, actbuf, selected, synced,
                 sending, inbox, strays, mprVars, displayed>>

(* The end of a swap: the next buffer of the context that is shown. *)
Advance ==
  /\ Doing("advance")
  /\ actbuf' = [actbuf EXCEPT ![shown] = IF @ + 1 = numbuf(shown) THEN 0 ELSE @ + 1]
  /\ converted' = [l \in Lines |-> 0]
  /\ todo' = Tail(todo)
  /\ UNCHANGED <<screen, taken, allocated, active, selected, synced, sending,
                 inbox, strays, queue, status, sb, dma, videoVars, late>>

(* mdRemoveMPRChain gives the MPEs back. *)
Free ==
  /\ Doing("free")
  /\ allocated' = {}
  /\ todo' = Tail(todo)
  /\ UNCHANGED <<screen, taken, active, actbuf, selected, synced, sending,
                 inbox, strays, mprVars, videoVars, late>>

-----------------------------------------------------------------------------
(* The renderers execute the first command of their rings. *)
Executes(m, op) ==
  /\ status[m] = "run"
  /\ queue[m] # <<>> /\ Head(queue[m]).op = op

mprUnchanged == UNCHANGED <<screen, taken, programVars, strays, videoVars, late>>

(* MPR_SCRBF. *)
ExecSB(m) ==
  /\ Executes(m, "sb")
  /\ sb' = [sb EXCEPT ![m] = Head(queue[m]).buf]
  /\ queue' = [queue EXCEPT ![m] = Tail(@)]
  /\ UNCHANGED <<status, dma, converted, inbox>> /\ mprUnchanged

(* A drawing overlay returns to MPR_NextCommand with its last writes still on *)
(* their way.                                                                 *)
ExecDraw(m) ==
  /\ Executes(m, "draw")
  /\ dma' = [dma EXCEPT ![m] = @ \cup {sb[m]}]
  /\ queue' = [queue EXCEPT ![m] = Tail(@)]
  /\ UNCHANGED <<status, sb, converted, inbox>> /\ mprUnchanged

(* MPR_SCRCV reads its screen buffer, writes to the one in the packet, and    *)
(* goes on when the main bus is idle.                                         *)
ExecConv(m) ==
  /\ Executes(m, "conv")
  /\ LET c == Head(queue[m])
     IN  /\ dma' = [dma EXCEPT ![m] = @ \cup {c.buf}]
         /\ converted' = [l \in Lines |->
                            IF l \in c.lines THEN converted[l] + 1
                            ELSE converted[l]]
  /\ queue' = [queue EXCEPT ![m] = <<WaitMDMA>> \o Tail(@)]
  /\ UNCHANGED <<status, sb, inbox>> /\ mprUnchanged

(* MPR_WaitMDMAThenNextCommand. *)
ExecWait(m) ==
  /\ Executes(m, "wait") /\ dma[m] = {}
  /\ queue' = [queue EXCEPT ![m] = Tail(@)]
  /\ UNCHANGED <<status, sb, dma, converted, inbox>> /\ mprUnchanged

(* The end of the chain is missed by one. *)
BadIsEnd(m) == m = EndMPR + 1

IsEnd(m) == m = EndMPR

(* MPR_SendPacket spins until the packet is accepted: by the next renderer,   *)
(* or by the program.                                                         *)
Forward(m) ==
  /\ IF IsEnd(m)
     THEN /\ inbox = "none" /\ inbox' = "SYNC"
          /\ queue' = [queue EXCEPT ![m] = Tail(@)]
     ELSE /\ m + 1 \in MPRs /\ Len(queue[m + 1]) < QueueLen
          /\ queue' = [queue EXCEPT ![m] = Tail(@),
                                    ![m + 1] = Append(@, Head(queue[m]))]
          /\ UNCHANGED inbox

(* MPR_SNCDR, when all DMA is idle. *)
ExecSync(m) ==
  /\ Executes(m, "sync") /\ dma[m] = {}
  /\ Forward(m)
  /\ UNCHANGED <<status, sb, dma, converted>> /\ mprUnchanged

(* MPR_BRKDR does the same, and comes to its halt instruction. *)
ExecBreak(m) ==
  /\ Executes(m, "break") /\ dma[m] = {}
  /\ Forward(m)
  /\ status' = [status EXCEPT ![m] = "halting"]
  /\ UNCHANGED <<sb, dma, converted>> /\ mprUnchanged

Halt(m) ==
  /\ status[m] = "halting"
  /\ status' = [status EXCEPT ![m] = "off"]
  /\ UNCHANGED <<queue, sb, dma, converted, inbox>> /\ mprUnchanged

(* The main bus has done what renderer m asked for. *)
DMADone(m) ==
  /\ dma[m] # {}
  /\ dma' = [dma EXCEPT ![m] = {}]
  /\ UNCHANGED <<queue, status, sb, converted, inbox>> /\ mprUnchanged

-----------------------------------------------------------------------------
(* The video encoder begins a field. *)
Field ==
  /\ displayed' = base
  /\ newField' = TRUE
  /\ UNCHANGED <<screen, taken, programVars, inbox, strays, mprVars, base, late>>

(* Somebody else, not the last renderer, sends the program a packet. *)
Stray ==
  /\ strays < MaxStrays /\ inbox = "none"
  /\ inbox' = "other"
  /\ strays' = strays + 1
  /\ UNCHANGED <<screen, taken, programVars, mprVars, videoVars, late>>

App ==
  \/ mdSetupMPRChain \/ mdRemoveMPRChain
  \/ mdActiveDrawContext \/ mdDrawPrim \/ mdDrawImage \/ mdDrawSync
  \/ mdClearDraw \/ mdClearDisp \/ SwapDrawBufGRB \/ SwapDrawBufYCC

Within ==
  SendFirst \/ SendLast \/ Await \/ VidSync \/ ChangeBase \/ Advance \/ Free

MPR(m) ==
  ExecSB(m) \/ ExecDraw(m) \/ ExecConv(m) \/ ExecWait(m) \/ ExecSync(m)
  \/ ExecBreak(m) \/ Halt(m)

Next ==
  \/ App \/ Within \/ Field \/ Stray
  \/ \E m \in MPRs : MPR(m) \/ DMADone(m)

Spec == Init /\ [][Next]_vars

(* The program goes on within a call, renderers and buses work, and fields    *)
(* come.                                                                      *)
FairSpec ==
  /\ Spec
  /\ WF_vars(Within) /\ WF_vars(Field)
  /\ \A m \in MPRs : WF_vars(MPR(m)) /\ WF_vars(DMADone(m))

-----------------------------------------------------------------------------
Commands ==
  [op : {"sb", "draw"}, buf : Buffers] \cup [op : {"sync", "break", "wait"}]
  \cup [op : {"conv"}, buf : Buffers, lines : SUBSET Lines]

Steps ==
  [do : {"send"}, to : MPRs, cmd : Commands, isLong : BOOLEAN]
  \cup [do : {"await", "vidsync", "base", "advance", "free"}]

TypeOK ==
  /\ screen \in Modes
  /\ taken \subseteq MPRs /\ allocated \subseteq MPRs
  /\ active \in MPRs
  /\ actbuf \in [{0, 1} -> 0 .. 2]
  /\ \A c \in {0, 1} : actbuf[c] < numbuf(c)
  /\ selected \in BOOLEAN /\ synced \in BOOLEAN /\ sending \in BOOLEAN
  /\ todo \in Seq(Steps)
  /\ inbox \in {"none", "SYNC", "other"} /\ strays \in 0 .. MaxStrays
  /\ queue \in [MPRs -> Seq(Commands)]
  /\ status \in [MPRs -> {"off", "run", "halting"}]
  /\ sb \in [MPRs -> Buffers \cup {NoBuffer}]
  /\ dma \in [MPRs -> SUBSET (Buffers \cup {NoBuffer})]
  /\ converted \in [Lines -> Nat]
  /\ base \in Buffers \cup {NoBuffer} /\ displayed \in Buffers \cup {NoBuffer}
  /\ newField \in BOOLEAN
  /\ late \subseteq Buffers

(* Commands that renderer m has still to execute. *)
Waiting(m) == ToSet(queue[m])

(* When mdDrawSync has returned, no renderer has a command left or a write on *)
(* its way: although it only sends to the first renderer and hears from the   *)
(* last (drawsync.s:33-75, mprsncdr.s:54-103), and others send to it as well. *)
SyncMeansDone ==
  synced => \A m \in MPRs : queue[m] = <<>> /\ dma[m] = {}

(* Every primitive is drawn to the buffer that was the active one when the    *)
(* program drew it, whichever renderer gets it and whenever (setscbuf.s:34,   *)
(* drawprim.s:116-133).                                                       *)
DrawnWhereMeant ==
  \A m \in MPRs : Executes(m, "draw") => sb[m] = Head(queue[m]).buf

(* What the program sends is never meant for the buffer that is shown or will *)
(* be at the next field; and no renderer writes there, or is going to, except *)
(* into a frame that the program itself handed over before the renderers had  *)
(* answered: one swap without a mdDrawSync spoils that frame, not the ones    *)
(* after the next mdDrawSync (scrmode.c:898-968).                             *)
NoTearing ==
  /\ Doing("send") => {displayed, base} \cap Writes(Head(todo).cmd) = {}
  /\ \A m \in MPRs :
       {displayed, base} \cap (dma[m] \cup UNION {Writes(c) : c \in Waiting(m)})
         \subseteq late

(* A frame that has been handed to the video encoder is displayed before the  *)
(* next one is, whichever way the modes order waiting and handing over        *)
(* (scrmode.c:904-916, 935-949).                                              *)
EveryFrameShown == [][base' # base => displayed = base]_vars

(* A renderer converts lines of a finished frame: it holds the buffer that    *)
(* was drawn to, and no renderer has drawing left (scrmode.c:904-906).        *)
ConvertsFinishedFrame ==
  \A m \in MPRs : Executes(m, "conv") =>
    /\ sb[m] = <<0, 0>>
    /\ \A n \in MPRs : /\ <<0, 0>> \notin dma[n]
                        /\ \A c \in Waiting(n) : c.op # "draw"

(* A converted frame is shown when each of its lines has been converted       *)
(* once, for every height, number of renderers and rounding                   *)
(* (scrconv.s:174-230).                                                       *)
FrameConverted ==
  grb /\ Doing("base") => \A l \in Lines : converted[l] = 1

(* Between the packets of the program's command no renderer sends the same    *)
(* receiver a token, which would be taken for one of them (mpr.s:576-589).    *)
CommandsArriveWhole ==
  sending => \A m \in MPRs : m + 1 = Head(todo).to =>
               \A c \in Waiting(m) : c.op \notin {"sync", "break"}

(* Renderers run on MPEs that M3DL holds; when these are given back, all that *)
(* a renderer may still have to do is to halt (setup.c:99-104, mprbrkdr.s).   *)
OnlyOwnMPEsRun ==
  \A m \in MPRs \ allocated :
    status[m] # "run" /\ queue[m] = <<>> /\ dma[m] = {}

(* In a call there is always somebody who can go on, so that the waits of the *)
(* program for the renderers, of the renderers for one another, and of both   *)
(* for a full ring never close to a circle; fields and the bus come by        *)
(* themselves (mpr.s:561-576, drawsync.s:45-75, mprsncdr.s:69-103).           *)
ProgramCanGoOn ==
  /\ Doing("send") =>
       \/ Head(todo).isLong /\ ~sending
       \/ Len(queue[Head(todo).to]) < QueueLen
  /\ Doing("await") => inbox # "none"

RendererCanGoOn(m) ==
  \/ dma[m] # {} \/ status[m] = "halting"
  \/ \E op \in {"sb", "draw", "conv", "wait"} : Executes(m, op)
  \/ /\ \E op \in {"sync", "break"} : Executes(m, op)
     /\ IF IsEnd(m) THEN inbox = "none"
        ELSE m + 1 \in MPRs /\ Len(queue[m + 1]) < QueueLen

NoDeadlock ==
  ~Ready => ProgramCanGoOn \/ \E m \in MPRs : RendererCanGoOn(m)

(* Every call returns.                                                        *)
CallsReturn == ~Ready ~> Ready

(* The swaps of scrmode.c keep the promises of a frame queue, in every mode,  *)
(* although the program hears of the renderers' writes by the token alone and *)
(* of fields by _VidSync alone; a frame is handed over early only when the    *)
(* program has not called mdDrawSync (scrmode.c:898-968).                     *)
Frames == INSTANCE FrameQueue WITH
  drawn <- UNION {dma[m] \cup UNION {Writes(c) : c \in Waiting(m)} : m \in MPRs},
  next <- base,
  shown <- displayed,
  late <- late

ImplementsFrames == Frames!Spec
=============================================================================
