---------------------------- MODULE MglDispatch ----------------------------
(***************************************************************************)
(* The work dispatcher of mGL.  One MPE (the controller) runs the          *)
(* application and the library: it appends vertices to gc->vertexBuffer,   *)
(* cuts work into comm bus packets and hands them to the rendering MPEs.   *)
(* A rendering MPE reports MPE_TASK_COMPLETE, waits for a packet, renders  *)
(* it block by block straight out of the controller's memory, and reports  *)
(* again.  The report interrupts the controller, whose handler decrements  *)
(* the MPE's task counter; the library spins on these counters.            *)
(*                                                                         *)
(* Sources: render.c, begend.c, glutils.c, glmutils.s, mpe_manage.s,       *)
(* loadpoly.s and the ValidateGC / ValidateMPE frame of pipeline.c.  What  *)
(* ValidateMPE copies is abstracted here to one datum, the vertex loader.  *)
(* The specification starts after a successful mglInit.                    *)
(*                                                                         *)
(* Definitions named Bad* are slips of the kind a programmer makes in the  *)
(* definition that follows them.  No specification uses them; put in its   *)
(* place, each breaks a property.                                          *)
(***************************************************************************)
EXTENDS Integers, FiniteSets

CONSTANTS
  NumMPEs,       (* gc->numMPEs, the rendering MPEs mglInit obtained        *)
  MAX_VERTS,     (* capacity of gc->vertexBuffer in eight-scalar vertices   *)
  Formats,       (* the vertex formats the application's states select      *)
  Buffers,       (* vertex buffers of the application, for mglDrawBuffer    *)
  GcBuffer,      (* the library's own vertex buffer, gc->vertexBuffer       *)
  Counts,        (* vertexCount arguments of mglDrawBuffer                  *)
  MixedFormats,  (* may the format change while gc->vertexBuffer is in use? *)
  NoPacket       (* an empty comm bus register                              *)

AllFormats == {"XYZWUVN", "XYZC", "XYZN"}

ASSUME DispatchAssumption ==
  /\ NumMPEs \in Nat \ {0}
  /\ MAX_VERTS \in Nat \ {0}
  /\ Formats \subseteq AllFormats /\ "XYZC" \in Formats
  /\ GcBuffer \notin Buffers
  /\ Counts \subseteq Nat \ {0}
  /\ MixedFormats \in BOOLEAN

MPEs == 0 .. NumMPEs - 1

vertexSize == [f \in AllFormats |-> IF f = "XYZWUVN" THEN 8 ELSE 4]

(* Scalars in gc->vertexBuffer. *)
BufferSize == MAX_VERTS * 8

(* A render packet: length scalars at ptr, of which the receiver renders a   *)
(* block of two triangles every stride scalars.  fmt is not transmitted: it  *)
(* records the layout the sender had in mind.                                *)
Packet == [buf : Buffers \cup {GcBuffer}, ptr : Nat, stride : Nat \ {0},
           size : Nat \ {0}, fmt : AllFormats]

(* n scalars of the packet are passed over. *)
Advance(p, n) == [buf |-> p.buf, ptr |-> p.ptr + n, stride |-> p.stride,
                  size |-> p.size - n, fmt |-> p.fmt]

ASSUME NoPacketAssumption == NoPacket \notin Packet

VARIABLES
  beginEndFlag,         \* between glBegin and glEnd
  nextFormat,           \* the vertex format the current GL state calls for
  vertexFormat,         \* gc->vertexFormat, as last derived by ValidateGC
  gcDirty,              \* gc->validationFlags # 0
  entry,                \* gc->vertexEntryCounter
  entryStart,           \* gc->vertexEntryStartCounter
  pc,                   \* where the controller is
  call,                 \* the API call it is executing
  idx,                  \* mpeIndex of the loop or MPE in hand
  mask,                 \* the MPEs a waiting loop waits for
  packet,               \* packet[] of RenderDirect
  left,                 \* numMPEs - i in RenderDirect
  bits,                 \* bitfield of RenderDirect
  reg,                  \* register holding taskCounter in taskCounter++
  owed,                 \* per application buffer: MPEs in the returned bitfields
  taskCounter,          \* mpe->taskCounter
  mpeFlags,             \* mpe->validationFlags
  mpePc,                \* where the rendering MPE is
  loader,               \* mpe->loader: format of the loader in the MPE's memory
  xmit,                 \* a TASK_COMPLETE packet is on its way to the controller
  commrecv,             \* the MPE's comm bus receive register
  task                  \* the packet in the MPE's registers (v1 of the loader)

glVars   == <<beginEndFlag, nextFormat, vertexFormat, gcDirty>>
bufVars  == <<entry, entryStart>>
drawVars == <<packet, left, bits, reg>>
mpeVars  == <<taskCounter, mpeFlags, mpePc, loader, xmit, commrecv, task>>
vars == <<glVars, bufVars, pc, call, idx, mask, drawVars, owed, mpeVars>>

AppCalls == {"none", "Begin", "Vertex", "End", "Flush", "Finish", "Swap",
             "Draw", "Wait", "Invalidate"}
Locations == {"app", "flush", "scan", "boot", "bootwait", "copy", "load",
              "store", "send", "tail", "drainfull", "drain"}

-----------------------------------------------------------------------------
(* After mglInit: every MPE is allocated and marked VAL_MPE_INVALIDATED, gc   *)
(* is zeroed (format 0 is XYZWUVN) except that every validation flag is set;  *)
(* neither texturing nor lighting is enabled, which calls for XYZC.           *)
Init ==
  /\ beginEndFlag = FALSE
  /\ nextFormat = "XYZC" /\ vertexFormat = "XYZWUVN"
  /\ gcDirty = TRUE
  /\ entry = 0 /\ entryStart = 0
  /\ pc = "app" /\ call = "none"
  /\ idx = 0 /\ mask = {}
  /\ packet = NoPacket /\ left = 0 /\ bits = {} /\ reg = 0
  /\ owed = [b \in Buffers |-> {}]
  /\ taskCounter = [m \in MPEs |-> 0]
  /\ mpeFlags = [m \in MPEs |-> {"INVALIDATED"}]
  /\ mpePc = [m \in MPEs |-> "halted"]
  /\ loader = [m \in MPEs |-> "NULL"]
  /\ xmit = [m \in MPEs |-> FALSE]
  /\ commrecv = [m \in MPEs |-> NoPacket]
  /\ task = [m \in MPEs |-> NoPacket]

-----------------------------------------------------------------------------
(* The application, and the prologue of each library call.                    *)

(* The MPEs are not told that the pipeline has changed. *)
BadValidateGC ==
  /\ vertexFormat' = nextFormat
  /\ gcDirty' = FALSE
  /\ UNCHANGED mpeFlags

(* if (gc->validationFlags != 0) ValidateGC(): derive the pipeline from the   *)
(* state and pass the dirty flags on to every MPE.                            *)
ValidateGC ==
  IF gcDirty
  THEN /\ vertexFormat' = nextFormat
       /\ gcDirty' = FALSE
       /\ mpeFlags' = [m \in MPEs |-> mpeFlags[m] \cup {"STATE"}]
  ELSE UNCHANGED <<vertexFormat, gcDirty, mpeFlags>>

(* RenderDirect's prologue. *)
StartRender(b, ptr, size, fmt, n) ==
  /\ packet' = [buf |-> b, ptr |-> ptr, stride |-> n * 6 * vertexSize[fmt],
                size |-> size, fmt |-> fmt]
  /\ left' = n
  /\ bits' = {}
  /\ idx' = 0
  /\ pc' = "scan"

(* glEnable, glDisable, glTexEnv...: a state change that calls for format f. *)
ChangeState(f) ==
  /\ pc = "app" /\ ~beginEndFlag
  /\ f # nextFormat
  /\ MixedFormats \/ entry = 0
  /\ nextFormat' = f
  /\ gcDirty' = TRUE
  /\ UNCHANGED <<beginEndFlag, vertexFormat, bufVars, pc, call, idx, mask,
                 drawVars, owed, mpeVars>>

(* glBegin, glFlush, glFinish and mglSwapBuffers: ValidateGC, then            *)
(* FlushVertexBuffer, then what AfterFlush does for the call.  The debug      *)
(* build rejects the first three between glBegin and glEnd.                   *)
CallFlush(c) ==
  /\ pc = "app"
  /\ beginEndFlag => c = "Swap"
  /\ ValidateGC
  /\ call' = c
  /\ pc' = "flush"
  /\ UNCHANGED <<beginEndFlag, nextFormat, bufVars, idx, mask, drawVars, owed,
                 taskCounter, mpePc, loader, xmit, commrecv, task>>

(* The test for a full buffer comes one vertex late. *)
BadVertex ==
  /\ pc = "app" /\ beginEndFlag
  /\ entry' = entry + vertexSize[vertexFormat]
  /\ IF entry' > BufferSize
     THEN pc' = "flush" /\ call' = "Vertex"
     ELSE UNCHANGED <<pc, call>>
  /\ UNCHANGED <<glVars, entryStart, idx, mask, drawVars, owed, mpeVars>>

(* glVertex*: store one vertex; flush when the buffer is exactly full. *)
Vertex ==
  /\ pc = "app" /\ beginEndFlag
  /\ entry' = entry + vertexSize[vertexFormat]
  /\ IF entry' = BufferSize
     THEN pc' = "flush" /\ call' = "Vertex"
     ELSE UNCHANGED <<pc, call>>
  /\ UNCHANGED <<glVars, entryStart, idx, mask, drawVars, owed, mpeVars>>

(* glEnd *)
End ==
  /\ pc = "app" /\ beginEndFlag
  /\ beginEndFlag' = FALSE
  /\ call' = "End"
  /\ pc' = "flush"
  /\ UNCHANGED <<nextFormat, vertexFormat, gcDirty, bufVars, idx, mask,
                 drawVars, owed, mpeVars>>

(* RenderDirect's clamp of its numMPEs argument. *)
ClampMPEs(n) == IF n <= 0 THEN 1 ELSE IF n > NumMPEs THEN NumMPEs ELSE n

(* mglDrawBuffer: only the format the current state calls for can be drawn;  *)
(* any other sets errorCode (there is no format converter).                  *)
Draw(b, f, count, numMPEs) ==
  /\ pc = "app" /\ ~beginEndFlag
  /\ ValidateGC
  /\ IF f = vertexFormat'
     THEN /\ StartRender(b, 0, count * vertexSize[f], f, ClampMPEs(numMPEs))
          /\ call' = "Draw"
     ELSE UNCHANGED <<packet, left, bits, idx, pc, call>>
  /\ UNCHANGED <<beginEndFlag, nextFormat, bufVars, mask, reg, owed,
                 taskCounter, mpePc, loader, xmit, commrecv, task>>

(* mglWaitForMPEs, mglInvalidateMPE and mglInvalidateAllMPEs: loop over the   *)
(* MPEs, waiting for those in the argument.                                   *)
CallDrain(c, mpes) ==
  /\ pc = "app"
  /\ call' = c
  /\ mask' = mpes
  /\ idx' = 0
  /\ pc' = "drain"
  /\ UNCHANGED <<glVars, bufVars, drawVars, owed, mpeVars>>

-----------------------------------------------------------------------------
(* FlushVertexBuffer.                                                         *)

(* What the caller of FlushVertexBuffer does next. *)
AfterFlush ==
  /\ IF call \in {"Finish", "Swap"}
     THEN pc' = "drain" /\ idx' = 0 /\ mask' = MPEs /\ UNCHANGED call
     ELSE pc' = "app" /\ idx' = 0 /\ mask' = {} /\ call' = "none"
  /\ beginEndFlag' = (beginEndFlag \/ call = "Begin")

FlushVertexBuffer ==
  /\ pc = "flush"
  /\ IF entry > entryStart
     THEN /\ StartRender(GcBuffer, entryStart, entry - entryStart,
                         vertexFormat, 1)
          /\ UNCHANGED <<mask, beginEndFlag, call>>
     ELSE AfterFlush /\ UNCHANGED <<packet, left, bits>>
  /\ UNCHANGED <<nextFormat, vertexFormat, gcDirty, bufVars, reg, owed,
                 mpeVars>>

(* A full buffer is recycled at once. *)
BadFlushTail ==
  /\ pc = "tail"
  /\ entry' = IF entry = BufferSize THEN 0 ELSE entry
  /\ entryStart' = entry'
  /\ AfterFlush
  /\ UNCHANGED <<nextFormat, vertexFormat, gcDirty, drawVars, owed, mpeVars>>

(* A full buffer is recycled from its start once every MPE is idle. *)
FlushTail ==
  /\ pc = "tail"
  /\ IF entry = BufferSize
     THEN /\ entry' = 0
          /\ pc' = "drainfull" /\ idx' = 0 /\ mask' = MPEs
          /\ UNCHANGED <<entryStart, beginEndFlag, call>>
     ELSE /\ entryStart' = entry
          /\ AfterFlush
          /\ UNCHANGED entry
  /\ UNCHANGED <<nextFormat, vertexFormat, gcDirty, drawVars, owed, mpeVars>>

-----------------------------------------------------------------------------
(* RenderDirect, ValidateMPE.                                                 *)

(* The bitfield names the last MPE only. *)
BadScanBits ==
  /\ pc = "scan"
  /\ IF taskCounter[idx] = 0
     THEN /\ bits' = {idx}
          /\ pc' = IF "INVALIDATED" \in mpeFlags[idx] THEN "boot"
                   ELSE IF mpeFlags[idx] # {} THEN "copy" ELSE "load"
          /\ UNCHANGED idx
     ELSE /\ idx' = (idx + 1) % NumMPEs
          /\ UNCHANGED <<bits, pc>>
  /\ UNCHANGED <<glVars, bufVars, call, mask, packet, left, reg, owed, mpeVars>>

(* WaitForAnyMPE reads the task counters in index order, round and round. *)
Scan ==
  /\ pc = "scan"
  /\ IF taskCounter[idx] = 0
     THEN /\ bits' = bits \cup {idx}
          /\ pc' = IF "INVALIDATED" \in mpeFlags[idx] THEN "boot"
                   ELSE IF mpeFlags[idx] # {} THEN "copy" ELSE "load"
          /\ UNCHANGED idx
     ELSE /\ idx' = (idx + 1) % NumMPEs
          /\ UNCHANGED <<bits, pc>>
  /\ UNCHANGED <<glVars, bufVars, call, mask, packet, left, reg, owed, mpeVars>>

(* The report of a booting MPE is not accounted for. *)
BadBoot ==
  /\ pc = "boot"
  /\ mpeFlags' = [mpeFlags EXCEPT ![idx] = {"STATE"}]
  /\ loader' = [loader EXCEPT ![idx] = "NULL"]
  /\ mpePc' = [mpePc EXCEPT ![idx] = "comm_send"]
  /\ pc' = "bootwait"
  /\ UNCHANGED <<glVars, bufVars, call, idx, mask, drawVars, owed, taskCounter,
                 xmit, commrecv, task>>

(* ValidateMPE, first half: stop the MPE, load the manager and start it with  *)
(* a task counter of one, for the report it makes as soon as it runs.         *)
Boot ==
  /\ pc = "boot"
  /\ mpeFlags' = [mpeFlags EXCEPT ![idx] = {"STATE"}]
  /\ taskCounter' = [taskCounter EXCEPT ![idx] = 1]
  /\ loader' = [loader EXCEPT ![idx] = "NULL"]
  /\ mpePc' = [mpePc EXCEPT ![idx] = "comm_send"]
  /\ pc' = "bootwait"
  /\ UNCHANGED <<glVars, bufVars, call, idx, mask, drawVars, owed, xmit,
                 commrecv, task>>

(* The MPE is not waited for before its memory is written. *)
BadBootWait ==
  /\ pc = "bootwait"
  /\ pc' = "copy"
  /\ UNCHANGED <<glVars, bufVars, call, idx, mask, drawVars, owed, mpeVars>>

(* if (mpe->taskCounter != 0) WaitForMPE(mpeIndex), after the boot. *)
BootWait ==
  /\ pc = "bootwait"
  /\ taskCounter[idx] = 0
  /\ pc' = "copy"
  /\ UNCHANGED <<glVars, bufVars, call, idx, mask, drawVars, owed, mpeVars>>

(* ValidateMPE, second half: DMA everything flagged into the MPE's memory. *)
Copy ==
  /\ pc = "copy"
  /\ loader' = [loader EXCEPT ![idx] = vertexFormat]
  /\ mpeFlags' = [mpeFlags EXCEPT ![idx] = {}]
  /\ pc' = "load"
  /\ UNCHANGED <<glVars, bufVars, call, idx, mask, drawVars, owed, taskCounter,
                 mpePc, xmit, commrecv, task>>

(* mpe->taskCounter++ is a load and a store; the interrupt may come between. *)
CounterLoad ==
  /\ pc = "load"
  /\ reg' = taskCounter[idx]
  /\ pc' = "store"
  /\ UNCHANGED <<glVars, bufVars, call, idx, mask, packet, left, bits, owed,
                 mpeVars>>

CounterStore ==
  /\ pc = "store"
  /\ taskCounter' = [taskCounter EXCEPT ![idx] = reg + 1]
  /\ reg' = 0
  /\ pc' = "send"
  /\ UNCHANGED <<glVars, bufVars, call, idx, mask, packet, left, bits, owed, mpeFlags,
                 mpePc, loader, xmit, commrecv, task>>

(* Two triangles: what packet[0] and packet[2] move by per MPE. *)
Block == 6 * vertexSize[packet.fmt]

(* RenderDirect returns the bitfield, which mglDrawBuffer hands to the        *)
(* application.                                                               *)
RenderReturn ==
  /\ IF call = "Draw"
     THEN /\ owed' = [owed EXCEPT ![packet.buf] = @ \cup bits]
          /\ pc' = "app" /\ call' = "none"
     ELSE pc' = "tail" /\ UNCHANGED <<owed, call>>
  /\ packet' = NoPacket /\ left' = 0 /\ bits' = {}

(* _CommSendInfo, then the loop's increments and test. *)
Send ==
  /\ pc = "send"
  /\ commrecv[idx] = NoPacket
  /\ commrecv' = [commrecv EXCEPT ![idx] = packet]
  /\ idx' = 0
  /\ IF left - 1 > 0 /\ packet.size - Block > 0
     THEN /\ packet' = Advance(packet, Block)
          /\ left' = left - 1
          /\ pc' = "scan"
          /\ UNCHANGED <<bits, call, owed>>
     ELSE RenderReturn
  /\ UNCHANGED <<glVars, bufVars, mask, reg, taskCounter, mpeFlags, mpePc,
                 loader, xmit, task>>

-----------------------------------------------------------------------------
(* WaitForAllMPEs, mglWaitForMPEs and the loops of mglInvalidate*MPEs.        *)

(* The loop looks at the counters without waiting. *)
BadDrainWait ==
  /\ pc \in {"drain", "drainfull"}
  /\ idx < NumMPEs
  /\ idx' = idx + 1
  /\ IF call = "Invalidate" /\ idx \in mask
     THEN /\ mpePc' = [mpePc EXCEPT ![idx] = "halted"]
          /\ mpeFlags' = [mpeFlags EXCEPT ![idx] = @ \cup {"INVALIDATED"}]
     ELSE UNCHANGED <<mpePc, mpeFlags>>
  /\ UNCHANGED <<glVars, bufVars, pc, call, mask, drawVars, owed, taskCounter,
                 loader, xmit, commrecv, task>>

(* The loop goes round, as that of WaitForAnyMPE does. *)
BadDrainWrap ==
  /\ pc \in {"drain", "drainfull"}
  /\ idx < NumMPEs
  /\ idx \in mask => taskCounter[idx] = 0
  /\ idx' = (idx + 1) % NumMPEs
  /\ IF call = "Invalidate" /\ idx \in mask
     THEN /\ mpePc' = [mpePc EXCEPT ![idx] = "halted"]
          /\ mpeFlags' = [mpeFlags EXCEPT ![idx] = @ \cup {"INVALIDATED"}]
     ELSE UNCHANGED <<mpePc, mpeFlags>>
  /\ UNCHANGED <<glVars, bufVars, pc, call, mask, drawVars, owed, taskCounter,
                 loader, xmit, commrecv, task>>

(* One round of a waiting loop: the MPE of index i, if it is meant, must be   *)
(* idle before the loop goes on; mglInvalidate*MPEs then stops it.            *)
DrainStep ==
  /\ pc \in {"drain", "drainfull"}
  /\ idx < NumMPEs
  /\ idx \in mask => taskCounter[idx] = 0
  /\ idx' = idx + 1
  /\ IF call = "Invalidate" /\ idx \in mask
     THEN /\ mpePc' = [mpePc EXCEPT ![idx] = "halted"]
          /\ mpeFlags' = [mpeFlags EXCEPT ![idx] = @ \cup {"INVALIDATED"}]
     ELSE UNCHANGED <<mpePc, mpeFlags>>
  /\ UNCHANGED <<glVars, bufVars, pc, call, mask, drawVars, owed, taskCounter,
                 loader, xmit, commrecv, task>>

(* The wait inside FlushVertexBuffer is over. *)
DrainFullDone ==
  /\ pc = "drainfull" /\ idx = NumMPEs
  /\ entryStart' = entry
  /\ AfterFlush
  /\ UNCHANGED <<nextFormat, vertexFormat, gcDirty, entry, drawVars, owed,
                 mpeVars>>

(* The call returns: glFinish rewinds the vertex buffer, mglSwapBuffers flags *)
(* the new render buffer.  owed is what the application still has to wait     *)
(* for before it may write to its buffers.                                    *)
DrainDone ==
  /\ pc = "drain" /\ idx = NumMPEs
  /\ pc' = "app"
  /\ IF call = "Finish" THEN entry' = 0 /\ entryStart' = 0 ELSE UNCHANGED bufVars
  /\ gcDirty' = (gcDirty \/ call = "Swap")
  /\ owed' = [b \in Buffers |-> IF call \in {"Finish", "Wait"}
                                THEN owed[b] \ mask ELSE owed[b]]
  /\ call' = "none" /\ idx' = 0 /\ mask' = {}
  /\ UNCHANGED <<beginEndFlag, nextFormat, vertexFormat, drawVars, mpeVars>>

-----------------------------------------------------------------------------
(* The interrupt handler of the controller.  It may run between any two       *)
(* steps of the controller, and takes one packet at a time.                   *)
CommRecvInterrupt(m) ==
  /\ xmit[m]
  /\ taskCounter' = [taskCounter EXCEPT ![m] = @ - 1]
  /\ xmit' = [xmit EXCEPT ![m] = FALSE]
  /\ UNCHANGED <<glVars, bufVars, pc, call, idx, mask, drawVars, owed, mpeFlags,
                 mpePc, loader, commrecv, task>>

(* A rendering MPE.  Comm: report completion once the transmitter is free... *)
CommSend(m) ==
  /\ mpePc[m] = "comm_send"
  /\ ~xmit[m]
  /\ xmit' = [xmit EXCEPT ![m] = TRUE]
  /\ mpePc' = [mpePc EXCEPT ![m] = "comm_recv"]
  /\ UNCHANGED <<glVars, bufVars, pc, call, idx, mask, drawVars, owed,
                 taskCounter, mpeFlags, loader, commrecv, task>>

(* ... then wait for a packet; _EventHandler passes it to the vertex loader. *)
CommRecv(m) ==
  /\ mpePc[m] = "comm_recv"
  /\ commrecv[m] # NoPacket
  /\ task' = [task EXCEPT ![m] = commrecv[m]]
  /\ commrecv' = [commrecv EXCEPT ![m] = NoPacket]
  /\ mpePc' = [mpePc EXCEPT ![m] = "render"]
  /\ UNCHANGED <<glVars, bufVars, pc, call, idx, mask, drawVars, owed,
                 taskCounter, mpeFlags, loader, xmit>>

(* The loader does not move on. *)
BadRenderBlock(m) ==
  /\ mpePc[m] = "render"
  /\ IF task[m].size - task[m].stride > 0
     THEN UNCHANGED <<task, mpePc>>
     ELSE /\ task' = [task EXCEPT ![m] = NoPacket]
          /\ mpePc' = [mpePc EXCEPT ![m] = "comm_send"]
  /\ UNCHANGED <<glVars, bufVars, pc, call, idx, mask, drawVars, owed,
                 taskCounter, mpeFlags, loader, xmit, commrecv>>

(* One round of the loader: read a block, advance by the stride, render, and  *)
(* go on while scalars remain.                                                *)
RenderBlock(m) ==
  /\ mpePc[m] = "render"
  /\ IF task[m].size - task[m].stride > 0
     THEN /\ task' = [task EXCEPT ![m] = Advance(@, @.stride)]
          /\ UNCHANGED mpePc
     ELSE /\ task' = [task EXCEPT ![m] = NoPacket]
          /\ mpePc' = [mpePc EXCEPT ![m] = "comm_send"]
  /\ UNCHANGED <<glVars, bufVars, pc, call, idx, mask, drawVars, owed,
                 taskCounter, mpeFlags, loader, xmit, commrecv>>

-----------------------------------------------------------------------------
App ==
  \/ \E f \in Formats : ChangeState(f)
  \/ \E c \in {"Begin", "Flush", "Finish", "Swap"} : CallFlush(c)
  \/ Vertex
  \/ End
  \/ \E b \in Buffers, f \in Formats, count \in Counts,
        n \in 0 .. NumMPEs + 1 : Draw(b, f, count, n)
  \/ \E b \in Buffers : owed[b] # {} /\ CallDrain("Wait", owed[b])
  \/ \E m \in MPEs : CallDrain("Invalidate", {m})
  \/ CallDrain("Invalidate", MPEs)

Library ==
  \/ FlushVertexBuffer \/ FlushTail
  \/ Scan \/ Boot \/ BootWait \/ Copy \/ CounterLoad \/ CounterStore \/ Send
  \/ DrainStep \/ DrainFullDone \/ DrainDone

Renderer(m) == CommSend(m) \/ CommRecv(m) \/ RenderBlock(m)

Next ==
  \/ App
  \/ Library
  \/ \E m \in MPEs : CommRecvInterrupt(m) \/ Renderer(m)

Spec == Init /\ [][Next]_vars

(* The library's code runs on, interrupts are taken, every rendering MPE      *)
(* runs; the application need not call anything.                              *)
Fairness ==
  /\ WF_vars(Library)
  /\ \A m \in MPEs : WF_vars(CommRecvInterrupt(m)) /\ WF_vars(Renderer(m))

FairSpec == Spec /\ Fairness

-----------------------------------------------------------------------------
TypeOK ==
  /\ beginEndFlag \in BOOLEAN /\ gcDirty \in BOOLEAN
  /\ nextFormat \in Formats /\ vertexFormat \in AllFormats
  /\ entry \in Nat /\ entryStart \in Nat
  /\ pc \in Locations /\ call \in AppCalls
  /\ idx \in 0 .. NumMPEs /\ mask \in SUBSET MPEs
  /\ packet \in Packet \cup {NoPacket}
  /\ left \in 0 .. NumMPEs /\ bits \in SUBSET MPEs /\ reg \in Int
  /\ owed \in [Buffers -> SUBSET MPEs]
  /\ taskCounter \in [MPEs -> Int]
  /\ mpeFlags \in [MPEs -> SUBSET {"INVALIDATED", "STATE"}]
  /\ mpePc \in [MPEs -> {"halted", "comm_send", "comm_recv", "render"}]
  /\ loader \in [MPEs -> AllFormats \cup {"NULL"}]
  /\ xmit \in [MPEs -> BOOLEAN]
  /\ commrecv \in [MPEs -> Packet \cup {NoPacket}]
  /\ task \in [MPEs -> Packet \cup {NoPacket}]

(* The work and the reports that MPE m has not yet been credited for, counted *)
(* wherever they are on their way round.                                      *)
One(P) == IF P THEN 1 ELSE 0
Outstanding(m) ==
  One(pc = "send" /\ idx = m) + One(commrecv[m] # NoPacket)
  + One(mpePc[m] \in {"render", "comm_send"}) + One(xmit[m])

(* context.h:109 "number of tasks currently assigned to MPE".  The counter is *)
(* moved by a load and a store in RenderDirect, reset by ValidateMPE and      *)
(* decremented by the interrupt handler: no credit is lost or doubled, and an *)
(* MPE never has two tasks.                                                   *)
TaskAccounting ==
  \A m \in MPEs : taskCounter[m] = Outstanding(m) /\ taskCounter[m] <= 1

(* pipeline.c:721 "assumes that the designated MPE is either uninitialized or *)
(* is waiting for a work assignment": code and data are written into an MPE's *)
(* memory only while it executes nothing but its receive loop.                *)
CopiesToIdleMPE ==
  /\ pc = "boot" => mpePc[idx] = "halted" /\ ~xmit[idx]
  /\ pc = "copy" => mpePc[idx] = "comm_recv" /\ commrecv[idx] = NoPacket

(* An MPE is handed a packet only with the loader for the packet's vertex     *)
(* format in its memory, and keeps that loader until it is done with it.      *)
LoaderMatchesPacket ==
  \A m \in MPEs :
    /\ commrecv[m] # NoPacket => loader[m] = commrecv[m].fmt
    /\ mpePc[m] = "render" => loader[m] = task[m].fmt

(* The packets that rendering MPEs have yet to read, or are reading. *)
Reading(m) == {commrecv[m], task[m]} \ {NoPacket}

(* The vertex buffer is never written where an MPE still has to read: a new   *)
(* vertex lies at or above the end of every packet cut from the buffer, also  *)
(* after glFinish or a full buffer rewound it.                                *)
NoOverwrite ==
  [][entry' > entry =>
       \A m \in MPEs : \A p \in Reading(m) :
         p.buf = GcBuffer => p.ptr + p.size <= entry]_vars

(* What mglDrawBuffer returns is enough to know when its buffer may be        *)
(* modified again (mgl_release.txt:10-19 and 130-133): an application that    *)
(* has waited for the bitfields, or called glFinish, owns the buffer.         *)
BitfieldCoversReaders ==
  \A m \in MPEs : \A p \in Reading(m) :
    p.buf # GcBuffer =>
      \/ m \in owed[p.buf]
      \/ packet # NoPacket /\ packet.buf = p.buf /\ m \in bits

(* When glFinish or mglSwapBuffers returns, every MPE is idle. *)
FinishMeansIdle ==
  [][pc = "drain" /\ pc' = "app" /\ call \in {"Finish", "Swap"} =>
       \A m \in MPEs : Outstanding(m) = 0]_vars

(* mpedefs.h:46 "max buffered between begin and end": glVertex* stores only  *)
(* inside gc->vertexBuffer (the counters of gc lie right behind it).          *)
InBounds == entry <= BufferSize

(* What an MPE or its report can do without the controller. *)
Moving(m) ==
  \/ xmit[m]
  \/ mpePc[m] \in {"render", "comm_send"}
  \/ mpePc[m] = "comm_recv" /\ commrecv[m] # NoPacket

(* The library spins on a counter only while that MPE, or its report, goes on *)
(* by itself, and finds the receive register of an MPE it sends to empty: no  *)
(* loop waits for an MPE that is stopped, or that waits for the library       *)
(* (mpe_manage.s, render.c:81-128, glutils.c).                                *)
WaitsForTheBusy ==
  /\ \A m \in MPEs :
       taskCounter[m] # 0 => Moving(m) \/ (pc = "send" /\ idx = m)
  /\ pc = "send" => commrecv[idx] = NoPacket /\ mpePc[idx] = "comm_recv"

(* Every call of the library returns. *)
CallsReturn == (pc # "app") ~> (pc = "app")
=============================================================================
