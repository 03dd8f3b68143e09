------------------------- MODULE MglDispatchProofs -------------------------
(***************************************************************************)
(* Theorems about the mGL dispatcher, for every number of MPEs, every      *)
(* vertex buffer size and every application.                               *)
(***************************************************************************)
EXTENDS MglDispatchInv, TLAPS

USE DispatchAssumption, NoPacketAssumption

-----------------------------------------------------------------------------
(* Lemmas about the operators. *)

LEMMA VertexSizeValues ==
  ASSUME NEW f \in AllFormats
  PROVE  vertexSize[f] \in {4, 8}
BY DEF vertexSize, AllFormats

(* An empty buffer holds whole vertices; one that holds whole vertices and is *)
(* not full has room for another, and holds whole vertices after it.          *)
LEMMA NoVertices ==
  ASSUME NEW f \in AllFormats
  PROVE  WholeVertices(0, f)
<1>1. vertexSize[f] = 4 \/ vertexSize[f] = 8
  BY VertexSizeValues
<1>2. 0 % 4 = 0 /\ 0 % 8 = 0
  OBVIOUS
<1> QED BY <1>1, <1>2 DEF WholeVertices

LEMMA OneMoreVertex ==
  ASSUME NEW f \in AllFormats, NEW n \in Nat, n < BufferSize, WholeVertices(n, f)
  PROVE  n + vertexSize[f] <= BufferSize /\ WholeVertices(n + vertexSize[f], f)
<1>1. CASE vertexSize[f] = 4
  <2>1. n % 4 = 0
    BY <1>1 DEF WholeVertices
  <2>2. n + 4 <= BufferSize /\ (n + 4) % 4 = 0
    BY <2>1 DEF BufferSize
  <2> QED BY <1>1, <2>2 DEF WholeVertices
<1>2. CASE vertexSize[f] = 8
  <2>1. n % 8 = 0
    BY <1>2 DEF WholeVertices
  <2>2. n + 8 <= BufferSize /\ (n + 8) % 8 = 0
    BY <2>1 DEF BufferSize
  <2> QED BY <1>2, <2>2 DEF WholeVertices
<1> QED BY <1>1, <1>2, VertexSizeValues

LEMMA MPEsFacts ==
  /\ 0 \in MPEs
  /\ MPEs \subseteq 0 .. NumMPEs
  /\ \A i \in 0 .. NumMPEs : i < NumMPEs => i \in MPEs
BY DEF MPEs

(* WaitForAnyMPE's index stays in range. *)
LEMMA NextIndex ==
  ASSUME NEW i \in MPEs
  PROVE  (i + 1) % NumMPEs \in MPEs
<1>1. CASE i + 1 < NumMPEs
  <2>1. (i + 1) % NumMPEs = i + 1
    BY <1>1 DEF MPEs
  <2> QED BY <1>1, <2>1 DEF MPEs
<1>2. CASE i + 1 = NumMPEs
  <2>1. (i + 1) % NumMPEs = 0
    BY <1>2 DEF MPEs
  <2> QED BY <2>1, MPEsFacts
<1> QED BY <1>1, <1>2 DEF MPEs

(* Passing over fewer scalars than there are keeps the packet's end. *)
LEMMA AdvanceFacts ==
  ASSUME NEW p \in Packet, NEW n \in Nat, p.size - n > 0
  PROVE  /\ Advance(p, n) \in Packet
         /\ Advance(p, n) # NoPacket
         /\ Advance(p, n).buf = p.buf
         /\ Advance(p, n).fmt = p.fmt
         /\ Advance(p, n).ptr + Advance(p, n).size = p.ptr + p.size
BY DEF Advance, Packet

(* The packet RenderDirect starts with is well formed. *)
LEMMA StartRenderFacts ==
  ASSUME NEW b \in Buffers \cup {GcBuffer}, NEW ptr \in Nat, NEW size \in Nat \ {0},
         NEW fmt \in AllFormats, NEW n \in 1 .. NumMPEs,
         StartRender(b, ptr, size, fmt, n)
  PROVE  /\ packet' \in Packet
         /\ packet' # NoPacket
         /\ packet'.buf = b /\ packet'.fmt = fmt
         /\ packet'.ptr + packet'.size = ptr + size
         /\ left' \in 0 .. NumMPEs /\ bits' = {} /\ idx' = 0 /\ pc' = "scan"
<1>1. vertexSize[fmt] \in {4, 8}
  BY VertexSizeValues
<1>2. n * 6 * vertexSize[fmt] \in Nat \ {0}
  <2>1. CASE vertexSize[fmt] = 4
    <3>1. n * 6 * 4 \in Nat \ {0}
      OBVIOUS
    <3> QED BY <3>1, <2>1
  <2>2. CASE vertexSize[fmt] = 8
    <3>1. n * 6 * 8 \in Nat \ {0}
      OBVIOUS
    <3> QED BY <3>1, <2>2
  <2> QED BY <1>1, <2>1, <2>2
<1>3. packet' \in Packet
  BY <1>2 DEF StartRender, Packet
<1> QED
  BY <1>3 DEF StartRender

LEMMA ClampRange ==
  ASSUME NEW n \in Int
  PROVE  ClampMPEs(n) \in 1 .. NumMPEs
BY DEF ClampMPEs

(* The size of a block of two triangles. *)
LEMMA BlockFacts ==
  ASSUME packet \in Packet
  PROVE  Block \in Nat \ {0}
<1>1. vertexSize[packet.fmt] \in {4, 8}
  BY VertexSizeValues DEF Packet
<1> QED BY <1>1 DEF Block
-----------------------------------------------------------------------------
(* What the larger actions amount to. *)

(* ValidateGC keeps the types, adds VAL_ flags other than INVALIDATED, and    *)
(* changes the vertex format only when it flags every MPE.                    *)
ValidateGCEffect ==
  /\ vertexFormat' \in AllFormats /\ gcDirty' = FALSE
  /\ mpeFlags' \in [MPEs -> SUBSET {"INVALIDATED", "STATE"}]
  /\ vertexFormat' = IF gcDirty THEN nextFormat ELSE vertexFormat
  /\ \A m \in MPEs :
       /\ "INVALIDATED" \in mpeFlags'[m] <=> "INVALIDATED" \in mpeFlags[m]
       /\ mpeFlags'[m] = {} => mpeFlags[m] = {} /\ vertexFormat' = vertexFormat

LEMMA ValidateGCFacts ==
  ASSUME TypeOK, ValidateGC
  PROVE  ValidateGCEffect
<1>1. CASE gcDirty
  BY <1>1 DEF ValidateGC, TypeOK, ValidateGCEffect
<1>2. CASE ~gcDirty
  BY <1>2 DEF ValidateGC, TypeOK, ValidateGCEffect
<1> QED BY <1>1, <1>2

(* The prologue of RenderDirect: a packet of buffer b. *)
Started(b, fmt) ==
  /\ packet' \in Packet /\ packet' # NoPacket
  /\ packet'.buf = b /\ packet'.fmt = fmt
  /\ left' \in 0 .. NumMPEs /\ bits' = {} /\ idx' = 0 /\ pc' = "scan"

(* mglDrawBuffer validates, and starts a packet or returns at once. *)
DrawEffect(b) ==
  /\ pc = "app" /\ ~beginEndFlag
  /\ ValidateGCEffect
  /\ UNCHANGED <<beginEndFlag, nextFormat, entry, entryStart, mask, reg,
                 owed, taskCounter, mpePc, loader, xmit, commrecv, task>>
  /\ \/ Started(b, vertexFormat') /\ call' = "Draw"
     \/ UNCHANGED <<packet, left, bits, idx, pc, call>>

LEMMA DrawFacts ==
  ASSUME TypeOK, NEW b \in Buffers, NEW f \in Formats, NEW count \in Counts,
         NEW n \in 0 .. NumMPEs + 1, Draw(b, f, count, n)
  PROVE  DrawEffect(b)
<1>0. /\ pc = "app" /\ ~beginEndFlag
      /\ ValidateGC
      /\ UNCHANGED <<beginEndFlag, nextFormat, entry, entryStart, mask, reg,
                     owed, taskCounter, mpePc, loader, xmit, commrecv, task>>
  BY DEF Draw, bufVars
<1>1. ValidateGCEffect
  BY <1>0, ValidateGCFacts
<1>2. CASE f = vertexFormat'
  <2>1. ClampMPEs(n) \in 1 .. NumMPEs
    BY ClampRange
  <2>2. f \in AllFormats
    OBVIOUS
  <2>3. vertexSize[f] \in {4, 8} /\ count \in Nat \ {0}
    BY <2>2, VertexSizeValues
  <2>4. count * vertexSize[f] \in Nat \ {0}
    <3>1. count * 4 \in Nat \ {0} /\ count * 8 \in Nat \ {0}
      BY <2>3
    <3> QED BY <3>1, <2>3
  <2>5. StartRender(b, 0, count * vertexSize[f], f, ClampMPEs(n)) /\ call' = "Draw"
    BY <1>2 DEF Draw
  <2>6. Started(b, f)
    BY <2>1, <2>2, <2>4, <2>5, StartRenderFacts DEF Started
  <2> QED BY <1>0, <1>1, <1>2, <2>5, <2>6 DEF DrawEffect
<1>3. CASE f # vertexFormat'
  <2>1. UNCHANGED <<packet, left, bits, idx, pc, call>>
    BY <1>3 DEF Draw
  <2> QED BY <1>0, <1>1, <2>1 DEF DrawEffect
<1> QED BY <1>2, <1>3

(* FlushVertexBuffer starts a packet for what is new in the buffer, or goes   *)
(* on with the call it is part of.                                            *)
FlushEffect ==
  /\ pc = "flush"
  /\ UNCHANGED <<nextFormat, vertexFormat, gcDirty, entry, entryStart, reg,
                 owed, taskCounter, mpeFlags, mpePc, loader, xmit,
                 commrecv, task>>
  /\ \/ /\ Started(GcBuffer, vertexFormat)
        /\ packet'.ptr + packet'.size = entry
        /\ entryStart < entry
        /\ UNCHANGED <<mask, beginEndFlag, call>>
     \/ entryStart >= entry /\ AfterFlush /\ UNCHANGED <<packet, left, bits>>

LEMMA FlushFacts ==
  ASSUME TypeOK, FlushVertexBuffer
  PROVE  FlushEffect
<1>0. /\ pc = "flush"
      /\ UNCHANGED <<nextFormat, vertexFormat, gcDirty, entry, entryStart, reg,
                     owed, taskCounter, mpeFlags, mpePc, loader, xmit,
                     commrecv, task>>
  BY DEF FlushVertexBuffer, bufVars, mpeVars
<1>1. CASE entry > entryStart
  <2>1. StartRender(GcBuffer, entryStart, entry - entryStart, vertexFormat, 1)
        /\ UNCHANGED <<mask, beginEndFlag, call>>
    BY <1>1 DEF FlushVertexBuffer
  <2>2. 1 \in 1 .. NumMPEs /\ entryStart \in Nat /\ entry - entryStart \in Nat \ {0}
        /\ vertexFormat \in AllFormats /\ GcBuffer \in Buffers \cup {GcBuffer}
    BY <1>1 DEF TypeOK
  <2>3. entryStart + (entry - entryStart) = entry
    BY DEF TypeOK
  <2>4. /\ Started(GcBuffer, vertexFormat)
        /\ packet'.ptr + packet'.size = entryStart + (entry - entryStart)
    BY <2>1, <2>2, StartRenderFacts DEF Started
  <2> QED BY <1>0, <1>1, <2>1, <2>2, <2>3, <2>4 DEF FlushEffect
<1>2. CASE ~(entry > entryStart)
  <2>1. entryStart >= entry
    BY <1>2 DEF TypeOK
  <2> QED BY <1>0, <1>2, <2>1 DEF FlushVertexBuffer, FlushEffect
<1> QED BY <1>1, <1>2

(* RenderDirect sends the packet, and goes on with the rest of it (which      *)
(* keeps buffer, layout and end) or returns.                                  *)
SendEffect ==
  /\ pc = "send"
  /\ UNCHANGED <<beginEndFlag, nextFormat, vertexFormat, gcDirty, entry,
                 entryStart, mask, reg, taskCounter, mpeFlags, mpePc,
                 loader, xmit, task>>
  /\ packet \in Packet /\ packet # NoPacket /\ idx \in MPEs
  /\ commrecv[idx] = NoPacket
  /\ commrecv' = [commrecv EXCEPT ![idx] = packet]
  /\ idx' = 0
  /\ \/ /\ packet' \in Packet /\ packet' # NoPacket
        /\ packet'.buf = packet.buf /\ packet'.fmt = packet.fmt
        /\ packet'.ptr + packet'.size = packet.ptr + packet.size
        /\ left' \in 0 .. NumMPEs /\ pc' = "scan"
        /\ UNCHANGED <<bits, call, owed>>
     \/ RenderReturn

LEMMA SendFacts ==
  ASSUME TypeOK, CallInv, Send
  PROVE  SendEffect
<1>0. /\ pc = "send"
      /\ UNCHANGED <<beginEndFlag, nextFormat, vertexFormat, gcDirty, entry,
                     entryStart, mask, reg, taskCounter, mpeFlags, mpePc,
                     loader, xmit, task>>
      /\ commrecv[idx] = NoPacket
      /\ commrecv' = [commrecv EXCEPT ![idx] = packet]
      /\ idx' = 0
  BY DEF Send, glVars, bufVars
<1>1. packet \in Packet /\ packet # NoPacket /\ idx \in MPEs
  BY MPEsFacts DEF Send, TypeOK, CallInv, RenderPcs
<1>2. CASE left - 1 > 0 /\ packet.size - Block > 0
  <2>1. packet' = Advance(packet, Block) /\ left' = left - 1 /\ pc' = "scan"
        /\ UNCHANGED <<bits, call, owed>>
    BY <1>2 DEF Send
  <2>2. left' \in 0 .. NumMPEs
    BY <1>2, <2>1 DEF TypeOK
  <2>3. Block \in Nat \ {0}
    BY <1>1, BlockFacts
  <2>4. /\ packet' \in Packet /\ packet' # NoPacket
        /\ packet'.buf = packet.buf /\ packet'.fmt = packet.fmt
        /\ packet'.ptr + packet'.size = packet.ptr + packet.size
    BY <1>1, <1>2, <2>1, <2>3, AdvanceFacts
  <2> QED BY <1>0, <1>1, <2>1, <2>2, <2>4 DEF SendEffect
<1>3. CASE ~(left - 1 > 0 /\ packet.size - Block > 0)
  <2>1. RenderReturn
    BY <1>3 DEF Send
  <2> QED BY <1>0, <1>1, <2>1 DEF SendEffect
<1> QED BY <1>2, <1>3

(* RenderBlock passes over a block or finishes the task. *)
RenderBlockEffect(m) ==
  /\ mpePc[m] = "render"
  /\ UNCHANGED <<beginEndFlag, nextFormat, vertexFormat, gcDirty, entry,
                 entryStart, pc, call, idx, mask, packet, left, bits, reg,
                 owed, taskCounter, mpeFlags, loader, xmit, commrecv>>
  /\ task[m] \in Packet
  /\ \/ /\ \E p \in Packet :
             /\ task' = [task EXCEPT ![m] = p] /\ p # NoPacket
             /\ p.buf = task[m].buf /\ p.fmt = task[m].fmt
             /\ p.ptr + p.size = task[m].ptr + task[m].size
        /\ UNCHANGED mpePc
     \/ /\ task' = [task EXCEPT ![m] = NoPacket]
        /\ mpePc' = [mpePc EXCEPT ![m] = "comm_send"]

LEMMA RenderBlockFacts ==
  ASSUME TypeOK, FlagInv, NEW m \in MPEs, RenderBlock(m)
  PROVE  RenderBlockEffect(m)
<1>0. /\ mpePc[m] = "render"
      /\ UNCHANGED <<beginEndFlag, nextFormat, vertexFormat, gcDirty, entry,
                     entryStart, pc, call, idx, mask, packet, left, bits, reg,
                     owed, taskCounter, mpeFlags, loader, xmit, commrecv>>
  BY DEF RenderBlock, glVars, bufVars, drawVars
<1>1. task[m] \in Packet
  BY <1>0 DEF FlagInv, TypeOK
<1>2. CASE task[m].size - task[m].stride > 0
  <2>1. task' = [task EXCEPT ![m] = Advance(task[m], task[m].stride)]
        /\ UNCHANGED mpePc
    BY <1>2 DEF RenderBlock
  <2>2. task[m].stride \in Nat
    BY <1>1 DEF Packet
  <2> DEFINE p == Advance(task[m], task[m].stride)
  <2>3. /\ p \in Packet /\ p # NoPacket
        /\ p.buf = task[m].buf /\ p.fmt = task[m].fmt
        /\ p.ptr + p.size = task[m].ptr + task[m].size
    BY <1>1, <1>2, <2>2, AdvanceFacts
  <2> HIDE DEF p
  <2>4. task' = [task EXCEPT ![m] = p]
    BY <2>1 DEF p
  <2> QED BY <1>0, <1>1, <2>1, <2>3, <2>4 DEF RenderBlockEffect
<1>3. CASE ~(task[m].size - task[m].stride > 0)
  <2>1. /\ task' = [task EXCEPT ![m] = NoPacket]
        /\ mpePc' = [mpePc EXCEPT ![m] = "comm_send"]
    BY <1>3 DEF RenderBlock
  <2> QED BY <1>0, <1>1, <2>1 DEF RenderBlockEffect
<1> QED BY <1>2, <1>3

-----------------------------------------------------------------------------
(* Every action preserves the invariant, one part of it at a time. *)

(* Every action keeps the types. *)
LEMMA TypeOKStep ==
  ASSUME TypeOK, CallInv, FlagInv, [Next]_vars
  PROVE  TypeOK'
<1>validate. ValidateGC => ValidateGCEffect
  BY ValidateGCFacts
<1>draw. \A b \in Buffers, f \in Formats, count \in Counts, n \in 0 .. NumMPEs
    + 1 :
          Draw(b, f, count, n) => DrawEffect(b)
  BY DrawFacts
<1>flush. FlushVertexBuffer => FlushEffect
  BY FlushFacts
<1>send. Send => SendEffect
  BY SendFacts
<1>render. \A m \in MPEs : RenderBlock(m) => RenderBlockEffect(m)
  BY RenderBlockFacts
<1> USE MPEsFacts DEF TypeOK, Locations, AppCalls, CallInv, RenderPcs,
    FlushCalls, FlagInv, glVars, bufVars, drawVars, mpeVars
<1>1. ASSUME NEW f \in Formats, ChangeState(f) PROVE TypeOK'
  BY <1>1 DEF ChangeState
<1>2. ASSUME NEW c \in {"Begin", "Flush", "Finish", "Swap"}, CallFlush(c) PROVE
    TypeOK'
  BY <1>2, <1>validate DEF CallFlush, ValidateGCEffect
<1>3. CASE Vertex
  <2>1. vertexSize[vertexFormat] \in {4, 8}
    BY VertexSizeValues
  <2> QED BY <1>3, <2>1 DEF Vertex
<1>4. CASE End
  BY <1>4 DEF End
<1>5. ASSUME NEW b \in Buffers, NEW f \in Formats, NEW count \in Counts,
         NEW n \in 0 .. NumMPEs + 1, Draw(b, f, count, n) PROVE TypeOK'
  <2> HIDE DEF CallInv, FlagInv, TypeOK
  <2>1. DrawEffect(b)
    BY <1>5, <1>draw
  <2>2. /\ pc' \in Locations /\ call' \in AppCalls /\ idx' \in 0 .. NumMPEs
        /\ packet' \in Packet \cup {NoPacket}
        /\ left' \in 0 .. NumMPEs /\ bits' \in SUBSET MPEs
    BY <2>1 DEF DrawEffect, Started, TypeOK
  <2> QED BY <2>1, <2>2 DEF DrawEffect, ValidateGCEffect, TypeOK
<1>6. ASSUME NEW c \in {"Wait", "Invalidate"}, NEW S \in SUBSET MPEs,
         CallDrain(c, S) PROVE TypeOK'
  BY <1>6 DEF CallDrain
<1>7. CASE FlushVertexBuffer
  BY <1>7, <1>flush DEF FlushEffect, Started, AfterFlush
<1>8. CASE FlushTail
  <2>1. CASE entry = BufferSize
    BY <1>8, <2>1 DEF FlushTail
  <2>2. CASE entry # BufferSize
    BY <1>8, <2>2 DEF FlushTail, AfterFlush
  <2> QED BY <2>1, <2>2
<1>9. CASE Scan
  <2> HIDE DEF CallInv, FlagInv
  <2>1. idx \in MPEs
    BY <1>9 DEF Scan, CallInv
  <2>2. (idx + 1) % NumMPEs \in MPEs
    BY <2>1, NextIndex
  <2>3. idx' \in 0 .. NumMPEs /\ bits' \in SUBSET MPEs /\ pc' \in Locations
    BY <1>9, <2>1, <2>2 DEF Scan
  <2> QED BY <1>9, <2>3 DEF Scan
<1>10. CASE Boot
  BY <1>10 DEF Boot
<1>11. CASE BootWait
  BY <1>11 DEF BootWait
<1>12. CASE Copy
  BY <1>12 DEF Copy
<1>13. CASE CounterLoad
  BY <1>13 DEF CounterLoad
<1>14. CASE CounterStore
  BY <1>14 DEF CounterStore
<1>15. CASE Send
  <2> HIDE DEF CallInv, FlagInv, TypeOK
  <2>1. SendEffect
    BY <1>15, <1>send
  <2>2. commrecv' \in [MPEs -> Packet \cup {NoPacket}]
    BY <2>1 DEF SendEffect, TypeOK
  <2>3. owed' \in [Buffers -> SUBSET MPEs]
    <3>1. CASE call = "Draw" /\ RenderReturn
      <4>1. owed' = [owed EXCEPT ![packet.buf] = owed[packet.buf] \cup bits]
        BY <3>1 DEF RenderReturn
      <4>2. owed \in [Buffers -> SUBSET MPEs] /\ bits \in SUBSET MPEs
        BY DEF TypeOK
      <4> QED BY <4>1, <4>2
    <3>2. CASE ~(call = "Draw" /\ RenderReturn)
      BY <2>1, <3>2 DEF SendEffect, RenderReturn, TypeOK
    <3> QED BY <3>1, <3>2
  <2>4. /\ pc' \in Locations /\ call' \in AppCalls /\ idx' \in 0 .. NumMPEs
        /\ packet' \in Packet \cup {NoPacket}
        /\ left' \in 0 .. NumMPEs /\ bits' \in SUBSET MPEs
    BY <2>1 DEF SendEffect, RenderReturn, TypeOK
  <2> QED BY <2>1, <2>2, <2>3, <2>4 DEF SendEffect, TypeOK
<1>16. CASE DrainStep
  <2> HIDE DEF CallInv, FlagInv
  <2>1. idx \in MPEs /\ idx' \in 0 .. NumMPEs
    BY <1>16 DEF DrainStep
  <2>2. mpePc' \in [MPEs -> {"halted", "comm_send", "comm_recv", "render"}]
    BY <1>16 DEF DrainStep
  <2>3. mpeFlags' \in [MPEs -> SUBSET {"INVALIDATED", "STATE"}]
    BY <1>16 DEF DrainStep
  <2> QED BY <1>16, <2>1, <2>2, <2>3 DEF DrainStep
<1>17. CASE DrainFullDone
  BY <1>17 DEF DrainFullDone, AfterFlush
<1>18. CASE DrainDone
  BY <1>18 DEF DrainDone
<1>19. ASSUME NEW m \in MPEs, CommRecvInterrupt(m) PROVE TypeOK'
  BY <1>19 DEF CommRecvInterrupt
<1>20. ASSUME NEW m \in MPEs, CommSend(m) PROVE TypeOK'
  BY <1>20 DEF CommSend
<1>21. ASSUME NEW m \in MPEs, CommRecv(m) PROVE TypeOK'
  BY <1>21 DEF CommRecv
<1>22. ASSUME NEW m \in MPEs, RenderBlock(m) PROVE TypeOK'
  <2> HIDE DEF CallInv, FlagInv, TypeOK
  <2>1. RenderBlockEffect(m)
    BY <1>22, <1>render
  <2>2. task' \in [MPEs -> Packet \cup {NoPacket}]
    BY <2>1 DEF RenderBlockEffect, TypeOK
  <2>3. mpePc' \in [MPEs -> {"halted", "comm_send", "comm_recv", "render"}]
    BY <2>1 DEF RenderBlockEffect, TypeOK
  <2> QED BY <2>1, <2>2, <2>3 DEF RenderBlockEffect, TypeOK
<1>23. CASE UNCHANGED vars
  BY <1>23 DEF vars
<1> QED
  BY <1>1, <1>2, <1>3, <1>4, <1>5, <1>6, <1>7, <1>8, <1>9, <1>10, <1>11, <1>12,
    <1>13, <1>14, <1>15, <1>16, <1>17, <1>18, <1>19, <1>20, <1>21, <1>22, <1>23
    DEF Next, App, Library, Renderer

(* Every action keeps the locals of the call in progress consistent. *)
LEMMA CallInvStep ==
  ASSUME CallInv, TypeOK, FlagInv, PickedInv, TaskAccounting, [Next]_vars
  PROVE  CallInv'
<1>validate. ValidateGC => ValidateGCEffect
  BY ValidateGCFacts
<1>draw. \A b \in Buffers, f \in Formats, count \in Counts, n \in 0 .. NumMPEs
    + 1 :
          Draw(b, f, count, n) => DrawEffect(b)
  BY DrawFacts
<1>flush. FlushVertexBuffer => FlushEffect
  BY FlushFacts
<1>send. Send => SendEffect
  BY SendFacts
<1>render. \A m \in MPEs : RenderBlock(m) => RenderBlockEffect(m)
  BY RenderBlockFacts
<1> USE MPEsFacts DEF CallInv, RenderPcs, FlushCalls, TypeOK, Locations,
    AppCalls, FlagInv, PickedInv, TaskAccounting, Outstanding, One, glVars,
    bufVars, drawVars, mpeVars
<1>1. ASSUME NEW f \in Formats, ChangeState(f) PROVE CallInv'
  BY <1>1 DEF ChangeState
<1>2. ASSUME NEW c \in {"Begin", "Flush", "Finish", "Swap"}, CallFlush(c) PROVE
    CallInv'
  BY <1>2, <1>validate DEF CallFlush, ValidateGCEffect
<1>3. CASE Vertex
  BY <1>3 DEF Vertex
<1>4. CASE End
  BY <1>4 DEF End
<1>5. ASSUME NEW b \in Buffers, NEW f \in Formats, NEW count \in Counts,
         NEW n \in 0 .. NumMPEs + 1, Draw(b, f, count, n) PROVE CallInv'
  BY <1>5, <1>draw DEF DrawEffect, Started, ValidateGCEffect
<1>6. ASSUME NEW c \in {"Wait", "Invalidate"}, NEW S \in SUBSET MPEs,
         CallDrain(c, S) PROVE CallInv'
  BY <1>6 DEF CallDrain
<1>7. CASE FlushVertexBuffer
  <2> HIDE DEF FlagInv, PickedInv, TaskAccounting, TypeOK
  <2>1. FlushEffect
    BY <1>7, <1>flush
  <2>2. CASE AfterFlush /\ UNCHANGED <<packet, left, bits>>
    <3>1. CASE call \in {"Finish", "Swap"}
      BY <2>1, <2>2, <3>1 DEF FlushEffect, AfterFlush, MPEs
    <3>2. CASE call \notin {"Finish", "Swap"}
      BY <2>1, <2>2, <3>2 DEF FlushEffect, AfterFlush
    <3> QED BY <3>1, <3>2
  <2>3. CASE ~(AfterFlush /\ UNCHANGED <<packet, left, bits>>)
    BY <2>1, <2>3 DEF FlushEffect, Started
  <2> QED BY <2>2, <2>3
<1>8. CASE FlushTail
  <2> HIDE DEF FlagInv, PickedInv, TaskAccounting, TypeOK
  <2>1. packet' = NoPacket
    BY <1>8 DEF FlushTail
  <2>2. CASE entry = BufferSize
    BY <1>8, <2>1, <2>2 DEF FlushTail, MPEs
  <2>3. CASE entry # BufferSize /\ call \in {"Finish", "Swap"}
    BY <1>8, <2>1, <2>3 DEF FlushTail, AfterFlush, MPEs
  <2>4. CASE entry # BufferSize /\ call \notin {"Finish", "Swap"}
    BY <1>8, <2>1, <2>4 DEF FlushTail, AfterFlush
  <2> QED BY <2>2, <2>3, <2>4
<1>9. CASE Scan
  BY <1>9, NextIndex DEF Scan
<1>10. CASE Boot
  BY <1>10 DEF Boot
<1>11. CASE BootWait
  BY <1>11 DEF BootWait
<1>12. CASE Copy
  BY <1>12 DEF Copy
<1>13. CASE CounterLoad
  BY <1>13 DEF CounterLoad
<1>14. CASE CounterStore
  BY <1>14 DEF CounterStore
<1>15. CASE Send
  <2> HIDE DEF FlagInv, PickedInv, TaskAccounting, TypeOK
  <2>1. SendEffect
    BY <1>15, <1>send
  <2>2. CASE RenderReturn
    <3>1. call \in AppCalls /\ (call = "Draw" => pc' = "app" /\ call' = "none")
          /\ (call # "Draw" => pc' = "tail" /\ call' = call)
      BY <2>2 DEF RenderReturn, TypeOK
    <3>2. call # "Draw" => call \in FlushCalls
      BY <2>1 DEF SendEffect
    <3>3. packet' = NoPacket
      BY <2>2 DEF RenderReturn
    <3> QED BY <3>1, <3>2, <3>3
  <2>3. CASE ~RenderReturn
    BY <2>1, <2>3 DEF SendEffect
  <2> QED BY <2>2, <2>3
<1>16. CASE DrainStep
  BY <1>16 DEF DrainStep
<1>17. CASE DrainFullDone
  <2> HIDE DEF FlagInv, PickedInv, TaskAccounting, TypeOK
  <2>1. CASE call \in {"Finish", "Swap"}
    BY <1>17, <2>1 DEF DrainFullDone, AfterFlush, MPEs
  <2>2. CASE call \notin {"Finish", "Swap"}
    BY <1>17, <2>2 DEF DrainFullDone, AfterFlush
  <2> QED BY <2>1, <2>2
<1>18. CASE DrainDone
  BY <1>18 DEF DrainDone
<1>19. ASSUME NEW m \in MPEs, CommRecvInterrupt(m) PROVE CallInv'
  BY <1>19 DEF CommRecvInterrupt
<1>20. ASSUME NEW m \in MPEs, CommSend(m) PROVE CallInv'
  BY <1>20 DEF CommSend
<1>21. ASSUME NEW m \in MPEs, CommRecv(m) PROVE CallInv'
  BY <1>21 DEF CommRecv
<1>22. ASSUME NEW m \in MPEs, RenderBlock(m) PROVE CallInv'
  <2> HIDE DEF FlagInv, PickedInv, TaskAccounting, TypeOK
  <2>1. RenderBlockEffect(m)
    BY <1>22, <1>render
  <2> QED BY <2>1 DEF RenderBlockEffect
<1>23. CASE UNCHANGED vars
  BY <1>23 DEF vars
<1> QED
  BY <1>1, <1>2, <1>3, <1>4, <1>5, <1>6, <1>7, <1>8, <1>9, <1>10, <1>11, <1>12,
    <1>13, <1>14, <1>15, <1>16, <1>17, <1>18, <1>19, <1>20, <1>21, <1>22, <1>23
    DEF Next, App, Library, Renderer

(* Every action keeps the validation flags in step with the MPEs: only       *)
(* ValidateMPE and mglInvalidateMPE change both.                              *)
LEMMA FlagInvStep ==
  ASSUME FlagInv, TypeOK, CallInv, PickedInv, TaskAccounting, [Next]_vars
  PROVE  FlagInv'
<1>validate. ValidateGC => ValidateGCEffect
  BY ValidateGCFacts
<1>draw. \A b \in Buffers, f \in Formats, count \in Counts, n \in 0 .. NumMPEs
    + 1 :
          Draw(b, f, count, n) => DrawEffect(b)
  BY DrawFacts
<1>flush. FlushVertexBuffer => FlushEffect
  BY FlushFacts
<1>send. Send => SendEffect
  BY SendFacts
<1>render. \A m \in MPEs : RenderBlock(m) => RenderBlockEffect(m)
  BY RenderBlockFacts
<1> USE MPEsFacts DEF FlagInv, TypeOK, Locations, AppCalls, CallInv, RenderPcs,
    FlushCalls, PickedInv, TaskAccounting, Outstanding, One, glVars, bufVars,
    drawVars, mpeVars
<1>1. ASSUME NEW f \in Formats, ChangeState(f) PROVE FlagInv'
  BY <1>1 DEF ChangeState
<1>2. ASSUME NEW c \in {"Begin", "Flush", "Finish", "Swap"}, CallFlush(c) PROVE
    FlagInv'
  BY <1>2, <1>validate DEF CallFlush, ValidateGCEffect
<1>3. CASE Vertex
  BY <1>3 DEF Vertex
<1>4. CASE End
  BY <1>4 DEF End
<1>5. ASSUME NEW b \in Buffers, NEW f \in Formats, NEW count \in Counts,
         NEW n \in 0 .. NumMPEs + 1, Draw(b, f, count, n) PROVE FlagInv'
  BY <1>5, <1>draw DEF DrawEffect, Started, ValidateGCEffect
<1>6. ASSUME NEW c \in {"Wait", "Invalidate"}, NEW S \in SUBSET MPEs,
         CallDrain(c, S) PROVE FlagInv'
  BY <1>6 DEF CallDrain
<1>7. CASE FlushVertexBuffer
  BY <1>7, <1>flush DEF FlushEffect, Started, AfterFlush
<1>8. CASE FlushTail
  BY <1>8 DEF FlushTail, AfterFlush
<1>9. CASE Scan
  BY <1>9, NextIndex DEF Scan
<1>10. CASE Boot
  BY <1>10 DEF Boot
<1>11. CASE BootWait
  BY <1>11 DEF BootWait
<1>12. CASE Copy
  BY <1>12 DEF Copy
<1>13. CASE CounterLoad
  BY <1>13 DEF CounterLoad
<1>14. CASE CounterStore
  BY <1>14 DEF CounterStore
<1>15. CASE Send
  BY <1>15, <1>send DEF SendEffect, RenderReturn
<1>16. CASE DrainStep
  <2>1. idx \in MPEs /\ pc \notin RenderPcs
    BY <1>16 DEF DrainStep
  <2>2. CASE call = "Invalidate" /\ idx \in mask
    <3>1. mpePc[idx] # "render"
      BY <1>16, <2>1, <2>2 DEF DrainStep
    <3> QED BY <1>16, <2>1, <2>2, <3>1 DEF DrainStep
  <2>3. CASE ~(call = "Invalidate" /\ idx \in mask)
    BY <1>16, <2>1, <2>3 DEF DrainStep
  <2> QED BY <2>2, <2>3
<1>17. CASE DrainFullDone
  BY <1>17 DEF DrainFullDone, AfterFlush
<1>18. CASE DrainDone
  BY <1>18 DEF DrainDone
<1>19. ASSUME NEW m \in MPEs, CommRecvInterrupt(m) PROVE FlagInv'
  BY <1>19 DEF CommRecvInterrupt
<1>20. ASSUME NEW m \in MPEs, CommSend(m) PROVE FlagInv'
  BY <1>20 DEF CommSend
<1>21. ASSUME NEW m \in MPEs, CommRecv(m) PROVE FlagInv'
  BY <1>21 DEF CommRecv
<1>22. ASSUME NEW m \in MPEs, RenderBlock(m) PROVE FlagInv'
  BY <1>22, <1>render DEF RenderBlockEffect
<1>23. CASE UNCHANGED vars
  BY <1>23 DEF vars
<1> QED
  BY <1>1, <1>2, <1>3, <1>4, <1>5, <1>6, <1>7, <1>8, <1>9, <1>10, <1>11, <1>12,
    <1>13, <1>14, <1>15, <1>16, <1>17, <1>18, <1>19, <1>20, <1>21, <1>22, <1>23
    DEF Next, App, Library, Renderer

(* The MPE RenderDirect has picked stays idle until it is sent its packet. *)
LEMMA PickedInvStep ==
  ASSUME PickedInv, TypeOK, CallInv, FlagInv, TaskAccounting, [Next]_vars
  PROVE  PickedInv'
<1>validate. ValidateGC => ValidateGCEffect
  BY ValidateGCFacts
<1>draw. \A b \in Buffers, f \in Formats, count \in Counts, n \in 0 .. NumMPEs
    + 1 :
          Draw(b, f, count, n) => DrawEffect(b)
  BY DrawFacts
<1>flush. FlushVertexBuffer => FlushEffect
  BY FlushFacts
<1>send. Send => SendEffect
  BY SendFacts
<1>render. \A m \in MPEs : RenderBlock(m) => RenderBlockEffect(m)
  BY RenderBlockFacts
<1> USE MPEsFacts DEF PickedInv, RenderPcs, TypeOK, Locations, AppCalls,
    CallInv, FlushCalls, FlagInv, TaskAccounting, Outstanding, One, glVars,
    bufVars, drawVars, mpeVars
<1>1. ASSUME NEW f \in Formats, ChangeState(f) PROVE PickedInv'
  BY <1>1 DEF ChangeState
<1>2. ASSUME NEW c \in {"Begin", "Flush", "Finish", "Swap"}, CallFlush(c) PROVE
    PickedInv'
  BY <1>2, <1>validate DEF CallFlush, ValidateGCEffect
<1>3. CASE Vertex
  BY <1>3 DEF Vertex
<1>4. CASE End
  BY <1>4 DEF End
<1>5. ASSUME NEW b \in Buffers, NEW f \in Formats, NEW count \in Counts,
         NEW n \in 0 .. NumMPEs + 1, Draw(b, f, count, n) PROVE PickedInv'
  BY <1>5, <1>draw DEF DrawEffect, Started, ValidateGCEffect
<1>6. ASSUME NEW c \in {"Wait", "Invalidate"}, NEW S \in SUBSET MPEs,
         CallDrain(c, S) PROVE PickedInv'
  BY <1>6 DEF CallDrain
<1>7. CASE FlushVertexBuffer
  BY <1>7, <1>flush DEF FlushEffect, Started, AfterFlush
<1>8. CASE FlushTail
  BY <1>8 DEF FlushTail, AfterFlush
<1>9. CASE Scan
  BY <1>9, NextIndex DEF Scan
<1>10. CASE Boot
  BY <1>10 DEF Boot
<1>11. CASE BootWait
  BY <1>11 DEF BootWait
<1>12. CASE Copy
  BY <1>12 DEF Copy
<1>13. CASE CounterLoad
  BY <1>13 DEF CounterLoad
<1>14. CASE CounterStore
  BY <1>14 DEF CounterStore
<1>15. CASE Send
  BY <1>15, <1>send DEF SendEffect, RenderReturn
<1>16. CASE DrainStep
  BY <1>16 DEF DrainStep
<1>17. CASE DrainFullDone
  BY <1>17 DEF DrainFullDone, AfterFlush
<1>18. CASE DrainDone
  BY <1>18 DEF DrainDone
<1>19. ASSUME NEW m \in MPEs, CommRecvInterrupt(m) PROVE PickedInv'
  BY <1>19 DEF CommRecvInterrupt
<1>20. ASSUME NEW m \in MPEs, CommSend(m) PROVE PickedInv'
  BY <1>20 DEF CommSend
<1>21. ASSUME NEW m \in MPEs, CommRecv(m) PROVE PickedInv'
  BY <1>21 DEF CommRecv
<1>22. ASSUME NEW m \in MPEs, RenderBlock(m) PROVE PickedInv'
  BY <1>22, <1>render DEF RenderBlockEffect
<1>23. CASE UNCHANGED vars
  BY <1>23 DEF vars
<1> QED
  BY <1>1, <1>2, <1>3, <1>4, <1>5, <1>6, <1>7, <1>8, <1>9, <1>10, <1>11, <1>12,
    <1>13, <1>14, <1>15, <1>16, <1>17, <1>18, <1>19, <1>20, <1>21, <1>22, <1>23
    DEF Next, App, Library, Renderer

(* Every action moves the task counter and the work it counts together. *)
LEMMA TaskAccountingStep ==
  ASSUME TaskAccounting, TypeOK, CallInv, FlagInv, PickedInv, [Next]_vars
  PROVE  TaskAccounting'
<1>validate. ValidateGC => ValidateGCEffect
  BY ValidateGCFacts
<1>draw. \A b \in Buffers, f \in Formats, count \in Counts, n \in 0 .. NumMPEs
    + 1 :
          Draw(b, f, count, n) => DrawEffect(b)
  BY DrawFacts
<1>flush. FlushVertexBuffer => FlushEffect
  BY FlushFacts
<1>send. Send => SendEffect
  BY SendFacts
<1>render. \A m \in MPEs : RenderBlock(m) => RenderBlockEffect(m)
  BY RenderBlockFacts
<1> USE MPEsFacts DEF TaskAccounting, Outstanding, One, TypeOK, Locations,
    AppCalls, CallInv, RenderPcs, FlushCalls, FlagInv, PickedInv, glVars,
    bufVars, drawVars, mpeVars
<1>1. ASSUME NEW f \in Formats, ChangeState(f) PROVE TaskAccounting'
  BY <1>1 DEF ChangeState
<1>2. ASSUME NEW c \in {"Begin", "Flush", "Finish", "Swap"}, CallFlush(c) PROVE
    TaskAccounting'
  BY <1>2, <1>validate DEF CallFlush, ValidateGCEffect
<1>3. CASE Vertex
  BY <1>3 DEF Vertex
<1>4. CASE End
  BY <1>4 DEF End
<1>5. ASSUME NEW b \in Buffers, NEW f \in Formats, NEW count \in Counts,
         NEW n \in 0 .. NumMPEs + 1, Draw(b, f, count, n) PROVE TaskAccounting'
  BY <1>5, <1>draw DEF DrawEffect, Started, ValidateGCEffect
<1>6. ASSUME NEW c \in {"Wait", "Invalidate"}, NEW S \in SUBSET MPEs,
         CallDrain(c, S) PROVE TaskAccounting'
  BY <1>6 DEF CallDrain
<1>7. CASE FlushVertexBuffer
  BY <1>7, <1>flush DEF FlushEffect, Started, AfterFlush
<1>8. CASE FlushTail
  BY <1>8 DEF FlushTail, AfterFlush
<1>9. CASE Scan
  BY <1>9, NextIndex DEF Scan
<1>10. CASE Boot
  BY <1>10 DEF Boot
<1>11. CASE BootWait
  BY <1>11 DEF BootWait
<1>12. CASE Copy
  BY <1>12 DEF Copy
<1>13. CASE CounterLoad
  BY <1>13 DEF CounterLoad
<1>14. CASE CounterStore
  BY <1>14 DEF CounterStore
<1>15. CASE Send
  BY <1>15, <1>send DEF SendEffect, RenderReturn
<1>16. CASE DrainStep
  BY <1>16 DEF DrainStep
<1>17. CASE DrainFullDone
  BY <1>17 DEF DrainFullDone, AfterFlush
<1>18. CASE DrainDone
  BY <1>18 DEF DrainDone
<1>19. ASSUME NEW m \in MPEs, CommRecvInterrupt(m) PROVE TaskAccounting'
  BY <1>19 DEF CommRecvInterrupt
<1>20. ASSUME NEW m \in MPEs, CommSend(m) PROVE TaskAccounting'
  BY <1>20 DEF CommSend
<1>21. ASSUME NEW m \in MPEs, CommRecv(m) PROVE TaskAccounting'
  BY <1>21 DEF CommRecv
<1>22. ASSUME NEW m \in MPEs, RenderBlock(m) PROVE TaskAccounting'
  BY <1>22, <1>render DEF RenderBlockEffect
<1>23. CASE UNCHANGED vars
  BY <1>23 DEF vars
<1> QED
  BY <1>1, <1>2, <1>3, <1>4, <1>5, <1>6, <1>7, <1>8, <1>9, <1>10, <1>11, <1>12,
    <1>13, <1>14, <1>15, <1>16, <1>17, <1>18, <1>19, <1>20, <1>21, <1>22, <1>23
    DEF Next, App, Library, Renderer

(* No action changes the loader of an MPE that has a packet. *)
LEMMA LoaderMatchesPacketStep ==
  ASSUME LoaderMatchesPacket, TypeOK, CallInv, FlagInv, PickedInv,
    TaskAccounting, [Next]_vars
  PROVE  LoaderMatchesPacket'
<1>validate. ValidateGC => ValidateGCEffect
  BY ValidateGCFacts
<1>draw. \A b \in Buffers, f \in Formats, count \in Counts, n \in 0 .. NumMPEs
    + 1 :
          Draw(b, f, count, n) => DrawEffect(b)
  BY DrawFacts
<1>flush. FlushVertexBuffer => FlushEffect
  BY FlushFacts
<1>send. Send => SendEffect
  BY SendFacts
<1>render. \A m \in MPEs : RenderBlock(m) => RenderBlockEffect(m)
  BY RenderBlockFacts
<1> USE MPEsFacts DEF LoaderMatchesPacket, TypeOK, Locations, AppCalls,
    CallInv, RenderPcs, FlushCalls, FlagInv, PickedInv, TaskAccounting,
    Outstanding, One, glVars, bufVars, drawVars, mpeVars
<1>1. ASSUME NEW f \in Formats, ChangeState(f) PROVE LoaderMatchesPacket'
  BY <1>1 DEF ChangeState
<1>2. ASSUME NEW c \in {"Begin", "Flush", "Finish", "Swap"}, CallFlush(c) PROVE
    LoaderMatchesPacket'
  BY <1>2, <1>validate DEF CallFlush, ValidateGCEffect
<1>3. CASE Vertex
  BY <1>3 DEF Vertex
<1>4. CASE End
  BY <1>4 DEF End
<1>5. ASSUME NEW b \in Buffers, NEW f \in Formats, NEW count \in Counts,
         NEW n \in 0 .. NumMPEs + 1, Draw(b, f, count, n) PROVE
           LoaderMatchesPacket'
  BY <1>5, <1>draw DEF DrawEffect, Started, ValidateGCEffect
<1>6. ASSUME NEW c \in {"Wait", "Invalidate"}, NEW S \in SUBSET MPEs,
         CallDrain(c, S) PROVE LoaderMatchesPacket'
  BY <1>6 DEF CallDrain
<1>7. CASE FlushVertexBuffer
  BY <1>7, <1>flush DEF FlushEffect, Started, AfterFlush
<1>8. CASE FlushTail
  BY <1>8 DEF FlushTail, AfterFlush
<1>9. CASE Scan
  BY <1>9, NextIndex DEF Scan
<1>10. CASE Boot
  BY <1>10 DEF Boot
<1>11. CASE BootWait
  BY <1>11 DEF BootWait
<1>12. CASE Copy
  BY <1>12 DEF Copy
<1>13. CASE CounterLoad
  BY <1>13 DEF CounterLoad
<1>14. CASE CounterStore
  BY <1>14 DEF CounterStore
<1>15. CASE Send
  BY <1>15, <1>send DEF SendEffect, RenderReturn
<1>16. CASE DrainStep
  BY <1>16 DEF DrainStep
<1>17. CASE DrainFullDone
  BY <1>17 DEF DrainFullDone, AfterFlush
<1>18. CASE DrainDone
  BY <1>18 DEF DrainDone
<1>19. ASSUME NEW m \in MPEs, CommRecvInterrupt(m) PROVE LoaderMatchesPacket'
  BY <1>19 DEF CommRecvInterrupt
<1>20. ASSUME NEW m \in MPEs, CommSend(m) PROVE LoaderMatchesPacket'
  BY <1>20 DEF CommSend
<1>21. ASSUME NEW m \in MPEs, CommRecv(m) PROVE LoaderMatchesPacket'
  BY <1>21 DEF CommRecv
<1>22. ASSUME NEW m \in MPEs, RenderBlock(m) PROVE LoaderMatchesPacket'
  BY <1>22, <1>render DEF RenderBlockEffect
<1>23. CASE UNCHANGED vars
  BY <1>23 DEF vars
<1> QED
  BY <1>1, <1>2, <1>3, <1>4, <1>5, <1>6, <1>7, <1>8, <1>9, <1>10, <1>11, <1>12,
    <1>13, <1>14, <1>15, <1>16, <1>17, <1>18, <1>19, <1>20, <1>21, <1>22, <1>23
    DEF Next, App, Library, Renderer

(* No action leaves a packet that ends above the counters of the buffer. *)
LEMMA ReaderInvStep ==
  ASSUME ReaderInv, TypeOK, CallInv, FlagInv, PickedInv, TaskAccounting,
    [Next]_vars
  PROVE  ReaderInv'
<1>validate. ValidateGC => ValidateGCEffect
  BY ValidateGCFacts
<1>draw. \A b \in Buffers, f \in Formats, count \in Counts, n \in 0 .. NumMPEs
    + 1 :
          Draw(b, f, count, n) => DrawEffect(b)
  BY DrawFacts
<1>flush. FlushVertexBuffer => FlushEffect
  BY FlushFacts
<1>send. Send => SendEffect
  BY SendFacts
<1>render. \A m \in MPEs : RenderBlock(m) => RenderBlockEffect(m)
  BY RenderBlockFacts
<1> USE MPEsFacts DEF ReaderInv, Reading, Top, TypeOK, Locations, AppCalls,
    CallInv, RenderPcs, FlushCalls, FlagInv, PickedInv, TaskAccounting,
    Outstanding, One, glVars, bufVars, drawVars, mpeVars
<1>1. ASSUME NEW f \in Formats, ChangeState(f) PROVE ReaderInv'
  BY <1>1 DEF ChangeState
<1>2. ASSUME NEW c \in {"Begin", "Flush", "Finish", "Swap"}, CallFlush(c) PROVE
    ReaderInv'
  BY <1>2, <1>validate DEF CallFlush, ValidateGCEffect
<1>3. CASE Vertex
  <2>1. vertexSize[vertexFormat] \in {4, 8}
    BY VertexSizeValues
  <2>2. UNCHANGED <<commrecv, task>> /\ pc = "app" /\ pc' # "drainfull"
        /\ entry < entry' /\ entry \in Int /\ entry' \in Int
    BY <1>3, <2>1 DEF Vertex
  <2>3. ASSUME NEW m \in MPEs, NEW p \in Reading(m)', p.buf = GcBuffer
        PROVE  p.ptr + p.size <= entry'
    <3>1. p \in Reading(m) /\ p \in Packet
      BY <2>2, <2>3
    <3>2. p.ptr + p.size <= entry /\ p.ptr + p.size \in Int
      BY <2>2, <2>3, <3>1 DEF Packet
    <3> QED BY <2>2, <3>2
  <2> QED BY <2>2, <2>3
<1>4. CASE End
  BY <1>4 DEF End
<1>5. ASSUME NEW b \in Buffers, NEW f \in Formats, NEW count \in Counts,
         NEW n \in 0 .. NumMPEs + 1, Draw(b, f, count, n) PROVE ReaderInv'
  BY <1>5, <1>draw DEF DrawEffect, Started, ValidateGCEffect
<1>6. ASSUME NEW c \in {"Wait", "Invalidate"}, NEW S \in SUBSET MPEs,
         CallDrain(c, S) PROVE ReaderInv'
  BY <1>6 DEF CallDrain
<1>7. CASE FlushVertexBuffer
  BY <1>7, <1>flush DEF FlushEffect, Started, AfterFlush
<1>8. CASE FlushTail
  BY <1>8 DEF FlushTail, AfterFlush
<1>9. CASE Scan
  BY <1>9, NextIndex DEF Scan
<1>10. CASE Boot
  BY <1>10 DEF Boot
<1>11. CASE BootWait
  BY <1>11 DEF BootWait
<1>12. CASE Copy
  BY <1>12 DEF Copy
<1>13. CASE CounterLoad
  BY <1>13 DEF CounterLoad
<1>14. CASE CounterStore
  BY <1>14 DEF CounterStore
<1>15. CASE Send
  BY <1>15, <1>send DEF SendEffect, RenderReturn
<1>16. CASE DrainStep
  BY <1>16 DEF DrainStep
<1>17. CASE DrainFullDone
  <2>1. \A m \in MPEs : taskCounter[m] = 0
    BY <1>17 DEF DrainFullDone, MPEs
  <2>2. \A m \in MPEs : commrecv[m] = NoPacket /\ task[m] = NoPacket
    BY <2>1
  <2>3. UNCHANGED <<commrecv, task>> /\ pc' # "drainfull"
    BY <1>17 DEF DrainFullDone, AfterFlush
  <2> QED BY <2>2, <2>3
<1>18. CASE DrainDone
  <2>1. UNCHANGED <<commrecv, task>> /\ pc' = "app"
    BY <1>18 DEF DrainDone
  <2>2. CASE call = "Finish"
    <3>1. \A m \in MPEs : taskCounter[m] = 0
      BY <1>18, <2>2 DEF DrainDone, MPEs
    <3>2. \A m \in MPEs : commrecv[m] = NoPacket /\ task[m] = NoPacket
      BY <3>1
    <3> QED BY <2>1, <3>2
  <2>3. CASE call # "Finish"
    BY <1>18, <2>1, <2>3 DEF DrainDone
  <2> QED BY <2>2, <2>3
<1>19. ASSUME NEW m \in MPEs, CommRecvInterrupt(m) PROVE ReaderInv'
  BY <1>19 DEF CommRecvInterrupt
<1>20. ASSUME NEW m \in MPEs, CommSend(m) PROVE ReaderInv'
  BY <1>20 DEF CommSend
<1>21. ASSUME NEW m \in MPEs, CommRecv(m) PROVE ReaderInv'
  BY <1>21 DEF CommRecv
<1>22. ASSUME NEW m \in MPEs, RenderBlock(m) PROVE ReaderInv'
  BY <1>22, <1>render DEF RenderBlockEffect
<1>23. CASE UNCHANGED vars
  BY <1>23 DEF vars
<1> QED
  BY <1>1, <1>2, <1>3, <1>4, <1>5, <1>6, <1>7, <1>8, <1>9, <1>10, <1>11, <1>12,
    <1>13, <1>14, <1>15, <1>16, <1>17, <1>18, <1>19, <1>20, <1>21, <1>22, <1>23
    DEF Next, App, Library, Renderer

(* Every action that hands out or credits application data keeps the account *)
(* of who may still read it.                                                  *)
LEMMA BitfieldCoversReadersStep ==
  ASSUME BitfieldCoversReaders, TypeOK, CallInv, FlagInv, PickedInv,
    TaskAccounting, [Next]_vars
  PROVE  BitfieldCoversReaders'
<1>validate. ValidateGC => ValidateGCEffect
  BY ValidateGCFacts
<1>draw. \A b \in Buffers, f \in Formats, count \in Counts, n \in 0 .. NumMPEs
    + 1 :
          Draw(b, f, count, n) => DrawEffect(b)
  BY DrawFacts
<1>flush. FlushVertexBuffer => FlushEffect
  BY FlushFacts
<1>send. Send => SendEffect
  BY SendFacts
<1>render. \A m \in MPEs : RenderBlock(m) => RenderBlockEffect(m)
  BY RenderBlockFacts
<1> USE MPEsFacts DEF BitfieldCoversReaders, Reading, TypeOK, Locations,
    AppCalls, CallInv, RenderPcs, FlushCalls, FlagInv, PickedInv,
    TaskAccounting, Outstanding, One, glVars, bufVars, drawVars, mpeVars
<1>1. ASSUME NEW f \in Formats, ChangeState(f) PROVE BitfieldCoversReaders'
  BY <1>1 DEF ChangeState
<1>2. ASSUME NEW c \in {"Begin", "Flush", "Finish", "Swap"}, CallFlush(c) PROVE
    BitfieldCoversReaders'
  BY <1>2, <1>validate DEF CallFlush, ValidateGCEffect
<1>3. CASE Vertex
  BY <1>3 DEF Vertex
<1>4. CASE End
  BY <1>4 DEF End
<1>5. ASSUME NEW b \in Buffers, NEW f \in Formats, NEW count \in Counts,
         NEW n \in 0 .. NumMPEs + 1, Draw(b, f, count, n) PROVE
           BitfieldCoversReaders'
  BY <1>5, <1>draw DEF DrawEffect, Started, ValidateGCEffect
<1>6. ASSUME NEW c \in {"Wait", "Invalidate"}, NEW S \in SUBSET MPEs,
         CallDrain(c, S) PROVE BitfieldCoversReaders'
  BY <1>6 DEF CallDrain
<1>7. CASE FlushVertexBuffer
  BY <1>7, <1>flush DEF FlushEffect, Started, AfterFlush
<1>8. CASE FlushTail
  BY <1>8 DEF FlushTail, AfterFlush
<1>9. CASE Scan
  BY <1>9, NextIndex DEF Scan
<1>10. CASE Boot
  BY <1>10 DEF Boot
<1>11. CASE BootWait
  BY <1>11 DEF BootWait
<1>12. CASE Copy
  BY <1>12 DEF Copy
<1>13. CASE CounterLoad
  BY <1>13 DEF CounterLoad
<1>14. CASE CounterStore
  BY <1>14 DEF CounterStore
<1>15. CASE Send
  <2> SUFFICES ASSUME NEW m \in MPEs, NEW p \in Reading(m)',
                      p.buf # GcBuffer
               PROVE  \/ m \in owed'[p.buf]
                      \/ packet' # NoPacket /\ packet'.buf = p.buf /\ m \in
                        bits'
    OBVIOUS
  <2>1. SendEffect /\ p \in Packet /\ p.buf \in Buffers
    BY <1>15, <1>send DEF SendEffect, Packet
  <2>2. \/ p \in Reading(m)
        \/ m = idx /\ p = packet
    BY <2>1 DEF SendEffect
  <2>3. \/ m \in owed[p.buf]
        \/ packet.buf = p.buf /\ m \in bits
    BY <2>1, <2>2 DEF SendEffect
  <2>4. CASE RenderReturn
    BY <2>1, <2>3, <2>4 DEF SendEffect, RenderReturn
  <2>5. CASE ~RenderReturn
    BY <2>1, <2>3, <2>5 DEF SendEffect
  <2> QED BY <2>4, <2>5
<1>16. CASE DrainStep
  BY <1>16 DEF DrainStep
<1>17. CASE DrainFullDone
  BY <1>17 DEF DrainFullDone, AfterFlush
<1>18. CASE DrainDone
  <2>1. /\ UNCHANGED <<commrecv, task, packet, bits>>
        /\ packet = NoPacket
    BY <1>18 DEF DrainDone
  <2>2. \A m \in mask : commrecv[m] = NoPacket /\ task[m] = NoPacket
    <3>1. \A m \in mask : taskCounter[m] = 0
      BY <1>18 DEF DrainDone, MPEs
    <3> QED BY <3>1
  <2>3. \A b \in Buffers : owed[b] \ mask \subseteq owed'[b]
    BY <1>18 DEF DrainDone
  <2> QED BY <2>1, <2>2, <2>3 DEF Packet
<1>19. ASSUME NEW m \in MPEs, CommRecvInterrupt(m) PROVE BitfieldCoversReaders'
  BY <1>19 DEF CommRecvInterrupt
<1>20. ASSUME NEW m \in MPEs, CommSend(m) PROVE BitfieldCoversReaders'
  BY <1>20 DEF CommSend
<1>21. ASSUME NEW m \in MPEs, CommRecv(m) PROVE BitfieldCoversReaders'
  BY <1>21 DEF CommRecv
<1>22. ASSUME NEW m \in MPEs, RenderBlock(m) PROVE BitfieldCoversReaders'
  BY <1>22, <1>render DEF RenderBlockEffect
<1>23. CASE UNCHANGED vars
  BY <1>23 DEF vars
<1> QED
  BY <1>1, <1>2, <1>3, <1>4, <1>5, <1>6, <1>7, <1>8, <1>9, <1>10, <1>11, <1>12,
    <1>13, <1>14, <1>15, <1>16, <1>17, <1>18, <1>19, <1>20, <1>21, <1>22, <1>23
    DEF Next, App, Library, Renderer

(* While the format changes only on an empty buffer, every action leaves      *)
(* whole vertices in it, and room for one more when the application runs.     *)
LEMMA FillInvStep ==
  ASSUME FillInv, TypeOK, CallInv, FlagInv, ReaderInv, ~MixedFormats,
    [Next]_vars
  PROVE  FillInv'
<1>validate. ValidateGC => ValidateGCEffect
  BY ValidateGCFacts
<1>draw. \A b \in Buffers, f \in Formats, count \in Counts, n \in 0 .. NumMPEs
    + 1 :
          Draw(b, f, count, n) => DrawEffect(b)
  BY DrawFacts
<1>flush. FlushVertexBuffer => FlushEffect
  BY FlushFacts
<1>send. Send => SendEffect
  BY SendFacts
<1>render. \A m \in MPEs : RenderBlock(m) => RenderBlockEffect(m)
  BY RenderBlockFacts
<1>fits. vertexSize[vertexFormat] \in {4, 8}
  BY VertexSizeValues DEF TypeOK
<1>size. BufferSize \in Nat \ {0}
  BY DEF BufferSize
<1>empty. \A g \in AllFormats : WholeVertices(0, g)
  BY NoVertices
<1>more. pc = "app" =>
          /\ entry + vertexSize[vertexFormat] <= BufferSize
          /\ WholeVertices(entry + vertexSize[vertexFormat], vertexFormat)
  BY OneMoreVertex DEF TypeOK, FillInv
<1> USE <1>size, <1>empty
<1> USE MPEsFacts DEF FillInv, RenderPcs, TypeOK, Locations, AppCalls, CallInv,
    FlushCalls, FlagInv, ReaderInv, Reading, Top, glVars, bufVars, drawVars,
    mpeVars
<1>1. ASSUME NEW f \in Formats, ChangeState(f) PROVE FillInv'
  BY <1>1 DEF ChangeState
<1>2. ASSUME NEW c \in {"Begin", "Flush", "Finish", "Swap"}, CallFlush(c) PROVE
    FillInv'
  BY <1>2, <1>validate DEF CallFlush, ValidateGCEffect
<1>3. CASE Vertex
  BY <1>3, <1>fits, <1>more DEF Vertex
<1>4. CASE End
  BY <1>4 DEF End
<1>5. ASSUME NEW b \in Buffers, NEW f \in Formats, NEW count \in Counts,
         NEW n \in 0 .. NumMPEs + 1, Draw(b, f, count, n) PROVE FillInv'
  BY <1>5, <1>draw DEF DrawEffect, Started, ValidateGCEffect
<1>6. ASSUME NEW c \in {"Wait", "Invalidate"}, NEW S \in SUBSET MPEs,
         CallDrain(c, S) PROVE FillInv'
  BY <1>6 DEF CallDrain
<1>7. CASE FlushVertexBuffer
  BY <1>7, <1>flush DEF FlushEffect, Started, AfterFlush
<1>8. CASE FlushTail
  BY <1>8 DEF FlushTail, AfterFlush
<1>9. CASE Scan
  BY <1>9, NextIndex DEF Scan
<1>10. CASE Boot
  BY <1>10 DEF Boot
<1>11. CASE BootWait
  BY <1>11 DEF BootWait
<1>12. CASE Copy
  BY <1>12 DEF Copy
<1>13. CASE CounterLoad
  BY <1>13 DEF CounterLoad
<1>14. CASE CounterStore
  BY <1>14 DEF CounterStore
<1>15. CASE Send
  <2> HIDE DEF FlagInv, ReaderInv, TypeOK, FillInv, CallInv
  <2>1. SendEffect
    BY <1>15, <1>send
  <2>2. /\ UNCHANGED <<beginEndFlag, nextFormat, vertexFormat, gcDirty, entry,
                       entryStart>>
        /\ pc = "send" /\ call \in AppCalls
    BY <2>1 DEF SendEffect, TypeOK
  <2>3. CASE RenderReturn /\ call = "Draw"
    <3>1. pc' = "app" /\ call' = "none"
      BY <2>3 DEF RenderReturn
    <3>2. entry < BufferSize
      BY <2>2, <2>3 DEF FillInv, CallInv
    <3> QED BY <2>2, <2>3, <3>1, <3>2 DEF FillInv
  <2>4. CASE RenderReturn /\ call # "Draw"
    <3>1. pc' = "tail" /\ call' = call
      BY <2>4 DEF RenderReturn
    <3> QED BY <2>2, <3>1 DEF FillInv
  <2>5. CASE ~RenderReturn
    BY <2>1, <2>2, <2>5 DEF SendEffect, FillInv
  <2> QED BY <2>3, <2>4, <2>5
<1>16. CASE DrainStep
  BY <1>16 DEF DrainStep
<1>17. CASE DrainFullDone
  <2> HIDE DEF FlagInv, TypeOK
  <2>1. entry = 0
    BY <1>17 DEF DrainFullDone
  <2>2. /\ UNCHANGED <<nextFormat, vertexFormat, gcDirty, entry>>
        /\ entryStart' = entry /\ pc' \in {"app", "drain"}
        /\ beginEndFlag' = (beginEndFlag \/ call = "Begin")
        /\ call' \in {"none", "Finish", "Swap"}
    BY <1>17 DEF DrainFullDone, AfterFlush
  <2> QED BY <2>1, <2>2
<1>18. CASE DrainDone
  BY <1>18 DEF DrainDone
<1>19. ASSUME NEW m \in MPEs, CommRecvInterrupt(m) PROVE FillInv'
  BY <1>19 DEF CommRecvInterrupt
<1>20. ASSUME NEW m \in MPEs, CommSend(m) PROVE FillInv'
  BY <1>20 DEF CommSend
<1>21. ASSUME NEW m \in MPEs, CommRecv(m) PROVE FillInv'
  BY <1>21 DEF CommRecv
<1>22. ASSUME NEW m \in MPEs, RenderBlock(m) PROVE FillInv'
  BY <1>22, <1>render DEF RenderBlockEffect
<1>23. CASE UNCHANGED vars
  BY <1>23 DEF vars
<1> QED
  BY <1>1, <1>2, <1>3, <1>4, <1>5, <1>6, <1>7, <1>8, <1>9, <1>10, <1>11, <1>12,
    <1>13, <1>14, <1>15, <1>16, <1>17, <1>18, <1>19, <1>20, <1>21, <1>22, <1>23
    DEF Next, App, Library, Renderer

-----------------------------------------------------------------------------
(* The invariant. *)

LEMMA InitInv ==
  Init => IInv
<1> SUFFICES ASSUME Init PROVE IInv
  OBVIOUS
<1>1. TypeOK
  <2>1. /\ nextFormat \in Formats /\ vertexFormat \in AllFormats
        /\ entry \in Nat /\ entryStart \in Nat
        /\ pc \in Locations /\ call \in AppCalls
        /\ idx \in 0 .. NumMPEs /\ left \in 0 .. NumMPEs /\ reg \in Int
    BY DEF Init, AllFormats, Locations, AppCalls
  <2> QED BY <2>1 DEF Init, TypeOK
<1>2. CallInv /\ FlagInv /\ PickedInv
  BY DEF Init, CallInv, FlagInv, PickedInv, RenderPcs
<1>3. TaskAccounting /\ LoaderMatchesPacket
  BY DEF Init, TaskAccounting, Outstanding, One, LoaderMatchesPacket
<1>4. ReaderInv /\ BitfieldCoversReaders
  BY DEF Init, ReaderInv, BitfieldCoversReaders, Reading
<1> QED BY <1>1, <1>2, <1>3, <1>4 DEF IInv

LEMMA IInvStep ==
  IInv /\ [Next]_vars => IInv'
BY TypeOKStep, CallInvStep, FlagInvStep, PickedInvStep, TaskAccountingStep,
   LoaderMatchesPacketStep, ReaderInvStep, BitfieldCoversReadersStep DEF IInv

LEMMA Invariance ==
  Spec => []IInv
BY InitInv, IInvStep, PTL DEF Spec

(* Every variable keeps its type: the task counters never leave the integers, *)
(* and comm bus registers hold packets or nothing.                            *)
THEOREM TypeCorrect ==
  Spec => []TypeOK
BY Invariance, PTL DEF IInv

(* taskCounter++ in RenderDirect, the reset in ValidateMPE and the interrupt  *)
(* handler's decrement never lose or double a credit, and no MPE is ever      *)
(* given a second task.                                                       *)
THEOREM TaskAccountingCorrect ==
  Spec => []TaskAccounting
BY Invariance, PTL DEF IInv

(* A packet is handed over, and rendered, only with the vertex loader for its *)
(* layout in the MPE's memory.                                                *)
THEOREM LoaderCorrect ==
  Spec => []LoaderMatchesPacket
BY Invariance, PTL DEF IInv

(* An application that waits for the bitfields mglDrawBuffer returned, or     *)
(* calls glFinish, waits for every MPE that still reads its buffer.           *)
THEOREM BitfieldCorrect ==
  Spec => []BitfieldCoversReaders
BY Invariance, PTL DEF IInv

(* ValidateMPE writes into an MPE's memory only while the MPE is stopped or   *)
(* waiting for a packet.                                                      *)
THEOREM CopiesToIdle ==
  Spec => []CopiesToIdleMPE
<1>1. IInv => CopiesToIdleMPE
  <2> SUFFICES ASSUME IInv PROVE CopiesToIdleMPE
    OBVIOUS
  <2>1. pc \in {"boot", "copy"} => idx \in MPEs /\ taskCounter[idx] = 0
    BY MPEsFacts DEF IInv, TypeOK, CallInv, PickedInv, RenderPcs
  <2>2. pc \in {"boot", "copy"} => Outstanding(idx) = 0
    BY <2>1 DEF IInv, TaskAccounting
  <2>3. pc \in {"boot", "copy"} =>
          ~xmit[idx] /\ commrecv[idx] = NoPacket
          /\ mpePc[idx] \notin {"render", "comm_send"}
    BY <2>2 DEF Outstanding, One
  <2>4. pc = "boot" => mpePc[idx] = "halted"
    BY <2>1 DEF IInv, PickedInv, FlagInv
  <2>5. pc = "copy" => mpePc[idx] = "comm_recv"
    BY <2>1, <2>3 DEF IInv, TypeOK, PickedInv, FlagInv
  <2> QED BY <2>3, <2>4, <2>5 DEF CopiesToIdleMPE
<1> QED BY <1>1, Invariance, PTL

(* glVertex* stores inside the vertex buffer, provided that the application   *)
(* never changes the vertex format while vertices are buffered.               *)
THEOREM BoundsCorrect ==
  ASSUME ~MixedFormats
  PROVE  Spec => []InBounds
<1>1. Init => FillInv
  <2> SUFFICES ASSUME Init PROVE FillInv
    OBVIOUS
  <2>1. WholeVertices(0, vertexFormat)
    BY NoVertices DEF Init, AllFormats
  <2>2. BufferSize \in Nat \ {0}
    BY DEF BufferSize
  <2> QED BY <2>1, <2>2 DEF Init, FillInv, RenderPcs
<1>2. IInv /\ FillInv /\ [Next]_vars => FillInv'
  BY FillInvStep DEF IInv
<1>3. FillInv => InBounds
  BY DEF FillInv, InBounds
<1> QED BY <1>1, <1>2, <1>3, Invariance, PTL DEF Spec

(* A vertex is never stored where an MPE still has to read.  glVertex* is the *)
(* only step that raises entryCounter, and every packet ends at or below it.  *)
THEOREM NoOverwriteCorrect ==
  Spec => NoOverwrite
<1> DEFINE A == entry' > entry =>
                  \A m \in MPEs : \A p \in Reading(m) :
                    p.buf = GcBuffer => p.ptr + p.size <= entry
<1>1. IInv /\ [Next]_vars => [A]_vars
  <2> SUFFICES ASSUME IInv, [Next]_vars, entry' > entry
               PROVE  \A m \in MPEs : \A p \in Reading(m) :
                        p.buf = GcBuffer => p.ptr + p.size <= entry
    OBVIOUS
  <2>1. entry \in Nat
    BY DEF IInv, TypeOK
  <2>2. pc # "drainfull"
    BY <2>1 DEF Next, App, Library, Renderer, ChangeState, CallFlush, Vertex,
       End, Draw, CallDrain, FlushVertexBuffer, FlushTail, Scan, Boot, BootWait,
       Copy, CounterLoad, CounterStore, Send, DrainStep, DrainFullDone,
       DrainDone, CommRecvInterrupt, CommSend, CommRecv, RenderBlock, vars,
       bufVars
  <2> QED BY <2>2 DEF IInv, ReaderInv, Top
<1> QED BY <1>1, Invariance, PTL DEF Spec, NoOverwrite

(* When glFinish or mglSwapBuffers returns, nothing is being rendered, queued *)
(* or reported.                                                               *)
THEOREM FinishCorrect ==
  Spec => FinishMeansIdle
<1> DEFINE A == pc = "drain" /\ pc' = "app" /\ call \in {"Finish", "Swap"} =>
                  \A m \in MPEs : Outstanding(m) = 0
<1>1. IInv /\ [Next]_vars => [A]_vars
  <2> SUFFICES ASSUME IInv, [Next]_vars, pc = "drain", pc' = "app",
                      call \in {"Finish", "Swap"}, NEW m \in MPEs
               PROVE  Outstanding(m) = 0
    OBVIOUS
  <2>1. idx = NumMPEs
    BY DEF Next, App, Library, Renderer, ChangeState, CallFlush, Vertex,
       End, Draw, CallDrain, FlushVertexBuffer, FlushTail, Scan, Boot, BootWait,
       Copy, CounterLoad, CounterStore, Send, DrainStep, DrainFullDone,
       DrainDone, CommRecvInterrupt, CommSend, CommRecv, RenderBlock, vars
  <2>2. taskCounter[m] = 0
    BY <2>1 DEF IInv, CallInv, MPEs
  <2> QED BY <2>2 DEF IInv, TaskAccounting
<1> QED BY <1>1, Invariance, PTL DEF Spec, FinishMeansIdle

-----------------------------------------------------------------------------
(* Whom the library waits for. *)

(* An MPE that is stopped has no task: mglInvalidate*MPEs waits for it first. *)
HaltedInv == \A m \in MPEs : mpePc[m] = "halted" => taskCounter[m] = 0

LEMMA HaltedInvStep ==
  ASSUME IInv, HaltedInv, [Next]_vars
  PROVE  HaltedInv'
<1> USE DEF HaltedInv
<1>1. /\ mpePc \in [MPEs -> {"halted", "comm_send", "comm_recv", "render"}]
      /\ taskCounter \in [MPEs -> Int]
      /\ \A m \in MPEs : m \in Int /\ m < NumMPEs
  BY MPEsFacts DEF IInv, TypeOK, MPEs
<1>2. ASSUME UNCHANGED <<mpePc, taskCounter>>
      PROVE  HaltedInv'
  BY <1>2
<1>3. CASE Boot
  <2>1. idx \in MPEs
    BY <1>3, MPEsFacts DEF Boot, IInv, CallInv, TypeOK, RenderPcs
  <2> QED BY <1>1, <1>3, <2>1 DEF Boot
<1>4. CASE CounterStore
  <2>1. idx \in MPEs /\ mpeFlags[idx] = {}
    BY <1>4, MPEsFacts DEF CounterStore, IInv, CallInv, PickedInv, TypeOK, RenderPcs
  <2>2. mpePc[idx] # "halted"
    BY <2>1 DEF IInv, FlagInv
  <2> QED BY <1>1, <1>4, <2>1, <2>2 DEF CounterStore
<1>5. CASE DrainStep
  <2>1. /\ taskCounter' = taskCounter
        /\ \/ mpePc' = mpePc
           \/ /\ mpePc' = [mpePc EXCEPT ![idx] = "halted"]
              /\ taskCounter[idx] = 0
    BY <1>5 DEF DrainStep
  <2> QED BY <1>1, <2>1
<1>6. ASSUME NEW m \in MPEs, CommRecvInterrupt(m)
      PROVE  HaltedInv'
  <2>1. xmit[m]
    BY <1>6 DEF CommRecvInterrupt
  <2>2. taskCounter[m] # 0
    BY <2>1 DEF IInv, TaskAccounting, Outstanding, One
  <2> QED BY <1>1, <1>6, <2>2 DEF CommRecvInterrupt
<1>7. ASSUME NEW m \in MPEs, CommSend(m) \/ CommRecv(m)
      PROVE  HaltedInv'
  BY <1>1, <1>7 DEF CommSend, CommRecv
<1>8. ASSUME NEW m \in MPEs, RenderBlock(m)
      PROVE  HaltedInv'
  BY <1>1, <1>8 DEF RenderBlock
<1>9. CASE App
  BY <1>2, <1>9 DEF App, ChangeState, CallFlush, Vertex, End, Draw, CallDrain, mpeVars
<1>10. CASE FlushVertexBuffer \/ FlushTail \/ Scan \/ BootWait \/ Copy
            \/ CounterLoad \/ Send \/ DrainFullDone \/ DrainDone \/ UNCHANGED vars
  BY <1>2, <1>10 DEF FlushVertexBuffer, FlushTail, Scan, BootWait, Copy,
     CounterLoad, Send, DrainFullDone, DrainDone, vars, mpeVars
<1> QED
  BY <1>3, <1>4, <1>5, <1>6, <1>7, <1>8, <1>9, <1>10 DEF Next, Library, Renderer

(* No loop of the library waits for an MPE that is stopped or that waits for  *)
(* the library: whatever a task counter counts is under way without it.       *)
THEOREM WaitsForTheBusyCorrect ==
  Spec => []WaitsForTheBusy
<1>1. Init => HaltedInv
  BY DEF Init, HaltedInv
<1>2. IInv /\ HaltedInv /\ [Next]_vars => HaltedInv'
  BY HaltedInvStep
<1>3. IInv /\ HaltedInv => WaitsForTheBusy
  <2> SUFFICES ASSUME IInv, HaltedInv
               PROVE  WaitsForTheBusy
    OBVIOUS
  <2>1. ASSUME NEW m \in MPEs, taskCounter[m] # 0, ~(pc = "send" /\ idx = m)
        PROVE  Moving(m)
    <3>1. mpePc[m] \in {"comm_send", "comm_recv", "render"}
      BY <2>1 DEF HaltedInv, IInv, TypeOK
    <3>2. Outstanding(m) # 0
      BY <2>1 DEF IInv, TaskAccounting
    <3>3. xmit[m] \/ commrecv[m] # NoPacket \/ mpePc[m] \in {"render", "comm_send"}
      BY <2>1, <3>2 DEF Outstanding, One
    <3> QED BY <3>1, <3>3 DEF Moving
  <2>2. ASSUME pc = "send"
        PROVE  commrecv[idx] = NoPacket /\ mpePc[idx] = "comm_recv"
    <3>1. idx \in MPEs /\ mpeFlags[idx] = {}
      BY <2>2, MPEsFacts DEF IInv, CallInv, PickedInv, TypeOK, RenderPcs
    <3>2. Outstanding(idx) <= 1
      BY <3>1 DEF IInv, TaskAccounting
    <3>3. commrecv[idx] = NoPacket /\ mpePc[idx] \notin {"render", "comm_send"}
      BY <2>2, <3>2 DEF Outstanding, One
    <3>4. mpePc[idx] # "halted"
      BY <3>1 DEF IInv, FlagInv
    <3> QED BY <3>1, <3>3, <3>4 DEF IInv, TypeOK
  <2> QED BY <2>1, <2>2 DEF WaitsForTheBusy
<1> QED BY <1>1, <1>2, <1>3, Invariance, PTL DEF Spec

-----------------------------------------------------------------------------
(***************************************************************************)
(* The dispatcher implements the render service, for every number of MPEs, *)
(* every vertex buffer size and every application.                         *)
(***************************************************************************)

USE NoJobAssumption

(* The jobs and the top of the arena, as the service sees them. *)
JobsSame == \A m \in MPEs : JobOfMPE(m)' = JobOfMPE(m)
TopSame == Top' = Top

LEMMA ServiceStutter ==
  ASSUME JobsSame, TopSame
  PROVE  UNCHANGED Service!vars
BY DEF JobsSame, TopSame, Service!vars

(* A packet is a job. *)
LEMMA JobOfFacts ==
  ASSUME NEW p \in Packet
  PROVE  JobOf(p) \in Service!Job /\ JobOf(p) # NoPacket
<1>1. p.ptr + p.size \in Nat /\ p.buf \in Buffers \cup {GcBuffer}
  BY DEF Packet
<1> QED BY <1>1 DEF JobOf, Service!Job

(* An MPE without credit outstanding has no job. *)
LEMMA IdleHasNoJob ==
  ASSUME IInv, NEW m \in MPEs, taskCounter[m] = 0
  PROVE  JobOfMPE(m) = NoPacket
BY DEF IInv, TaskAccounting, Outstanding, One, JobOfMPE

(* A step that leaves alone what MPEs receive and render leaves the jobs      *)
(* alone.                                                                     *)
LEMMA SameJobs ==
  ASSUME UNCHANGED <<mpePc, commrecv, task>>
  PROVE  JobsSame
BY DEF JobsSame, JobOfMPE, JobOf

(* The steps of the application and of the controller outside RenderDirect.   *)
LEMMA VertexAppends ==
  ASSUME IInv, Vertex
  PROVE  \E n \in {4, 8} : Service!Append(n)
<1>1. vertexSize[vertexFormat] \in {4, 8}
  BY VertexSizeValues DEF IInv, TypeOK
<1>2. Top = entry /\ Top' = entry + vertexSize[vertexFormat]
  BY DEF Vertex, Top
<1>3. JobsSame
  BY SameJobs DEF Vertex, mpeVars
<1>4. ASSUME NEW m \in MPEs, JobOfMPE(m) # NoPacket, JobOfMPE(m).buf = GcBuffer
      PROVE  JobOfMPE(m).end <= Top
  <2>1. PICK p \in Reading(m) : JobOfMPE(m) = JobOf(p)
    BY <1>4 DEF JobOfMPE, Reading, IInv, FlagInv
  <2> QED BY <1>4, <2>1 DEF JobOf, IInv, ReaderInv
<1>5. Service!Append(vertexSize[vertexFormat])
  BY <1>2, <1>3, <1>4 DEF JobsSame, Service!Append
<1> QED BY <1>1, <1>5

LEMMA SendAssigns ==
  ASSUME IInv, Send
  PROVE  \E w \in MPEs : Service!Assign(w)
<1>1. SendEffect
  BY SendFacts DEF IInv
<1>2. Outstanding(idx) <= 1 /\ pc = "send" /\ idx \in MPEs
  BY <1>1 DEF SendEffect, IInv, TaskAccounting
<1> PICK k \in MPEs : k = idx
  BY <1>2
<1>3. JobOfMPE(k) = NoPacket
  BY <1>1, <1>2 DEF SendEffect, Outstanding, One, JobOfMPE
<1>4. /\ packet \in Packet /\ packet # NoPacket
      /\ commrecv' = [commrecv EXCEPT ![idx] = packet]
      /\ UNCHANGED <<mpePc, task, entry>>
      /\ commrecv \in [MPEs -> Packet \cup {NoPacket}]
  BY <1>1 DEF SendEffect, IInv, TypeOK
<1>5. JobOfMPE(k)' = JobOf(packet)
  BY <1>2, <1>4 DEF JobOfMPE, JobOf
<1>6. ASSUME NEW m \in MPEs, m # k PROVE JobOfMPE(m)' = JobOfMPE(m)
  <2>1. commrecv'[m] = commrecv[m] /\ mpePc'[m] = mpePc[m] /\ task'[m] = task[m]
    BY <1>4, <1>6
  <2> QED BY <2>1 DEF JobOfMPE, JobOf
<1>7. Top' = Top /\ Top = entry
  BY <1>1 DEF SendEffect, RenderReturn, Top
<1>8. packet.buf = GcBuffer => packet.ptr + packet.size = entry
  BY <1>2 DEF IInv, CallInv, RenderPcs
<1>9. JobOf(packet) \in Service!Job
      /\ (JobOf(packet).buf = GcBuffer => JobOf(packet).end = Top)
  BY <1>4, <1>7, <1>8, JobOfFacts DEF JobOf
<1>10. Service!Assign(k)
  <2> DEFINE job == [m \in MPEs |-> JobOfMPE(m)]
  <2>1. job' = [job EXCEPT ![k] = job'[k]]
    BY <1>2, <1>6
  <2>2. job[k] = NoPacket /\ job'[k] = JobOf(packet)
    BY <1>2, <1>3, <1>5
  <2> HIDE DEF job
  <2> QED BY <1>7, <1>9, <2>1, <2>2 DEF Service!Assign, job
<1> QED BY <1>2, <1>10

(* The last block of a packet completes its job. *)
LEMMA RenderBlockCompletes ==
  ASSUME IInv, NEW m \in MPEs, RenderBlock(m)
  PROVE  Service!Complete(m) \/ UNCHANGED Service!vars
<1>1. RenderBlockEffect(m)
  BY RenderBlockFacts DEF IInv
<1>2. /\ mpePc[m] = "render" /\ commrecv[m] = NoPacket
      /\ task[m] \in Packet /\ UNCHANGED commrecv /\ TopSame
      /\ task \in [MPEs -> Packet \cup {NoPacket}]
      /\ mpePc \in [MPEs -> {"halted", "comm_send", "comm_recv", "render"}]
  BY <1>1 DEF RenderBlockEffect, IInv, TypeOK, TaskAccounting, Outstanding, One,
     Top, TopSame
<1>3. JobOfMPE(m) = JobOf(task[m])
  BY <1>2 DEF JobOfMPE
<1>4. \A w \in MPEs \ {m} : JobOfMPE(w)' = JobOfMPE(w)
  BY <1>1, <1>2 DEF RenderBlockEffect, JobOfMPE, JobOf
<1>5. CASE UNCHANGED mpePc
  <2>1. PICK p \in Packet :
          /\ task' = [task EXCEPT ![m] = p] /\ p.buf = task[m].buf
          /\ p.ptr + p.size = task[m].ptr + task[m].size
    BY <1>1, <1>2, <1>5 DEF RenderBlockEffect
  <2>2. JobOfMPE(m)' = JobOf(p) /\ JobOf(p) = JobOf(task[m])
    BY <1>2, <1>5, <2>1 DEF JobOfMPE, JobOf
  <2>3. JobsSame
    BY <1>3, <1>4, <2>2 DEF JobsSame
  <2> QED BY <1>2, <2>3, ServiceStutter
<1>6. CASE mpePc' = [mpePc EXCEPT ![m] = "comm_send"]
  <2>1. JobOfMPE(m)' = NoPacket
    BY <1>2, <1>6 DEF JobOfMPE
  <2>2. JobOfMPE(m) # NoPacket
    BY <1>2, <1>3, JobOfFacts
  <2> QED BY <1>2, <1>4, <2>1, <2>2 DEF TopSame, Service!Complete
<1> QED BY <1>1, <1>5, <1>6 DEF RenderBlockEffect

(* When a wait for all MPEs is over, no MPE has a job. *)
LEMMA DrainedHaveNoJob ==
  ASSUME IInv, pc \in {"drain", "drainfull"}, idx = NumMPEs, mask = MPEs
  PROVE  \A m \in MPEs : JobOfMPE(m) = NoPacket
<1>1. \A m \in MPEs : taskCounter[m] = 0
  BY DEF IInv, CallInv, MPEs
<1> QED BY <1>1, IdleHasNoJob

LEMMA DrainFullRewinds ==
  ASSUME IInv, DrainFullDone
  PROVE  Service!Rewind
<1>1. call \in FlushCalls /\ entry = 0
  BY DEF DrainFullDone, IInv, CallInv, ReaderInv
<1>2. mask = MPEs
  BY <1>1 DEF DrainFullDone, IInv, CallInv, FlushCalls
<1>3. \A m \in MPEs : JobOfMPE(m) = NoPacket
  BY <1>2, DrainedHaveNoJob DEF DrainFullDone
<1>4. JobsSame
  BY SameJobs DEF DrainFullDone, mpeVars
<1>5. Top' = 0
  BY <1>1 DEF DrainFullDone, AfterFlush, Top
<1> QED BY <1>3, <1>4, <1>5 DEF JobsSame, Service!Rewind

LEMMA FinishRewinds ==
  ASSUME IInv, DrainDone
  PROVE  Service!Rewind \/ UNCHANGED Service!vars
<1>1. JobsSame /\ pc = "drain" /\ pc' = "app"
  BY SameJobs DEF DrainDone, mpeVars
<1>2. CASE call = "Finish"
  <2>1. \A m \in MPEs : JobOfMPE(m) = NoPacket
    BY <1>2, DrainedHaveNoJob DEF DrainDone, IInv, CallInv
  <2>2. Top' = 0
    BY <1>2 DEF DrainDone, Top
  <2> QED BY <1>1, <2>1, <2>2 DEF JobsSame, Service!Rewind
<1>3. CASE call # "Finish"
  <2>1. TopSame
    BY <1>3 DEF DrainDone, bufVars, Top, TopSame
  <2> QED BY <1>1, <2>1, ServiceStutter
<1> QED BY <1>2, <1>3

(* Receiving a packet, booting and halting an MPE do not touch its job. *)
LEMMA CommRecvStutters ==
  ASSUME IInv, NEW m \in MPEs, CommRecv(m)
  PROVE  UNCHANGED Service!vars
<1>1. /\ mpePc[m] = "comm_recv" /\ commrecv[m] # NoPacket
      /\ mpePc' = [mpePc EXCEPT ![m] = "render"]
      /\ commrecv' = [commrecv EXCEPT ![m] = NoPacket]
      /\ task' = [task EXCEPT ![m] = commrecv[m]]
  BY DEF CommRecv
<1>2. /\ mpePc'[m] = "render" /\ commrecv'[m] = NoPacket
      /\ task'[m] = commrecv[m]
  BY <1>1 DEF IInv, TypeOK
<1>3. JobOfMPE(m)' = JobOfMPE(m)
  BY <1>1, <1>2 DEF JobOfMPE, JobOf
<1>4. ASSUME NEW w \in MPEs, w # m PROVE JobOfMPE(w)' = JobOfMPE(w)
  <2>1. commrecv'[w] = commrecv[w] /\ mpePc'[w] = mpePc[w] /\ task'[w] = task[w]
    BY <1>1, <1>4 DEF IInv, TypeOK
  <2> QED BY <2>1 DEF JobOfMPE, JobOf
<1>5. JobsSame
  BY <1>3, <1>4 DEF JobsSame
<1>6. TopSame
  BY DEF CommRecv, bufVars, Top, TopSame
<1> QED BY <1>5, <1>6, ServiceStutter

LEMMA HaltAndBootStutter ==
  ASSUME IInv, UNCHANGED <<commrecv, task>>, TopSame,
         NEW k \in MPEs, NEW l \in {"halted", "comm_send"},
         mpePc[k] # "render", mpePc' = [mpePc EXCEPT ![k] = l]
  PROVE  UNCHANGED Service!vars
<1>1. \A m \in MPEs : (mpePc'[m] = "render") <=> (mpePc[m] = "render")
  BY DEF IInv, TypeOK
<1>2. JobsSame
  BY <1>1 DEF JobsSame, JobOfMPE, JobOf
<1> QED BY <1>2, ServiceStutter

LEMMA BootStutters ==
  ASSUME IInv, Boot
  PROVE  UNCHANGED Service!vars
<1>1. idx \in MPEs
  BY MPEsFacts DEF Boot, IInv, TypeOK, CallInv, RenderPcs
<1>2. mpePc[idx] = "halted"
  BY <1>1 DEF Boot, IInv, PickedInv, FlagInv
<1>3. TopSame /\ UNCHANGED <<commrecv, task>>
      /\ mpePc' = [mpePc EXCEPT ![idx] = "comm_send"]
  BY DEF Boot, bufVars, Top, TopSame
<1> QED BY <1>1, <1>2, <1>3, HaltAndBootStutter

LEMMA DrainStepStutters ==
  ASSUME IInv, DrainStep
  PROVE  UNCHANGED Service!vars
<1>1. idx \in MPEs /\ UNCHANGED <<commrecv, task>>
  BY DEF DrainStep, IInv, TypeOK, MPEs
<1>2. TopSame
  BY DEF DrainStep, bufVars, Top, TopSame
<1>3. CASE call = "Invalidate" /\ idx \in mask
  <2>1. taskCounter[idx] = 0 /\ mpePc' = [mpePc EXCEPT ![idx] = "halted"]
    BY <1>3 DEF DrainStep
  <2>2. mpePc[idx] # "render"
    BY <1>1, <2>1 DEF IInv, TaskAccounting, Outstanding, One
  <2> QED BY <1>1, <1>2, <2>1, <2>2, HaltAndBootStutter
<1>4. CASE ~(call = "Invalidate" /\ idx \in mask)
  <2>1. JobsSame
    BY <1>1, <1>4, SameJobs DEF DrainStep
  <2> QED BY <1>2, <2>1, ServiceStutter
<1> QED BY <1>3, <1>4

(* Clearing entryCounter of a full buffer does not free it yet. *)
LEMMA FlushTailStutters ==
  ASSUME IInv, FlushTail
  PROVE  UNCHANGED Service!vars
<1>1. JobsSame
  BY SameJobs DEF FlushTail, mpeVars
<1>2. TopSame
  BY DEF FlushTail, AfterFlush, Top, TopSame
<1> QED BY <1>1, <1>2, ServiceStutter

-----------------------------------------------------------------------------
LEMMA InitImplements ==
  Init => Service!Init
BY DEF Init, Service!Init, JobOfMPE, Top

LEMMA StepImplements ==
  IInv /\ [Next]_vars => [Service!Next]_Service!vars
<1> SUFFICES ASSUME IInv, [Next]_vars
             PROVE  Service!Next \/ UNCHANGED Service!vars
  OBVIOUS
<1>1. ASSUME NEW f \in Formats, ChangeState(f) PROVE UNCHANGED Service!vars
  BY <1>1, SameJobs, ServiceStutter DEF ChangeState, mpeVars, bufVars, Top, TopSame
<1>2. ASSUME NEW c \in {"Begin", "Flush", "Finish", "Swap"}, CallFlush(c)
      PROVE  UNCHANGED Service!vars
  BY <1>2, SameJobs, ServiceStutter DEF CallFlush, bufVars, Top, TopSame
<1>3. CASE Vertex
  BY <1>3, VertexAppends DEF Service!Next
<1>4. CASE End
  BY <1>4, SameJobs, ServiceStutter DEF End, mpeVars, bufVars, Top, TopSame
<1>5. ASSUME NEW b \in Buffers, NEW f \in Formats, NEW count \in Counts,
         NEW n \in 0 .. NumMPEs + 1, Draw(b, f, count, n)
      PROVE  UNCHANGED Service!vars
  <2>1. DrawEffect(b)
    BY <1>5, DrawFacts DEF IInv
  <2> QED BY <2>1, SameJobs, ServiceStutter DEF DrawEffect, Started, Top, TopSame
<1>6. ASSUME NEW c \in {"Wait", "Invalidate"}, NEW S \in SUBSET MPEs,
         CallDrain(c, S)
      PROVE  UNCHANGED Service!vars
  BY <1>6, SameJobs, ServiceStutter DEF CallDrain, mpeVars, bufVars, Top, TopSame
<1>7. CASE FlushVertexBuffer
  <2>1. FlushEffect
    BY <1>7, FlushFacts DEF IInv
  <2> QED BY <2>1, SameJobs, ServiceStutter
          DEF FlushEffect, Started, AfterFlush, Top, TopSame
<1>8. CASE FlushTail
  BY <1>8, FlushTailStutters
<1>9. CASE Scan \/ BootWait \/ CounterLoad
  BY <1>9, SameJobs, ServiceStutter
     DEF Scan, BootWait, CounterLoad, mpeVars, bufVars, Top, TopSame
<1>10. CASE Boot
  BY <1>10, BootStutters
<1>11. CASE Copy \/ CounterStore
  BY <1>11, SameJobs, ServiceStutter DEF Copy, CounterStore, bufVars, Top, TopSame
<1>12. CASE Send
  BY <1>12, SendAssigns DEF Service!Next
<1>13. CASE DrainStep
  BY <1>13, DrainStepStutters
<1>14. CASE DrainFullDone
  BY <1>14, DrainFullRewinds DEF Service!Next
<1>15. CASE DrainDone
  BY <1>15, FinishRewinds DEF Service!Next
<1>16. ASSUME NEW m \in MPEs, CommRecvInterrupt(m) \/ CommSend(m) \/ CommRecv(m)
                              \/ RenderBlock(m)
       PROVE  Service!Next \/ UNCHANGED Service!vars
  <2>1. CASE CommRecvInterrupt(m)
    BY <2>1, SameJobs, ServiceStutter DEF CommRecvInterrupt, bufVars, Top, TopSame
  <2>2. CASE CommSend(m)
    <3>1. mpePc[m] = "comm_send" /\ UNCHANGED <<commrecv, task>>
          /\ mpePc' = [mpePc EXCEPT ![m] = "comm_recv"]
      BY <2>2 DEF CommSend
    <3>2. \A w \in MPEs : (mpePc'[w] = "render") <=> (mpePc[w] = "render")
      BY <3>1 DEF IInv, TypeOK
    <3>3. JobsSame
      BY <3>1, <3>2 DEF JobsSame, JobOfMPE, JobOf
    <3>4. TopSame
      BY <2>2 DEF CommSend, bufVars, Top, TopSame
    <3> QED BY <3>3, <3>4, ServiceStutter
  <2>3. CASE CommRecv(m)
    BY <2>3, CommRecvStutters
  <2>4. CASE RenderBlock(m)
    BY <2>4, RenderBlockCompletes DEF Service!Next
  <2> QED BY <1>16, <2>1, <2>2, <2>3, <2>4
<1>17. CASE UNCHANGED vars
  BY <1>17, SameJobs, ServiceStutter DEF vars, mpeVars, bufVars, Top, TopSame
<1>18. CASE App
  <2>1. \A b \in Buffers : owed[b] \in SUBSET MPEs
    BY DEF IInv, TypeOK
  <2> QED BY <1>1, <1>2, <1>3, <1>4, <1>5, <1>6, <1>18, <2>1 DEF App
<1>19. CASE Library
  BY <1>7, <1>8, <1>9, <1>10, <1>11, <1>12, <1>13, <1>14, <1>15, <1>19
     DEF Library
<1> QED
  BY <1>16, <1>17, <1>18, <1>19 DEF Next, Renderer

(* Every behaviour of the dispatcher is one of the render service: workers    *)
(* get a job only when they have none, vertices are appended only above what  *)
(* is being read, and the arena is rewound only when nothing is.              *)
THEOREM DispatcherImplementsService ==
  Spec => ImplementsService
BY InitImplements, StepImplements, Invariance, PTL
   DEF Spec, ImplementsService, Service!Spec
=============================================================================
