-------------------------- MODULE MglDispatchInv --------------------------
(***************************************************************************)
(* The inductive invariant of MglDispatch: why the dispatcher's safety     *)
(* properties hold.  TLC checks it on small instances, MglDispatchProofs   *)
(* proves it.                                                              *)
(***************************************************************************)
EXTENDS MglDispatchRefinement

(* RenderDirect is executing. *)
RenderPcs == {"scan", "boot", "bootwait", "copy", "load", "store", "send"}

(* The calls that run FlushVertexBuffer. *)
FlushCalls == {"Begin", "Vertex", "End", "Flush", "Finish", "Swap"}

(* The locals of the call in progress. *)
CallInv ==
  /\ pc \in RenderPcs <=> packet # NoPacket
  /\ pc \in RenderPcs =>
       /\ idx < NumMPEs
       /\ packet.fmt = vertexFormat
       /\ call \in FlushCalls \cup {"Draw"}
       /\ call = "Draw" <=> packet.buf # GcBuffer
       /\ packet.buf = GcBuffer => packet.ptr + packet.size = entry
  /\ pc = "app" => call = "none"
  /\ pc \in {"flush", "tail", "drainfull"} => call \in FlushCalls
  /\ pc \in {"drain", "drainfull"} =>
       /\ mask = MPEs \/ call \in {"Wait", "Invalidate"}
       /\ \A m \in mask : m < idx => taskCounter[m] = 0

(* Who has VAL_MPE_INVALIDATED set, who is halted, and what is loaded. *)
FlagInv ==
  \A m \in MPEs :
    /\ mpePc[m] = "halted" <=> "INVALIDATED" \in mpeFlags[m]
    /\ mpePc[m] = "render" <=> task[m] # NoPacket
    /\ mpeFlags[m] = {} => loader[m] = vertexFormat

(* What RenderDirect knows of the MPE it has picked. *)
PickedInv ==
  /\ pc \in RenderPcs \ {"scan"} => idx \in bits
  /\ pc = "boot" => "INVALIDATED" \in mpeFlags[idx]
  /\ pc \in {"bootwait", "copy"} => "INVALIDATED" \notin mpeFlags[idx]
  /\ pc \in {"load", "store", "send"} => mpeFlags[idx] = {}
  /\ pc \in {"boot", "copy", "load", "store"} => taskCounter[idx] = 0
  /\ pc = "store" => reg = 0

(* Everything still to be read from gc->vertexBuffer lies below Top. *)
ReaderInv ==
  /\ \A m \in MPEs : \A p \in Reading(m) :
       p.buf = GcBuffer => p.ptr + p.size <= Top
  /\ pc = "drainfull" => entry = 0

IInv ==
  /\ TypeOK /\ CallInv /\ FlagInv /\ PickedInv
  /\ TaskAccounting /\ LoaderMatchesPacket /\ ReaderInv /\ BitfieldCoversReaders

(* While the format changes only on an empty buffer, the vertices in it are   *)
(* of one size, which divides the size of the buffer: entryCounter meets the  *)
(* end of the buffer exactly.                                                 *)
WholeVertices(n, f) == n % vertexSize[f] = 0

FillInv ==
  /\ ~gcDirty => vertexFormat = nextFormat
  /\ beginEndFlag \/ call = "Begin" => vertexFormat = nextFormat
  /\ entry # 0 => vertexFormat = nextFormat
  /\ WholeVertices(entry, vertexFormat)
  /\ entry <= BufferSize
  /\ pc \in {"app", "drain"} \/ call = "Draw" => entry < BufferSize
  /\ pc \in {"app", "flush", "drain"} \cup RenderPcs =>
       entryStart <= entry /\ entryStart < BufferSize
=============================================================================
