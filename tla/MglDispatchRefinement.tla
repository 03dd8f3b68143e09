----------------------- MODULE MglDispatchRefinement -----------------------
(***************************************************************************)
(* The dispatcher implements the render service.                           *)
(***************************************************************************)
EXTENDS MglDispatch

ASSUME NoJobAssumption ==
  NoPacket \notin [buf : Buffers \cup {GcBuffer}, end : Nat]

(* The end of a packet stays where it is while the loader advances. *)
JobOf(p) == [buf |-> p.buf, end |-> p.ptr + p.size]

(* A job is on its way in the receive register, or being rendered. *)
JobOfMPE(m) ==
  IF commrecv[m] # NoPacket THEN JobOf(commrecv[m])
  ELSE IF mpePc[m] = "render" THEN JobOf(task[m]) ELSE NoPacket

(* FlushVertexBuffer clears the counters of a full buffer before it waits:    *)
(* the buffer is not free until the wait is over.                             *)
Top == IF pc = "drainfull" THEN BufferSize ELSE entry

Service == INSTANCE RenderService WITH
             Workers <- MPEs, AppBuffers <- Buffers, Arena <- GcBuffer,
             NoJob <- NoPacket, job <- [m \in MPEs |-> JobOfMPE(m)], top <- Top

(* Every behaviour of the dispatcher is one of the service: an MPE is given   *)
(* work only when it has none, a vertex is stored only above what is being    *)
(* read, and the buffer is rewound only when all rendering is over.           *)
ImplementsService == Service!Spec

(* With the library, the interrupts and the MPEs running, every job is        *)
(* eventually rendered.                                                       *)
ImplementsFairService == Service!FairSpec
=============================================================================
