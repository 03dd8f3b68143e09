--------------------------- MODULE RenderService ---------------------------
(***************************************************************************)
(* What the mGL dispatcher promises, without packets, counters or waiting  *)
(* loops: a pool of workers that render jobs out of shared vertex buffers. *)
(* One of the buffers is a bump allocator that the library fills; the      *)
(* others belong to the application.  A job may be handed only to a worker *)
(* that has none, the allocator is rewound only when no worker has a job,  *)
(* and everything handed out is eventually rendered.                       *)
(***************************************************************************)
EXTENDS Integers

CONSTANTS
  Workers,
  AppBuffers,
  Arena,          (* the library's vertex buffer, not in AppBuffers *)
  NoJob           (* not in Job *)

(* A job reads its buffer up to, but not including, position end. *)
Job == [buf : AppBuffers \cup {Arena}, end : Nat]

VARIABLES
  job,            \* what each worker still has to render
  top             \* the first free position of the arena

vars == <<job, top>>

TypeOK ==
  /\ job \in [Workers -> Job \cup {NoJob}]
  /\ top \in Nat

Init ==
  /\ job = [w \in Workers |-> NoJob]
  /\ top = 0

(* The application appends to the arena: nothing is being read up there. *)
Append(n) ==
  /\ \A w \in Workers : job[w] # NoJob /\ job[w].buf = Arena => job[w].end <= top
  /\ top' = top + n
  /\ UNCHANGED job

(* Work is handed to a worker that has none. *)
Assign(w) ==
  /\ job[w] = NoJob
  /\ job'[w] \in Job
  /\ job'[w].buf = Arena => job'[w].end = top
  /\ job' = [job EXCEPT ![w] = job'[w]]
  /\ UNCHANGED top

Complete(w) ==
  /\ job[w] # NoJob
  /\ job' = [job EXCEPT ![w] = NoJob]
  /\ UNCHANGED top

(* The arena is used again from its start. *)
Rewind ==
  /\ \A w \in Workers : job[w] = NoJob
  /\ top' = 0
  /\ UNCHANGED job

Next ==
  \/ \E n \in {4, 8} : Append(n)
  \/ \E w \in Workers : Assign(w) \/ Complete(w)
  \/ Rewind

Spec == Init /\ [][Next]_vars

Fairness == \A w \in Workers : WF_vars(Complete(w))

FairSpec == Spec /\ Fairness
=============================================================================
