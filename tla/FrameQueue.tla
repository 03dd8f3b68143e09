---------------------------- MODULE FrameQueue ----------------------------
(***************************************************************************)
(* What the screen buffers of a library promise to the program that draws  *)
(* frames, whether they are those of mGL or of M3DL: a frame is handed to  *)
(* the video encoder when nothing is drawn into it any more, not before    *)
(* the frame handed over last is on the screen, and nobody begins to draw  *)
(* into a buffer that is on the screen or comes there with the next field. *)
(* A library may leave it to the program to wait for the drawing; a frame  *)
(* that is handed over early then stays marked until all drawing is done.  *)
(* How many buffers there are and in which order they take turns is left   *)
(* open.                                                                   *)
(***************************************************************************)

CONSTANT NoBuffer (* nothing is displayed yet *)

VARIABLES
  drawn,   \* buffers that somebody draws into, or has been told to
  next,    \* the buffer handed over last
  shown,   \* the buffer on the screen
  late     \* buffers handed over early

vars == <<drawn, next, shown, late>>

Init == drawn = {} /\ next = NoBuffer /\ shown = NoBuffer /\ late = {}

Draw ==
  /\ drawn \subseteq drawn'
  /\ {next, shown} \cap (drawn' \ drawn) = {}
  /\ UNCHANGED <<next, shown, late>>

Finish ==
  /\ drawn' \subseteq drawn
  /\ UNCHANGED <<next, shown, late>>

(* It is known that everything has been drawn. *)
AllDone ==
  /\ drawn = {}
  /\ late' = {}
  /\ UNCHANGED <<drawn, next, shown>>

HandOver ==
  /\ next = shown
  /\ next' \notin drawn \cup {NoBuffer}
  /\ UNCHANGED <<drawn, shown, late>>

HandOverEarly ==
  /\ next = shown
  /\ next' # NoBuffer
  /\ late' = late \cup {next'}
  /\ UNCHANGED <<drawn, shown>>

Field == shown' = next /\ UNCHANGED <<drawn, next, late>>

Next == Draw \/ Finish \/ AllDone \/ HandOver \/ HandOverEarly \/ Field

Spec == Init /\ [][Next]_vars
=============================================================================
