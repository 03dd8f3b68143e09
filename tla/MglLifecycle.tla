---------------------------- MODULE MglLifecycle ----------------------------
(***************************************************************************)
(* The life of an mGL context: mglInit allocates it, the rendering MPEs,   *)
(* the texture object list and the default texture and takes the comm bus  *)
(* interrupt; any of these may fail, and then mglEnd, which also ends a    *)
(* context in use, gives back what there is.  Meanwhile the application    *)
(* makes, binds and deletes textures, and MPEs that have been given work   *)
(* report to whoever owns the interrupt.                                   *)
(*                                                                         *)
(* Source: mgl.c, with the interrupt handler of glmutils.s.  A block of    *)
(* memory is "null" (its pointer is NULL), "live" or "freed" (the pointer  *)
(* dangles).  Which free MPE the BIOS gives is left open.  Bad* are slips  *)
(* that break a property.                                                  *)
(***************************************************************************)
EXTENDS Integers, FiniteSets

CONSTANTS
  MPEs,          (* the MPEs of the chip that the BIOS may give away         *)
  NumMPEs,       (* as many the application asks for, at most                *)
  Textures,      (* textures the application may hold at once                *)
  Disciplined    (* the application calls mglEnd once per mglInit that       *)
                 (* returned 0                                               *)

Blocks == {"null", "live", "freed"}
Vectors == {"none", "app", "mgl"}
InitPcs == {"mpes", "vector", "texobj", "deftex", "fill"}
EndPcs == {"end", "endtextures", "endvector", "endmpes"}

ASSUME LifecycleAssumption ==
  /\ NumMPEs \in Nat \ {0}
  /\ IsFiniteSet(MPEs)
  /\ Disciplined \in BOOLEAN
  /\ "default" \notin Textures

VARIABLES
  gc,              \* the context
  mpes,            \* MPEs in gc->mpe, of those in mglEnd's loop the remaining
  halted,          \* the one of these that is stopped and not freed yet
  oldVector,       \* gc->oldCommRecvInterrupt
  texObj,          \* gc->texObj
  defaultTexture,  \* gc->defaultTexture
  bound,           \* gc->texObj[0].texture[0]
  textureEnable,   \* gc->texture1DEnable || gc->texture2DEnable
  heap,            \* live textures of the application
  found,           \* what the comm bus receive vector was before mGL
  vector,          \* BIOS: that vector; "none" is NULL
  allocated,       \* BIOS: MPEs given to mGL
  taken,           \* BIOS: MPEs given to somebody else
  running,         \* MPEs that execute mGL code
  busy,            \* those of them that have work to report
  packets,         \* MPEs whose report is on its way
  inited,          \* the last mglInit returned 0, and mglEnd was not called
  pc

texVars == <<texObj, defaultTexture, bound, textureEnable, heap>>
mpeVars == <<mpes, halted, allocated, taken, running, busy, packets>>
vectorVars == <<oldVector, found, vector>>
vars == <<gc, texVars, mpeVars, vectorVars, inited, pc>>

Init ==
  /\ gc = "null" /\ mpes = {} /\ halted = {} /\ oldVector = "none"
  /\ texObj = "null" /\ defaultTexture = "null" /\ bound = "default"
  /\ textureEnable = FALSE /\ heap = {}
  /\ found \in {"none", "app"} /\ vector = found
  /\ allocated = {} /\ taken \in SUBSET MPEs
  /\ running = {} /\ busy = {} /\ packets = {}
  /\ inited = FALSE
  /\ pc = "app"

-----------------------------------------------------------------------------
(* mglInit: a context that is all zero, or none. *)
mglInit ==
  /\ pc = "app"
  /\ Disciplined => ~inited
  /\ \/ /\ gc' = "null"                            \* calloc fails: mglEnd
        /\ inited' = FALSE                         \* returns at once
        /\ UNCHANGED <<mpes, oldVector, texVars, pc>>
     \/ /\ gc' = "live" /\ mpes' = {} /\ oldVector' = "none"
        /\ texObj' = "null" /\ defaultTexture' = "null" /\ bound' = "default"
        /\ textureEnable' = FALSE
        /\ inited' = FALSE
        /\ pc' = "mpes"
        /\ UNCHANGED heap
  /\ UNCHANGED <<found, vector, halted, allocated, taken, running, busy, packets>>

(* One MPE after the other, until enough or no more; without any, mglEnd. *)
AllocMPE ==
  LET free == MPEs \ (allocated \cup taken)
      done == Cardinality(mpes) = NumMPEs \/ free = {}
  IN  /\ pc = "mpes"
      /\ \/ /\ ~done
            /\ \E m \in free :
                 mpes' = mpes \cup {m} /\ allocated' = allocated \cup {m}
            /\ UNCHANGED pc
         \/ /\ done
            /\ pc' = IF mpes = {} THEN "end" ELSE "vector"
            /\ UNCHANGED <<mpes, allocated>>
      /\ UNCHANGED <<gc, texVars, halted, taken, running, busy, packets,
                     vectorVars, inited>>

(* The handler that was there is not kept. *)
BadTakeVector ==
  /\ pc = "vector"
  /\ vector' = "mgl"
  /\ pc' = "texobj"
  /\ UNCHANGED <<gc, texVars, mpeVars, oldVector, found, inited>>

TakeVector ==
  /\ pc = "vector"
  /\ oldVector' = vector /\ vector' = "mgl"
  /\ pc' = "texobj"
  /\ UNCHANGED <<gc, texVars, mpeVars, found, inited>>

(* mglInit returns -1 without a call of mglEnd. *)
BadTexObj ==
  /\ pc = "texobj"
  /\ \/ pc' = "app" /\ UNCHANGED texObj
     \/ texObj' = "live" /\ pc' = "deftex"
  /\ UNCHANGED <<gc, defaultTexture, bound, textureEnable, heap, mpeVars,
                 vectorVars, inited>>

(* The texture object list, or mglEnd. *)
TexObj ==
  /\ pc = "texobj"
  /\ \/ pc' = "end" /\ UNCHANGED texObj
     \/ texObj' = "live" /\ pc' = "deftex"
  /\ UNCHANGED <<gc, defaultTexture, bound, textureEnable, heap, mpeVars,
                 vectorVars, inited>>

(* The default texture.  If there is no memory for it, the release build      *)
(* (no DEBUG_ASSERT) goes on with a NULL pointer.                             *)
DefaultTexture ==
  /\ pc = "deftex"
  /\ defaultTexture' = "live" \/ UNCHANGED defaultTexture
  /\ pc' = "fill"
  /\ UNCHANGED <<gc, texObj, bound, textureEnable, heap, mpeVars, vectorVars,
                 inited>>

(* Its pixels are written, it is bound, and mglInit returns 0. *)
FillDefault ==
  /\ pc = "fill"
  /\ bound' = "default"
  /\ inited' = TRUE
  /\ pc' = "app"
  /\ UNCHANGED <<gc, texObj, defaultTexture, textureEnable, heap, mpeVars,
                 vectorVars>>

-----------------------------------------------------------------------------
(* The application uses the context. *)
InUse == pc = "app" /\ inited

(* A texture is allocated, whole or not at all. *)
mglNewTexture ==
  /\ InUse
  /\ \E t \in Textures \ heap : heap' = heap \cup {t}
  /\ UNCHANGED <<gc, texObj, defaultTexture, bound, textureEnable, mpeVars,
                 vectorVars, inited, pc>>

mglSetTexture ==
  /\ InUse
  /\ bound' \in heap \cup {"default"}             \* NULL: the default texture
  /\ UNCHANGED <<gc, texObj, defaultTexture, textureEnable, heap, mpeVars,
                 vectorVars, inited, pc>>

(* The texture stays bound. *)
BadRelease(t) == heap' = heap \ {t} /\ UNCHANGED bound

(* mglDeleteTexture's effect: what is deleted is not bound any more. *)
Release(t) ==
  /\ heap' = heap \ {t}
  /\ bound' = IF bound = t THEN "default" ELSE bound

mglDeleteTexture ==
  /\ InUse
  /\ \E t \in heap : Release(t)
  /\ UNCHANGED <<gc, texObj, defaultTexture, textureEnable, mpeVars,
                 vectorVars, inited, pc>>

(* glEnable and glDisable of texturing. *)
Texturing ==
  /\ InUse
  /\ textureEnable' = ~textureEnable
  /\ UNCHANGED <<gc, texObj, defaultTexture, bound, heap, mpeVars, vectorVars,
                 inited, pc>>

(* RenderDirect gives an idle MPE work, having started it if necessary. *)
Render ==
  /\ InUse
  /\ \E m \in mpes \ (busy \cup packets) :
       running' = running \cup {m} /\ busy' = busy \cup {m}
  /\ UNCHANGED <<gc, texVars, mpes, halted, allocated, taken, packets,
                 vectorVars, inited, pc>>

-----------------------------------------------------------------------------
(* mglEnd, whatever the MPEs are doing.  A context it has freed itself passes *)
(* the test for one that was never allocated, for gc is not set to NULL.      *)
mglEnd ==
  /\ pc = "app"
  /\ Disciplined => inited
  /\ gc # "null"
  /\ inited' = FALSE
  /\ pc' = "end"
  /\ UNCHANGED <<gc, texVars, mpeVars, vectorVars>>

EndDefault ==
  /\ pc = "end"
  /\ defaultTexture' = IF defaultTexture = "null" THEN "null" ELSE "freed"
  /\ pc' = "endtextures"
  /\ UNCHANGED <<gc, texObj, bound, textureEnable, heap, mpeVars, vectorVars,
                 inited>>

(* The context goes with its textures. *)
BadEndTextures ==
  /\ pc = "endtextures"
  /\ gc' = "freed"
  /\ IF texObj = "null"
     THEN UNCHANGED <<texObj, bound, heap>>
     ELSE Release(bound) /\ texObj' = "freed"
  /\ pc' = "endvector"
  /\ UNCHANGED <<defaultTexture, textureEnable, mpeVars, vectorVars, inited>>

(* The bound texture and the texture list.  If texturing is on, the pixel     *)
(* type of the default texture is read here for the last time (mgl.c:389).    *)
EndTextures ==
  /\ pc = "endtextures"
  /\ IF texObj = "null"
     THEN UNCHANGED <<texObj, bound, heap>>
     ELSE Release(bound) /\ texObj' = "freed"
  /\ pc' = "endvector"
  /\ UNCHANGED <<gc, defaultTexture, textureEnable, mpeVars, vectorVars, inited>>

(* A NULL vector is not put back: mGL's handler stays. *)
EndVector ==
  /\ pc = "endvector"
  /\ vector' = IF oldVector = "none" THEN vector ELSE oldVector
  /\ pc' = "endmpes"
  /\ UNCHANGED <<gc, texVars, mpeVars, oldVector, found, inited>>

(* An MPE is freed before it is stopped. *)
BadEndMPEs ==
  /\ pc = "endmpes"
  /\ \/ /\ halted = {}
        /\ \E m \in mpes : halted' = {m} /\ allocated' = allocated \ {m}
        /\ UNCHANGED <<gc, mpes, running, busy, pc>>
     \/ /\ halted # {} /\ halted' = {}
        /\ mpes' = mpes \ halted
        /\ running' = running \ halted /\ busy' = busy \ halted
        /\ UNCHANGED <<gc, allocated, pc>>
     \/ /\ mpes = {} /\ gc' = "freed" /\ pc' = "app"
        /\ UNCHANGED <<mpes, halted, allocated, running, busy>>
  /\ UNCHANGED <<texVars, taken, packets, vectorVars, inited>>

(* Each MPE is stopped, then freed; after the last, the context is freed.     *)
(* What a stopped MPE has sent is on its way all the same.                    *)
EndMPEs ==
  /\ pc = "endmpes"
  /\ \/ /\ halted = {}
        /\ \E m \in mpes :
             halted' = {m} /\ running' = running \ {m} /\ busy' = busy \ {m}
        /\ UNCHANGED <<gc, mpes, allocated, pc>>
     \/ /\ halted # {} /\ halted' = {}
        /\ mpes' = mpes \ halted /\ allocated' = allocated \ halted
        /\ UNCHANGED <<gc, running, busy, pc>>
     \/ /\ mpes = {} /\ gc' = "freed" /\ pc' = "app"
        /\ UNCHANGED <<mpes, halted, allocated, running, busy>>
  /\ UNCHANGED <<texVars, taken, packets, vectorVars, inited>>

-----------------------------------------------------------------------------
(* A busy MPE is done, and reports. *)
Report ==
  /\ \E m \in busy : busy' = busy \ {m} /\ packets' = packets \cup {m}
  /\ UNCHANGED <<gc, texVars, mpes, halted, allocated, taken, running,
                 vectorVars, inited, pc>>

(* The report interrupts the controller and goes to the handler of the day;   *)
(* mGL's decrements a counter in the context.                                 *)
CommRecvInterrupt ==
  /\ \E m \in packets : packets' = packets \ {m}
  /\ UNCHANGED <<gc, texVars, mpes, halted, allocated, taken, running, busy,
                 vectorVars, inited, pc>>

InitSteps == AllocMPE \/ TakeVector \/ TexObj \/ DefaultTexture \/ FillDefault
Use == mglNewTexture \/ mglSetTexture \/ mglDeleteTexture \/ Texturing \/ Render
EndSteps == EndDefault \/ EndTextures \/ EndVector \/ EndMPEs

Next ==
  \/ mglInit \/ InitSteps \/ Use \/ mglEnd \/ EndSteps
  \/ Report \/ CommRecvInterrupt

Spec == Init /\ [][Next]_vars

-----------------------------------------------------------------------------
TypeOK ==
  /\ gc \in Blocks /\ texObj \in Blocks /\ defaultTexture \in Blocks
  /\ bound \in Textures \cup {"default"} /\ textureEnable \in BOOLEAN
  /\ heap \subseteq Textures
  /\ {oldVector, found, vector} \subseteq Vectors
  /\ mpes \subseteq MPEs /\ halted \subseteq MPEs
  /\ allocated \subseteq MPEs /\ taken \subseteq MPEs
  /\ running \subseteq MPEs /\ busy \subseteq MPEs /\ packets \subseteq MPEs
  /\ inited \in BOOLEAN
  /\ pc \in {"app"} \cup InitPcs \cup EndPcs

(* Whatever mglInit failed at and whenever mglEnd was called, nothing mGL     *)
(* allocated is left over while no context is in use (mgl.c:423-473 and the   *)
(* error returns of mglInit).                                                 *)
NoLeak ==
  pc = "app" /\ ~inited =>
    gc # "live" /\ texObj # "live" /\ defaultTexture # "live" /\ allocated = {}

(* mgl.c:455 "restore old comm bus interrupt": while no context is in use,    *)
(* the comm bus vector is the one that mGL found.  Where that was NULL,       *)
(* mGL's own is left in place (mgl.c:457).                                    *)
VectorRestored ==
  pc = "app" /\ ~inited => vector = found \/ (found = "none" /\ vector = "mgl")

(* mglEnd may be called while MPEs draw and report: a report that meets mGL's *)
(* handler still finds the context with the task counter allocated            *)
(* (glmutils.s:37-50, mgl.c:455-470), unless the vector before mGL was NULL,  *)
(* for then the handler outlives the context.                                 *)
ReportsMeetContext ==
  packets # {} /\ vector = "mgl" => gc = "live" \/ found = "none"

(* An MPE that runs mGL code is mGL's at every step of mglEnd's loop, which   *)
(* stops (mgl.c:464) and frees (mgl.c:465) MPEs that may still be drawing.    *)
OnlyOwnMPEsRun == running \subseteq allocated

(* The bound texture, which every draw may copy to an MPE, has not been       *)
(* deleted, and neither has the default texture that takes its place.         *)
BoundTextureLive ==
  InUse => defaultTexture # "freed" /\ bound \in heap \cup {"default"}

(* mgl.c:428 "ensure that graphics context is allocated": mglEnd works on a   *)
(* live context.                                                              *)
EndsLiveContext == pc \in EndPcs => gc = "live"
=============================================================================
