------------------------------ MODULE MglSwap ------------------------------
(***************************************************************************)
(* Screen buffers in mGL: mglSwapBuffers, mglVideoSync, glDrawBuffer,      *)
(* glClear and the buffers that rendering MPEs write to.  The video        *)
(* hardware scans out one buffer; _VidConfig names another, which takes    *)
(* its place when the next field begins.  The library keeps the number of  *)
(* the field in which it last called _VidConfig and waits for another one  *)
(* before it calls it again.                                               *)
(*                                                                         *)
(* Sources: mgl.c, api.c.  Field numbers are compared for equality only:   *)
(* the model keeps whether a field has begun since the number was taken (a *)
(* wait of 2^32 fields is left out).  Bad* are slips that break a property.*)
(***************************************************************************)
EXTENDS Integers

CONSTANTS
  BufferCounts, (* numbers of buffers that applications call mglInit with    *)
  DrawModes,    (* arguments of glDrawBuffer                                 *)
  NoBuffer      (* nothing is displayed yet                                  *)

Modes == {"FRONT", "BACK", "NONE"}

ASSUME SwapAssumption ==
  /\ BufferCounts \subseteq Nat \ {0}
  /\ DrawModes \subseteq Modes
  /\ NoBuffer \notin Int

VARIABLES
  numBuffers,    \* gc->numBuffers
  frontBuffer,   \* gc->frontBuffer
  backBuffer,    \* gc->backBuffer
  drawBuffer,    \* gc->drawBuffer
  renderBuffer,  \* gc->renderBuffer
  newField,      \* a field has begun since gc->fieldcount was taken
  configured,    \* buffer of the last _VidConfig
  displayed,     \* buffer that is scanned out
  work,          \* what MPEs are rendering: buffer, and the mode it was asked in
  synced,        \* mglVideoSync has returned since the last swap
  pc             \* where the library is

vars == <<numBuffers, frontBuffer, backBuffer, drawBuffer, renderBuffer,
          newField, configured, displayed, work, synced, pc>>
bufferVars == <<numBuffers, frontBuffer, backBuffer, drawBuffer, renderBuffer>>
videoVars == <<newField, configured, displayed>>

Screens == 0 .. numBuffers - 1

Init ==
  /\ numBuffers \in BufferCounts
  /\ frontBuffer = 0 /\ backBuffer = 1
  /\ IF numBuffers > 1 THEN drawBuffer = "BACK" /\ renderBuffer = 1
                       ELSE drawBuffer = "FRONT" /\ renderBuffer = 0
  /\ newField \in BOOLEAN            \* fieldcount is 0, the field number anything
  /\ configured = NoBuffer /\ displayed = NoBuffer
  /\ work = {}
  /\ synced = TRUE
  /\ pc = "app"

-----------------------------------------------------------------------------
(* With two buffers an application waits for the field after each swap:       *)
(* sample/mgl/room/main.c:195 "Wait for video sync if double buffered, else   *)
(* move on".                                                                  *)
MayDraw == pc = "app" /\ (numBuffers < 3 => synced)

(* glVertex, mglDrawBuffer...: packets go out for the render buffer. *)
Draw ==
  /\ MayDraw
  /\ work' = work \cup {[buf |-> renderBuffer, mode |-> drawBuffer]}
  /\ UNCHANGED <<bufferVars, videoVars, synced, pc>>

(* glClear waits for the MPEs, then fills the buffer by DMA of its own; with  *)
(* GL_NONE it returns at once.                                                *)
glClear ==
  /\ MayDraw
  /\ drawBuffer # "NONE"
  /\ work = {}
  /\ work' = {[buf |-> renderBuffer, mode |-> drawBuffer]}
  /\ pc' = "clear"
  /\ UNCHANGED <<bufferVars, videoVars, synced>>

ClearDone ==
  /\ pc = "clear"
  /\ work' = {}
  /\ pc' = "app"
  /\ UNCHANGED <<bufferVars, videoVars, synced>>

glDrawBuffer(m) ==
  LET mode == IF m = "BACK" /\ numBuffers = 1 THEN "FRONT" ELSE m
  IN  /\ pc = "app"
      /\ drawBuffer' = mode
      /\ renderBuffer' = CASE mode = drawBuffer -> renderBuffer
                           [] mode # drawBuffer /\ mode = "FRONT" -> frontBuffer
                           [] mode # drawBuffer /\ mode = "BACK" -> backBuffer
                           [] OTHER -> renderBuffer
      /\ UNCHANGED <<numBuffers, frontBuffer, backBuffer, videoVars, work,
                     synced, pc>>

(* mglSwapBuffers is called... *)
mglSwapBuffers ==
  /\ pc = "app"
  /\ pc' = "finish"
  /\ synced' = FALSE
  /\ UNCHANGED <<bufferVars, videoVars, work>>

(* The MPEs are not waited for. *)
BadFinish ==
  /\ pc = "finish"
  /\ pc' = "pending"
  /\ UNCHANGED <<bufferVars, videoVars, work, synced>>

(* ... waits for the MPEs... *)
Finish ==
  /\ pc = "finish"
  /\ work = {}
  /\ pc' = "pending"
  /\ UNCHANGED <<bufferVars, videoVars, work, synced>>

(* The comparison is the wrong way round. *)
BadWait ==
  /\ pc = "pending"
  /\ ~newField
  /\ pc' = "advance"
  /\ UNCHANGED <<bufferVars, videoVars, work, synced>>

(* ... and for the field that shows the buffer of the last swap... *)
Pending ==
  /\ pc = "pending"
  /\ newField
  /\ pc' = "advance"
  /\ UNCHANGED <<bufferVars, videoVars, work, synced>>

(* The render buffer stays where it is. *)
BadAdvance ==
  /\ pc = "advance"
  /\ frontBuffer' = IF frontBuffer + 1 = numBuffers THEN 0 ELSE frontBuffer + 1
  /\ backBuffer' = IF backBuffer + 1 = numBuffers THEN 0 ELSE backBuffer + 1
  /\ pc' = "config"
  /\ UNCHANGED <<numBuffers, drawBuffer, renderBuffer, videoVars, work, synced>>

(* ... turns the buffers round... *)
Advance ==
  /\ pc = "advance"
  /\ frontBuffer' = IF frontBuffer + 1 = numBuffers THEN 0 ELSE frontBuffer + 1
  /\ backBuffer' = IF backBuffer + 1 = numBuffers THEN 0 ELSE backBuffer + 1
  /\ renderBuffer' = CASE drawBuffer = "FRONT" -> frontBuffer'
                       [] drawBuffer = "BACK" -> backBuffer'
                       [] OTHER -> -1
  /\ pc' = "config"
  /\ UNCHANGED <<numBuffers, drawBuffer, videoVars, work, synced>>

(* ... hands the front buffer to _VidConfig... *)
Config ==
  /\ pc = "config"
  /\ configured' = frontBuffer
  /\ pc' = "count"
  /\ UNCHANGED <<bufferVars, newField, displayed, work, synced>>

(* The field number is not taken. *)
BadCount ==
  /\ pc = "count"
  /\ pc' = "app"
  /\ UNCHANGED <<bufferVars, videoVars, work, synced>>

(* ... and takes the number of the field. *)
Count ==
  /\ pc = "count"
  /\ newField' = FALSE
  /\ pc' = "app"
  /\ UNCHANGED <<bufferVars, configured, displayed, work, synced>>

(* mglVideoSync. *)
CallVideoSync ==
  /\ pc = "app" /\ ~synced
  /\ pc' = "sync"
  /\ UNCHANGED <<bufferVars, videoVars, work, synced>>

(* No field is waited for. *)
BadVideoSync ==
  /\ pc = "sync"
  /\ synced' = TRUE
  /\ pc' = "app"
  /\ UNCHANGED <<bufferVars, videoVars, work>>

mglVideoSync ==
  /\ pc = "sync"
  /\ newField
  /\ synced' = TRUE
  /\ pc' = "app"
  /\ UNCHANGED <<bufferVars, videoVars, work>>

-----------------------------------------------------------------------------
(* Video hardware and BIOS: a field begins, and shows what is configured. *)
Field ==
  /\ newField' = TRUE
  /\ displayed' = configured
  /\ UNCHANGED <<bufferVars, configured, work, synced, pc>>

(* The MPEs are done with a buffer. *)
RenderDone ==
  /\ pc # "clear"
  /\ \E w \in work : work' = work \ {w}
  /\ UNCHANGED <<bufferVars, videoVars, synced, pc>>

App ==
  \/ Draw \/ glClear \/ mglSwapBuffers \/ CallVideoSync
  \/ \E m \in DrawModes : glDrawBuffer(m)

Library ==
  \/ ClearDone \/ Finish \/ Pending \/ Advance \/ Config \/ Count \/ mglVideoSync

Next == App \/ Library \/ Field \/ RenderDone

Spec == Init /\ [][Next]_vars

(* The library's code runs on, fields follow one another, MPEs get done. *)
FairSpec == Spec /\ WF_vars(Library) /\ WF_vars(Field) /\ WF_vars(RenderDone)

-----------------------------------------------------------------------------
TypeOK ==
  /\ numBuffers \in BufferCounts
  /\ frontBuffer \in Screens /\ backBuffer \in Nat
  /\ drawBuffer \in Modes /\ renderBuffer \in Int
  /\ newField \in BOOLEAN /\ synced \in BOOLEAN
  /\ configured \in Screens \cup {NoBuffer}
  /\ displayed \in Screens \cup {NoBuffer}
  /\ work \subseteq [buf : Int, mode : Modes]
  /\ pc \in {"app", "clear", "finish", "pending", "advance", "config", "count",
             "sync"}

(* What is rendered into the back buffer is never on the screen, and will not *)
(* be with the next field (mgl.c:499-528), whether two buffers are used with  *)
(* mglVideoSync or three without.                                             *)
NoTearing ==
  \A w \in work : w.mode = "BACK" => w.buf \notin {displayed, configured}

(* mgl.c:500 "Check for pending buffer swap and sit on it if so": no frame is *)
(* replaced by the next one before a field has shown it.                      *)
EveryFrameShown ==
  [][configured' # configured => displayed = configured]_vars

(* The frame handed to the video hardware is finished: no MPE still renders   *)
(* into it when it is configured.                                             *)
FrameFinished ==
  [][configured' # configured =>
       \A w \in work : w.buf # configured']_vars

(* The buffer that is cleared and rendered into, screenBuffer[renderBuffer],  *)
(* is one of the application's screens (api.c:158, pipeline.c).               *)
RenderBufferExists == renderBuffer \in Screens

(* Every call returns. *)
CallsReturn == pc # "app" ~> pc = "app"

(* mglSwapBuffers and glDrawBuffer(GL_BACK) keep the promises of a frame      *)
(* queue: what is rendered in that mode is a frame, which gets on the screen  *)
(* when it is finished, after the frame before it and untouched.              *)
Frames == INSTANCE FrameQueue WITH
  drawn <- {w.buf : w \in {v \in work : v.mode = "BACK"}},
  next <- configured,
  shown <- displayed,
  late <- {}

ImplementsFrames == Frames!Spec
=============================================================================
