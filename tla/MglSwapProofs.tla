--------------------------- MODULE MglSwapProofs ---------------------------
(***************************************************************************)
(* Proofs about MglSwap for every number of screen buffers: why rendering  *)
(* never reaches a displayed buffer, why no frame is lost, and why a frame *)
(* is finished when it is handed over.                                     *)
(***************************************************************************)
EXTENDS MglSwap, TLAPS

(* The buffer after b in the ring. *)
Succ(b) == IF b + 1 = numBuffers THEN 0 ELSE b + 1

(* The swap is past its first wait: no MPE renders. *)
Swapping == {"pending", "advance", "config", "count"}

(* The back buffer follows the front buffer, and the render buffer is the one *)
(* that the mode names.                                                       *)
RingInv ==
  /\ numBuffers > 1 => backBuffer = Succ(frontBuffer)
  /\ "NONE" \notin DrawModes => drawBuffer # "NONE"
  /\ drawBuffer = "BACK" => renderBuffer = backBuffer /\ numBuffers > 1
  /\ drawBuffer = "FRONT" => renderBuffer = frontBuffer

(* What is rendered in GL_BACK mode goes to the back buffer. *)
WorkInv ==
  /\ \A w \in work : w.mode = "BACK" => w.buf = backBuffer /\ numBuffers > 1
  /\ pc \in Swapping => work = {}

(* The front buffer is configured, except on the way to _VidConfig; the one   *)
(* displayed is that or the one before; and a new field leaves no doubt.      *)
VideoInv ==
  /\ pc # "config" => configured \in {frontBuffer, NoBuffer}
  /\ pc = "config" /\ configured # NoBuffer => frontBuffer = Succ(configured)
  /\ displayed \in {configured, NoBuffer} \/ configured = Succ(displayed)
  /\ newField /\ pc # "count" => displayed = configured
  /\ pc \in {"advance", "config"} => newField

(* While the application has heard from mglVideoSync, or MPEs still do what   *)
(* it then asked for, no swap is pending.                                     *)
SyncInv ==
  /\ synced => pc \in {"app", "clear"} /\ displayed = configured
  /\ numBuffers < 3 /\ work # {} => displayed = configured
  /\ numBuffers < 3 /\ pc = "clear" => synced

IInv == TypeOK /\ RingInv /\ WorkInv /\ VideoInv /\ SyncInv

-----------------------------------------------------------------------------
(* The initial state satisfies the invariant. *)
LEMMA InitIInv == Init => IInv
<1> SUFFICES ASSUME Init
             PROVE  IInv
  OBVIOUS
<1> USE SwapAssumption
<1>1. TypeOK
  BY DEF Init, TypeOK, Screens, Modes
<1>2. RingInv /\ WorkInv
  BY DEF Init, RingInv, WorkInv, Succ, Swapping
<1>3. VideoInv /\ SyncInv
  BY DEF Init, VideoInv, SyncInv
<1> QED BY <1>1, <1>2, <1>3 DEF IInv

(* A buffer's successor is a buffer too, and with more than one buffer it is  *)
(* another one; with more than two the successor's successor is a third.      *)
LEMMA SuccFacts ==
  ASSUME TypeOK, NEW b \in Screens
  PROVE  /\ Succ(b) \in Screens
         /\ numBuffers > 1 => Succ(b) # b
         /\ numBuffers > 2 => Succ(Succ(b)) # b
BY SwapAssumption DEF Succ, Screens, TypeOK

(* Every step keeps the types. *)
LEMMA TypeOKStep ==
  ASSUME TypeOK, [Next]_vars
  PROVE  TypeOK'
<1> USE SwapAssumption DEF TypeOK, Screens, bufferVars, videoVars
<1>1. CASE Draw
  BY <1>1 DEF Draw
<1>2. CASE glClear
  BY <1>2 DEF glClear
<1>3. CASE mglSwapBuffers
  BY <1>3 DEF mglSwapBuffers
<1>4. CASE CallVideoSync
  BY <1>4 DEF CallVideoSync
<1>5. ASSUME NEW m \in DrawModes, glDrawBuffer(m)
      PROVE  TypeOK'
  <2>1. m \in Modes /\ "FRONT" \in Modes
    BY DEF Modes
  <2>2. drawBuffer' \in Modes
    BY <1>5, <2>1 DEF glDrawBuffer
  <2>3. frontBuffer \in Int /\ backBuffer \in Int /\ renderBuffer \in Int
    BY DEF Screens
  <2>4. renderBuffer' \in Int
    BY <1>5, <2>3 DEF glDrawBuffer
  <2> QED BY <1>5, <2>2, <2>4 DEF glDrawBuffer
<1>6. CASE ClearDone
  BY <1>6 DEF ClearDone
<1>7. CASE Finish
  BY <1>7 DEF Finish
<1>8. CASE Pending
  BY <1>8 DEF Pending
<1>9. CASE Advance
  <2>1. frontBuffer' \in Screens /\ backBuffer' \in Nat
    BY <1>9 DEF Advance, Screens
  <2>2. renderBuffer' \in Int
    BY <1>9, <2>1 DEF Advance, Screens
  <2> QED BY <1>9, <2>1, <2>2 DEF Advance
<1>10. CASE Config
  BY <1>10 DEF Config
<1>11. CASE Count
  BY <1>11 DEF Count
<1>12. CASE mglVideoSync
  BY <1>12 DEF mglVideoSync
<1>13. CASE Field
  BY <1>13 DEF Field
<1>14. CASE RenderDone
  BY <1>14 DEF RenderDone
<1>15. CASE UNCHANGED vars
  BY <1>15 DEF vars
<1> QED BY <1>1, <1>2, <1>3, <1>4, <1>5, <1>6, <1>7, <1>8, <1>9, <1>10, <1>11,
           <1>12, <1>13, <1>14, <1>15 DEF Next, App, Library

(* Only glDrawBuffer and a swap touch the ring. *)
LEMMA RingStep ==
  ASSUME TypeOK, RingInv, [Next]_vars
  PROVE  RingInv'
<1>1. ASSUME NEW m \in DrawModes, glDrawBuffer(m)
      PROVE  RingInv'
  <2>1. UNCHANGED <<numBuffers, frontBuffer, backBuffer>>
    BY <1>1 DEF glDrawBuffer
  <2> QED BY <1>1, <2>1, SwapAssumption DEF glDrawBuffer, RingInv, Succ, Modes, TypeOK
<1>2. CASE Advance
  <2>1. frontBuffer' = Succ(frontBuffer) /\ UNCHANGED <<numBuffers, drawBuffer>>
    BY <1>2 DEF Advance, Succ
  <2>2. numBuffers > 1 => backBuffer' = Succ(frontBuffer')
    BY <1>2, <2>1 DEF Advance, RingInv, Succ
  <2> QED BY <1>2, <2>1, <2>2 DEF Advance, RingInv, Succ
<1>3. CASE UNCHANGED bufferVars
  BY <1>3 DEF bufferVars, RingInv, Succ
<1> QED BY <1>1, <1>2, <1>3 DEF Next, App, Library, vars, bufferVars, Draw,
           glClear, mglSwapBuffers, CallVideoSync, ClearDone, Finish, Pending,
           Config, Count, mglVideoSync, Field, RenderDone

(* Work is asked for in the application only, and is done before a swap turns *)
(* the back buffer round.                                                     *)
LEMMA WorkStep ==
  ASSUME TypeOK, RingInv, WorkInv, [Next]_vars
  PROVE  WorkInv'
<1>1. CASE Draw
  BY <1>1 DEF Draw, MayDraw, RingInv, WorkInv, Swapping, bufferVars
<1>2. CASE glClear
  BY <1>2 DEF glClear, MayDraw, RingInv, WorkInv, Swapping, bufferVars
<1>3. CASE Finish
  BY <1>3 DEF Finish, WorkInv, Swapping
<1>4. CASE Advance
  BY <1>4 DEF Advance, WorkInv, Swapping
<1>5. CASE /\ work' \subseteq work /\ UNCHANGED <<numBuffers, backBuffer>>
           /\ pc' \in Swapping => pc \in Swapping \/ work' = {}
  BY <1>5 DEF WorkInv
<1>6. CASE RenderDone
  BY <1>6, <1>5 DEF RenderDone, bufferVars
<1>7. CASE ClearDone
  BY <1>7, <1>5 DEF ClearDone, bufferVars
<1>8. CASE \E m \in DrawModes : glDrawBuffer(m)
  BY <1>8, <1>5 DEF glDrawBuffer
<1>9. CASE mglSwapBuffers \/ CallVideoSync \/ Pending \/ Config \/ Count
           \/ mglVideoSync \/ Field \/ UNCHANGED vars
  BY <1>9, <1>5 DEF mglSwapBuffers, CallVideoSync, Pending, Config, Count,
     mglVideoSync, Field, vars, bufferVars, Swapping
<1> QED BY <1>1, <1>2, <1>3, <1>4, <1>6, <1>7, <1>8, <1>9 DEF Next, App, Library

(* A swap waits for a new field, which shows what was configured last. *)
LEMMA VideoStep ==
  ASSUME TypeOK, VideoInv, [Next]_vars
  PROVE  VideoInv'
<1> USE SwapAssumption DEF TypeOK, VideoInv
<1>1. CASE Pending
  BY <1>1 DEF Pending, bufferVars, videoVars, Succ
<1>2. CASE Advance
  <2>1. frontBuffer' = Succ(frontBuffer)
    BY <1>2 DEF Advance, Succ
  <2> QED BY <1>2, <2>1 DEF Advance, videoVars, Succ
<1>3. CASE Config
  <2>1. displayed = configured /\ configured' = frontBuffer
        /\ UNCHANGED <<numBuffers, displayed, frontBuffer>>
        /\ pc' = "count"
    BY <1>3 DEF Config, bufferVars
  <2>2. displayed' \in {configured', NoBuffer} \/ configured' = Succ(displayed)
    BY <1>3, <2>1 DEF Config
  <2> QED BY <2>1, <2>2 DEF Succ
<1>4. CASE Count
  BY <1>4 DEF Count, bufferVars, Succ
<1>5. CASE Field
  BY <1>5 DEF Field, bufferVars, Succ
<1>6. CASE /\ UNCHANGED <<videoVars, numBuffers, frontBuffer>>
           /\ pc \notin {"config", "count"}
           /\ pc' \notin {"advance", "config", "count"}
  BY <1>6 DEF videoVars, Succ
<1>7. CASE Draw \/ glClear \/ mglSwapBuffers \/ CallVideoSync \/ ClearDone
           \/ Finish \/ mglVideoSync \/ \E m \in DrawModes : glDrawBuffer(m)
  BY <1>6, <1>7 DEF Draw, glClear, MayDraw, mglSwapBuffers, CallVideoSync, ClearDone,
     Finish, mglVideoSync, glDrawBuffer, bufferVars
<1>8. CASE RenderDone \/ UNCHANGED vars
  BY <1>8 DEF RenderDone, vars, bufferVars, videoVars, Succ
<1> QED BY <1>1, <1>2, <1>3, <1>4, <1>5, <1>7, <1>8 DEF Next, App, Library

(* mglVideoSync returns in a new field, and a swap withdraws what it said. *)
LEMMA SyncStep ==
  ASSUME TypeOK, WorkInv, VideoInv, SyncInv, [Next]_vars
  PROVE  SyncInv'
<1> USE DEF TypeOK, SyncInv, bufferVars
<1>1. CASE Draw \/ glClear
  BY <1>1 DEF Draw, glClear, MayDraw, bufferVars, videoVars
<1>2. CASE ClearDone
  BY <1>2 DEF ClearDone, videoVars
<1>3. CASE mglSwapBuffers \/ CallVideoSync \/ Finish \/ Pending \/ Advance
           \/ \E m \in DrawModes : glDrawBuffer(m)
  BY <1>3 DEF mglSwapBuffers, CallVideoSync, Finish, Pending, Advance,
     glDrawBuffer, videoVars
<1>4. CASE Config
  BY <1>4 DEF Config, WorkInv, Swapping
<1>5. CASE Count
  BY <1>5 DEF Count
<1>6. CASE mglVideoSync
  BY <1>6 DEF mglVideoSync, VideoInv, videoVars
<1>7. CASE Field
  BY <1>7 DEF Field
<1>8. CASE RenderDone
  BY <1>8 DEF RenderDone, videoVars
<1>9. CASE UNCHANGED vars
  BY <1>9 DEF vars, videoVars
<1> QED BY <1>1, <1>2, <1>3, <1>4, <1>5, <1>6, <1>7, <1>8, <1>9
        DEF Next, App, Library

(* The invariant holds in every reachable state. *)
LEMMA Invariance == Spec => []IInv
<1>1. Init => IInv
  BY InitIInv
<1>2. IInv /\ [Next]_vars => IInv'
  BY TypeOKStep, RingStep, WorkStep, VideoStep, SyncStep DEF IInv
<1> QED BY <1>1, <1>2, PTL DEF Spec

-----------------------------------------------------------------------------
(* Every variable of the swap keeps its type: mgl.c:502-508 never leave the   *)
(* list of screens with gc->frontBuffer.                                      *)
THEOREM TypeCorrect == Spec => []TypeOK
<1>1. IInv => TypeOK
  BY DEF IInv
<1> QED BY <1>1, Invariance, PTL

(* What the invariant says of the back buffer, the one configured and the one *)
(* displayed keeps the three apart while anything is rendered.                *)
LEMMA Untorn == IInv => NoTearing
<1> SUFFICES ASSUME IInv, NEW w \in work, w.mode = "BACK"
             PROVE  w.buf \notin {displayed, configured}
  BY DEF NoTearing
<1>1. w.buf = backBuffer /\ numBuffers > 1
  BY DEF IInv, WorkInv
<1>2. backBuffer = Succ(frontBuffer) /\ frontBuffer \in Screens
  BY <1>1 DEF IInv, RingInv, TypeOK
<1>3. configured \in {frontBuffer, NoBuffer}
  BY DEF IInv, VideoInv, WorkInv, Swapping
<1>4. Succ(frontBuffer) \in Screens /\ NoBuffer \notin Screens
  BY <1>2, SuccFacts, SwapAssumption DEF IInv, TypeOK, Screens
<1>5. backBuffer # configured
  BY <1>1, <1>2, <1>3, <1>4, SuccFacts DEF IInv
<1>6. CASE displayed \in {configured, NoBuffer}
  BY <1>1, <1>2, <1>4, <1>5, <1>6
<1>7. CASE displayed \notin {configured, NoBuffer}
  <2>1. configured = Succ(displayed) /\ displayed \in Screens
    BY <1>7 DEF IInv, VideoInv, TypeOK
  <2>2. numBuffers > 2
    BY <1>7, SwapAssumption DEF IInv, SyncInv, TypeOK
  <2>3. Succ(displayed) \in Screens /\ Succ(Succ(displayed)) # displayed
    BY <2>1, <2>2, SuccFacts DEF IInv
  <2>4. configured = frontBuffer
    BY <1>3, <1>4, <2>1, <2>3
  <2> QED BY <1>1, <1>2, <1>5, <2>1, <2>3, <2>4
<1> QED BY <1>6, <1>7

(* Three or more screen buffers (mglSwapBuffers alone), or two and            *)
(* mglVideoSync after each swap, keep what is rendered into the back buffer   *)
(* off the screen.                                                            *)
THEOREM NoTearingCorrect == Spec => []NoTearing
BY Untorn, Invariance, PTL

(* glDrawBuffer and mglSwapBuffers leave renderBuffer inside the list of      *)
(* screens as long as nobody asks for GL_NONE.                                *)
THEOREM RenderBufferCorrect ==
  ASSUME "NONE" \notin DrawModes
  PROVE  Spec => []RenderBufferExists
<1>1. IInv => RenderBufferExists
  BY SuccFacts DEF IInv, RingInv, TypeOK, RenderBufferExists, Modes
<1> QED BY <1>1, Invariance, PTL

(* mglSwapBuffers replaces no frame before a field has shown it, whatever the *)
(* number of buffers: the loop at mgl.c:500 is enough.                        *)
THEOREM EveryFrameShownCorrect == Spec => EveryFrameShown
<1>1. IInv /\ [Next]_vars => [configured' # configured => displayed = configured]_vars
  <2> SUFFICES ASSUME IInv, Next, configured' # configured
               PROVE  displayed = configured
    OBVIOUS
  <2>1. Config
    BY DEF Next, App, Library, Draw, glClear, mglSwapBuffers, CallVideoSync,
       glDrawBuffer, ClearDone, Finish, Pending, Advance, Count, mglVideoSync,
       Field, RenderDone, videoVars
  <2> QED BY <2>1 DEF Config, IInv, VideoInv
<1> QED BY <1>1, Invariance, PTL DEF Spec, EveryFrameShown

(* The buffer mglSwapBuffers hands to _VidConfig is no MPE's target any more. *)
THEOREM FrameFinishedCorrect == Spec => FrameFinished
<1>1. IInv /\ [Next]_vars =>
        [configured' # configured => \A w \in work : w.buf # configured']_vars
  <2> SUFFICES ASSUME IInv, Next, configured' # configured
               PROVE  work = {}
    OBVIOUS
  <2>1. Config
    BY DEF Next, App, Library, Draw, glClear, mglSwapBuffers, CallVideoSync,
       glDrawBuffer, ClearDone, Finish, Pending, Advance, Count, mglVideoSync,
       Field, RenderDone, videoVars
  <2> QED BY <2>1 DEF Config, IInv, WorkInv, Swapping
<1> QED BY <1>1, Invariance, PTL DEF Spec, FrameFinished

-----------------------------------------------------------------------------
(* The initial state is that of a frame queue. *)
LEMMA FramesInit == Init => Frames!Init
BY DEF Init, Frames!Init

(* What is rendered in back mode. *)
Rendered == {w.buf : w \in {v \in work : v.mode = "BACK"}}

(* Every step of the library, of the MPEs and of the video hardware is one of *)
(* the frame queue or none: rendering adds the back buffer alone, which is    *)
(* not on the screen then or later, and _VidConfig hands it over.             *)
LEMMA FramesStep ==
  ASSUME IInv, IInv', [Next]_vars
  PROVE  [Frames!Next]_Frames!vars
<1> USE DEF Frames!vars, Frames!Next
<1>1. {configured, displayed} \cap Rendered = {} /\ ({configured, displayed} \cap Rendered = {})'
  <2>1. NoTearing /\ NoTearing'
    <3>1. NoTearing
      BY Untorn
    <3>2. IInv' => NoTearing'
      BY Untorn, PTL
    <3> QED BY <3>1, <3>2
  <2> QED BY <2>1 DEF NoTearing, Rendered
<1>2. CASE Draw \/ glClear
  <2>1. work \subseteq work' /\ UNCHANGED <<configured, displayed>>
    BY <1>2 DEF Draw, glClear, videoVars
  <2>2. Rendered \subseteq Rendered'
    BY <2>1 DEF Rendered
  <2>3. Frames!Draw
    BY <1>1, <2>1, <2>2 DEF Frames!Draw, Rendered
  <2> QED BY <2>3
<1>3. CASE ClearDone \/ RenderDone
  <2>1. work' \subseteq work /\ UNCHANGED <<configured, displayed>>
    BY <1>3 DEF ClearDone, RenderDone, videoVars
  <2>2. Rendered' \subseteq Rendered
    BY <2>1 DEF Rendered
  <2>3. Frames!Finish
    BY <2>1, <2>2 DEF Frames!Finish, Rendered
  <2> QED BY <2>3
<1>4. CASE Config
  <2>1. displayed = configured /\ work = {} /\ configured' = frontBuffer
        /\ UNCHANGED <<work, displayed>>
    BY <1>4 DEF Config, IInv, VideoInv, WorkInv, Swapping
  <2>2. frontBuffer # NoBuffer /\ Rendered = {}
    BY <2>1, SwapAssumption DEF IInv, TypeOK, Screens, Rendered
  <2>3. Frames!HandOver
    BY <2>1, <2>2 DEF Frames!HandOver, Rendered
  <2> QED BY <2>3
<1>5. CASE Field
  <2>1. Frames!Field
    BY <1>5 DEF Field, Frames!Field
  <2> QED BY <2>1
<1>6. CASE UNCHANGED <<work, configured, displayed>>
  BY <1>6
<1>7. CASE mglSwapBuffers \/ CallVideoSync \/ Finish \/ Pending \/ Advance \/ Count
           \/ mglVideoSync \/ (\E m \in DrawModes : glDrawBuffer(m)) \/ UNCHANGED vars
  BY <1>6, <1>7 DEF mglSwapBuffers, CallVideoSync, Finish, Pending, Advance, Count,
     mglVideoSync, glDrawBuffer, vars, videoVars
<1> QED BY <1>2, <1>3, <1>4, <1>5, <1>7 DEF Next, App, Library

(* mglSwapBuffers keeps the promises of a frame queue for every number of     *)
(* screen buffers.                                                            *)
THEOREM SwapImplementsFrames == Spec => ImplementsFrames
<1>1. Spec => Frames!Spec
  BY FramesInit, FramesStep, Invariance, PTL DEF Spec, Frames!Spec
<1> QED BY <1>1 DEF ImplementsFrames
=============================================================================
