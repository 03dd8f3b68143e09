------------------------- MODULE MglLifecycleProofs -------------------------
(***************************************************************************)
(* Proofs about MglLifecycle, for an application that ends each context    *)
(* once, at any moment: whatever allocation fails, mglInit and mglEnd      *)
(* leave nothing behind, and the MPEs that are drawing meanwhile are       *)
(* stopped while they are mGL's and report to a live context or not to it. *)
(***************************************************************************)
EXTENDS MglLifecycle, TLAPS

(* No context is in use, being set up or being ended. *)
Idle == pc = "app" /\ ~inited

(* The context is there when it is used and gone when it is not. *)
ContextInv ==
  /\ Idle => gc # "live"
  /\ ~Idle => gc = "live"
  /\ inited => pc = "app"

(* The BIOS has given mGL the MPEs that are in the context, and only those    *)
(* that mglEnd has not stopped may run.                                       *)
MPEInv ==
  /\ allocated = mpes
  /\ halted \subseteq mpes /\ running \subseteq mpes \ halted
  /\ pc # "endmpes" => halted = {}
  /\ Idle => mpes = {}

(* What was there before mGL; in place of NULL it may be mGL's own handler,   *)
(* left by an earlier context.                                                *)
AsFound(v) == v = found \/ (found = "none" /\ v = "mgl")

(* Where the interrupt vector is, and what it will be restored to. *)
VectorInv ==
  /\ found \in {"none", "app"}
  /\ Idle \/ pc \in {"mpes", "vector", "endmpes"} => AsFound(vector)
  /\ inited \/ pc \in {"texobj", "deftex", "fill"} =>
       vector = "mgl" /\ AsFound(oldVector)
  /\ pc \in {"mpes", "vector"} => oldVector = "none"
  /\ pc \in {"end", "endtextures", "endvector"} =>
       \/ AsFound(vector) /\ oldVector = "none"
       \/ vector = "mgl" /\ AsFound(oldVector)

(* How far the textures are allocated, or freed. *)
TextureInv ==
  /\ Idle \/ pc \in {"endvector", "endmpes"} => texObj # "live"
  /\ Idle \/ pc \in {"endtextures", "endvector", "endmpes"} =>
       defaultTexture # "live"
  /\ inited \/ pc \in {"mpes", "vector", "texobj", "deftex", "fill"} =>
       defaultTexture # "freed"
  /\ bound \in heap \cup {"default"}

IInv == TypeOK /\ ContextInv /\ MPEInv /\ VectorInv /\ TextureInv

-----------------------------------------------------------------------------
LEMMA InitIInv == Init => IInv
<1> SUFFICES ASSUME Init
             PROVE  IInv
  OBVIOUS
<1>1. TypeOK
  BY LifecycleAssumption DEF Init, TypeOK, Blocks, Vectors
<1>2. ContextInv /\ MPEInv /\ VectorInv /\ TextureInv
  BY DEF Init, Idle, ContextInv, MPEInv, VectorInv, AsFound, TextureInv
<1> QED BY <1>1, <1>2 DEF IInv

(* Every step keeps the types. *)
LEMMA TypeOKStep ==
  ASSUME TypeOK, [Next]_vars
  PROVE  TypeOK'
<1> USE DEF TypeOK, Blocks, Vectors, InitPcs, EndPcs, texVars, mpeVars, vectorVars
<1>1. CASE mglInit
  BY <1>1 DEF mglInit
<1>2. CASE AllocMPE
  BY <1>2 DEF AllocMPE
<1>3. CASE TakeVector
  BY <1>3 DEF TakeVector
<1>4. CASE TexObj
  BY <1>4 DEF TexObj
<1>5. CASE DefaultTexture
  BY <1>5 DEF DefaultTexture
<1>6. CASE FillDefault
  BY <1>6 DEF FillDefault
<1>7. CASE mglNewTexture
  BY <1>7 DEF mglNewTexture
<1>8. CASE mglSetTexture
  BY <1>8 DEF mglSetTexture
<1>9. CASE mglDeleteTexture
  BY <1>9 DEF mglDeleteTexture, Release
<1>10. CASE Texturing
  BY <1>10 DEF Texturing
<1>11. CASE Render
  BY <1>11 DEF Render
<1>12. CASE mglEnd
  BY <1>12 DEF mglEnd
<1>13. CASE EndDefault
  BY <1>13 DEF EndDefault
<1>14. CASE EndTextures
  BY <1>14 DEF EndTextures, Release
<1>15. CASE EndVector
  BY <1>15 DEF EndVector
<1>16. CASE EndMPEs
  BY <1>16 DEF EndMPEs
<1>17. CASE Report
  BY <1>17 DEF Report
<1>18. CASE CommRecvInterrupt
  BY <1>18 DEF CommRecvInterrupt
<1>19. CASE UNCHANGED vars
  BY <1>19 DEF vars
<1> QED BY <1>1, <1>2, <1>3, <1>4, <1>5, <1>6, <1>7, <1>8, <1>9, <1>10,
           <1>11, <1>12, <1>13, <1>14, <1>15, <1>16, <1>17, <1>18, <1>19 DEF
           Next, InitSteps, Use, EndSteps

(* A context comes into use when mglInit is done and goes out of use when     *)
(* mglEnd is called.                                                          *)
LEMMA ContextStep ==
  ASSUME Disciplined, ContextInv, [Next]_vars
  PROVE  ContextInv'
<1> USE DEF ContextInv, Idle, InUse
<1>1. CASE mglInit
  BY <1>1 DEF mglInit
<1>2. CASE AllocMPE
  BY <1>2 DEF AllocMPE
<1>3. CASE TakeVector
  BY <1>3 DEF TakeVector
<1>4. CASE TexObj
  BY <1>4 DEF TexObj
<1>5. CASE DefaultTexture
  BY <1>5 DEF DefaultTexture
<1>6. CASE FillDefault
  BY <1>6 DEF FillDefault
<1>7. CASE mglNewTexture
  BY <1>7 DEF mglNewTexture
<1>8. CASE mglSetTexture
  BY <1>8 DEF mglSetTexture
<1>9. CASE mglDeleteTexture
  BY <1>9 DEF mglDeleteTexture
<1>10. CASE Texturing
  BY <1>10 DEF Texturing
<1>11. CASE Render
  BY <1>11 DEF Render
<1>12. CASE mglEnd
  BY <1>12 DEF mglEnd
<1>13. CASE EndDefault
  BY <1>13 DEF EndDefault
<1>14. CASE EndTextures
  BY <1>14 DEF EndTextures
<1>15. CASE EndVector
  BY <1>15 DEF EndVector
<1>16. CASE EndMPEs
  BY <1>16 DEF EndMPEs
<1>17. CASE Report
  BY <1>17 DEF Report
<1>18. CASE CommRecvInterrupt
  BY <1>18 DEF CommRecvInterrupt
<1>19. CASE UNCHANGED vars
  BY <1>19 DEF vars
<1> QED BY <1>1, <1>2, <1>3, <1>4, <1>5, <1>6, <1>7, <1>8, <1>9, <1>10,
           <1>11, <1>12, <1>13, <1>14, <1>15, <1>16, <1>17, <1>18, <1>19 DEF
           Next, InitSteps, Use, EndSteps

(* MPEs are allocated into the context, and freed out of it. *)
LEMMA MPEStep ==
  ASSUME Disciplined, TypeOK, ContextInv, MPEInv, [Next]_vars
  PROVE  MPEInv'
<1> USE DEF ContextInv, MPEInv, Idle, InUse, mpeVars
<1>1. CASE mglInit
  BY <1>1 DEF mglInit
<1>2. CASE AllocMPE
  BY <1>2 DEF AllocMPE
<1>3. CASE TakeVector
  BY <1>3 DEF TakeVector
<1>4. CASE TexObj
  BY <1>4 DEF TexObj
<1>5. CASE DefaultTexture
  BY <1>5 DEF DefaultTexture
<1>6. CASE FillDefault
  BY <1>6 DEF FillDefault
<1>7. CASE mglNewTexture
  BY <1>7 DEF mglNewTexture
<1>8. CASE mglSetTexture
  BY <1>8 DEF mglSetTexture
<1>9. CASE mglDeleteTexture
  BY <1>9 DEF mglDeleteTexture
<1>10. CASE Texturing
  BY <1>10 DEF Texturing
<1>11. CASE Render
  BY <1>11 DEF Render
<1>12. CASE mglEnd
  BY <1>12 DEF mglEnd
<1>13. CASE EndDefault
  BY <1>13 DEF EndDefault
<1>14. CASE EndTextures
  BY <1>14 DEF EndTextures
<1>15. CASE EndVector
  BY <1>15 DEF EndVector
<1>16. CASE EndMPEs
  BY <1>16 DEF EndMPEs
<1>17. CASE Report
  BY <1>17 DEF Report
<1>18. CASE CommRecvInterrupt
  BY <1>18 DEF CommRecvInterrupt
<1>19. CASE UNCHANGED vars
  BY <1>19 DEF vars
<1> QED BY <1>1, <1>2, <1>3, <1>4, <1>5, <1>6, <1>7, <1>8, <1>9, <1>10,
           <1>11, <1>12, <1>13, <1>14, <1>15, <1>16, <1>17, <1>18, <1>19 DEF
           Next, InitSteps, Use, EndSteps

(* The vector is taken once and restored once. *)
LEMMA VectorStep ==
  ASSUME Disciplined, ContextInv, VectorInv, [Next]_vars
  PROVE  VectorInv'
<1> USE DEF ContextInv, VectorInv, AsFound, Idle, InUse, vectorVars
<1>1. CASE mglInit
  BY <1>1 DEF mglInit
<1>2. CASE AllocMPE
  BY <1>2 DEF AllocMPE
<1>3. CASE TakeVector
  BY <1>3 DEF TakeVector
<1>4. CASE TexObj
  BY <1>4 DEF TexObj
<1>5. CASE DefaultTexture
  BY <1>5 DEF DefaultTexture
<1>6. CASE FillDefault
  BY <1>6 DEF FillDefault
<1>7. CASE mglNewTexture
  BY <1>7 DEF mglNewTexture
<1>8. CASE mglSetTexture
  BY <1>8 DEF mglSetTexture
<1>9. CASE mglDeleteTexture
  BY <1>9 DEF mglDeleteTexture
<1>10. CASE Texturing
  BY <1>10 DEF Texturing
<1>11. CASE Render
  BY <1>11 DEF Render
<1>12. CASE mglEnd
  BY <1>12 DEF mglEnd
<1>13. CASE EndDefault
  BY <1>13 DEF EndDefault
<1>14. CASE EndTextures
  BY <1>14 DEF EndTextures
<1>15. CASE EndVector
  BY <1>15 DEF EndVector
<1>16. CASE EndMPEs
  BY <1>16 DEF EndMPEs
<1>17. CASE Report
  BY <1>17 DEF Report
<1>18. CASE CommRecvInterrupt
  BY <1>18 DEF CommRecvInterrupt
<1>19. CASE UNCHANGED vars
  BY <1>19 DEF vars
<1> QED BY <1>1, <1>2, <1>3, <1>4, <1>5, <1>6, <1>7, <1>8, <1>9, <1>10,
           <1>11, <1>12, <1>13, <1>14, <1>15, <1>16, <1>17, <1>18, <1>19 DEF
           Next, InitSteps, Use, EndSteps

(* Textures are allocated in mglInit and freed in mglEnd, and what is deleted *)
(* is not bound any more.                                                     *)
LEMMA TextureStep ==
  ASSUME Disciplined, ContextInv, TextureInv, [Next]_vars
  PROVE  TextureInv'
<1> USE DEF ContextInv, TextureInv, Idle, InUse, texVars
<1>1. CASE mglInit
  BY <1>1 DEF mglInit
<1>2. CASE AllocMPE
  BY <1>2 DEF AllocMPE
<1>3. CASE TakeVector
  BY <1>3 DEF TakeVector
<1>4. CASE TexObj
  BY <1>4 DEF TexObj
<1>5. CASE DefaultTexture
  BY <1>5 DEF DefaultTexture
<1>6. CASE FillDefault
  BY <1>6 DEF FillDefault
<1>7. CASE mglNewTexture
  BY <1>7 DEF mglNewTexture
<1>8. CASE mglSetTexture
  BY <1>8 DEF mglSetTexture
<1>9. CASE mglDeleteTexture
  BY <1>9 DEF mglDeleteTexture, Release
<1>10. CASE Texturing
  BY <1>10 DEF Texturing
<1>11. CASE Render
  BY <1>11 DEF Render
<1>12. CASE mglEnd
  BY <1>12 DEF mglEnd
<1>13. CASE EndDefault
  BY <1>13 DEF EndDefault
<1>14. CASE EndTextures
  BY <1>14 DEF EndTextures, Release
<1>15. CASE EndVector
  BY <1>15 DEF EndVector
<1>16. CASE EndMPEs
  BY <1>16 DEF EndMPEs
<1>17. CASE Report
  BY <1>17 DEF Report
<1>18. CASE CommRecvInterrupt
  BY <1>18 DEF CommRecvInterrupt
<1>19. CASE UNCHANGED vars
  BY <1>19 DEF vars
<1> QED BY <1>1, <1>2, <1>3, <1>4, <1>5, <1>6, <1>7, <1>8, <1>9, <1>10,
           <1>11, <1>12, <1>13, <1>14, <1>15, <1>16, <1>17, <1>18, <1>19 DEF
           Next, InitSteps, Use, EndSteps

(* The invariant holds in every reachable state. *)
LEMMA Invariance ==
  ASSUME Disciplined
  PROVE  Spec => []IInv
<1>1. Init => IInv
  BY InitIInv
<1>2. IInv /\ [Next]_vars => IInv'
  BY TypeOKStep, ContextStep, MPEStep, VectorStep, TextureStep DEF IInv
<1> QED BY <1>1, <1>2, PTL DEF Spec

-----------------------------------------------------------------------------
(* Every variable of the context's life cycle (mgl.c:27-473) keeps its type,  *)
(* for any application.                                                       *)
THEOREM TypeCorrect == Spec => []TypeOK
<1>1. Init => TypeOK
  BY InitIInv DEF IInv
<1>2. TypeOK /\ [Next]_vars => TypeOK'
  BY TypeOKStep
<1> QED BY <1>1, <1>2, PTL DEF Spec

(* Wherever mglInit fails (mgl.c:36, 62, 76, 210) and whenever mglEnd is      *)
(* called, context, textures and MPEs are given back.                         *)
THEOREM NoLeakCorrect ==
  ASSUME Disciplined
  PROVE  Spec => []NoLeak
<1>1. IInv => NoLeak
  BY DEF IInv, ContextInv, MPEInv, TextureInv, Idle, NoLeak
<1> QED BY <1>1, Invariance, PTL

(* mglEnd (mgl.c:455-459) leaves the interrupt vector as mglInit found it,    *)
(* also when it is called for a mglInit that failed; only in place of NULL it *)
(* leaves mGL's.                                                              *)
THEOREM VectorRestoredCorrect ==
  ASSUME Disciplined
  PROVE  Spec => []VectorRestored
<1>1. IInv => VectorRestored
  BY DEF IInv, VectorInv, AsFound, Idle, VectorRestored
<1> QED BY <1>1, Invariance, PTL

(* Whenever mglEnd is called, with MPEs drawing and reports on their way,     *)
(* none of them is counted in a context that has been freed, if the system    *)
(* had a handler before mGL (mgl.c:455-470).                                  *)
THEOREM ReportsMeetContextCorrect ==
  ASSUME Disciplined
  PROVE  Spec => []ReportsMeetContext
<1>1. IInv => ReportsMeetContext
  BY DEF IInv, ContextInv, VectorInv, AsFound, Idle, ReportsMeetContext
<1> QED BY <1>1, Invariance, PTL

(* mglEnd stops each MPE (mgl.c:464), whatever it is doing, before somebody   *)
(* else can get it (mgl.c:465).                                               *)
THEOREM OnlyOwnMPEsRunCorrect ==
  ASSUME Disciplined
  PROVE  Spec => []OnlyOwnMPEsRun
<1>1. IInv => OnlyOwnMPEsRun
  BY DEF IInv, MPEInv, OnlyOwnMPEsRun
<1> QED BY <1>1, Invariance, PTL

(* The texture that draws use is never one that was deleted.                  *)
THEOREM BoundTextureCorrect ==
  ASSUME Disciplined
  PROVE  Spec => []BoundTextureLive
<1>1. IInv => BoundTextureLive
  BY DEF IInv, TextureInv, InUse, BoundTextureLive
<1> QED BY <1>1, Invariance, PTL
=============================================================================
