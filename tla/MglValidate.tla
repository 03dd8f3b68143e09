---------------------------- MODULE MglValidate ----------------------------
(***************************************************************************)
(* State validation in mGL.  An API call records a new setting in the      *)
(* context gc and raises flags in gc->validationFlags.  The next drawing   *)
(* call runs ValidateGC: what the flags name is derived again from the     *)
(* settings, and the flags are passed on to every rendering MPE.  When a   *)
(* packet is about to go to an MPE, ValidateMPE copies what that MPE's     *)
(* flags name into its memory: parameter blocks, the texture, and code     *)
(* overlays packed one behind the other.  A flag forgotten on one path     *)
(* leaves one of four processors rendering with yesterday's state.         *)
(*                                                                         *)
(* Sources: pipeline.c, and every setter of api.c, lighting.c, matrix.c,   *)
(* mgl.c and begend.c that raises or clears a flag.  A setting is a member *)
(* of a small set; arithmetic on colours and matrices is left out: derived *)
(* data is the tuple of the settings it is computed from.  Which MPE gets  *)
(* a packet, and when, is MglDispatch's subject; here it is any.  Bad* are  *)
(* slips that break a property, as in MglDispatch.                         *)
(***************************************************************************)
EXTENDS Integers

CONSTANTS
  MPEs,             (* the rendering MPEs                                    *)
  Applications,     (* sets of settings; an application changes those of one *)
  Rendering,        (* the MPEs that each of them has given to mglInit       *)
  Values,           (* what numeric settings are set to                      *)
  Textures,         (* textures the application binds                        *)
  DefaultTexture,   (* gc->defaultTexture                                    *)
  Clut,             (* the textures with a palette (pixelType eClut4, eClut8) *)
  Size,             (* lengths of the packed overlays                        *)
  OverlayTop,       (* CLIPPER_OVERLAY_ORIGIN - VERTEX_LOADER_OVERLAY_ORIGIN *)
  BindWhileDisabled, (* may mglSetTexture come while texturing is disabled?  *)
  Null,             (* a null pointer                                        *)
  Junk              (* contents nobody has defined                           *)

Loaders      == {"LoadV8", "LoadV4"}
Lighters     == {"LightI", "LightGRB"}
Transformers == {"TransformXYZW8", "TransformXYZ4"}
Trivials     == {"TrivialV8", "TrivialV4"}
PackedCode   == Loaders \cup Lighters \cup Transformers \cup Trivials
Clippers     == {"XYZWUVI", "XYZWUVIF", "XYZWC"}
Rasterizers  == [textured : BOOLEAN, filtered : BOOLEAN, palette : BOOLEAN,
                 modulate : BOOLEAN, merge : {"", "K", "B", "B2"}]

ASSUME ValidateAssumption ==
  /\ Rendering \in [Applications -> SUBSET MPEs]
  /\ Clut \subseteq Textures /\ DefaultTexture \in Textures \ Clut
  /\ 0 \in Values
  /\ Size \in [PackedCode -> Nat \ {0}]
  /\ OverlayTop \in Nat
  /\ BindWhileDisabled \in BOOLEAN
  /\ Null \notin PackedCode \cup Textures \cup Clippers \cup Rasterizers

(* DEBUG_ASSERT in ValidateMPE: no choice of overlays reaches the clipper.    *)
ASSUME OverlaysFit ==
  /\ Size["LoadV8"] + Size["LightI"] + Size["TransformXYZW8"] + Size["TrivialV8"]
       <= OverlayTop
  /\ Size["LoadV4"] + Size["LightGRB"] + Size["TransformXYZ4"] + Size["TrivialV4"]
       <= OverlayTop

(* Parameter blocks; TEXTURE is copied straight from the texture. *)
Derived == {"RENDER_BUFFER", "FOG", "LIGHTING", "MATERIAL_SHININESS",
            "TOTAL_MATRIX", "VIEWPORT"}
Blocks == Derived \cup {"TEXTURE"}
Flags == Blocks \cup {"PIPELINE"}

VARIABLES
  varied,      \* the settings that this application changes
  gl,          \* the settings
  gcFlags,     \* gc->validationFlags
  gcPipe,      \* gc->loader ... gc->rasterizer, gc->vertexFormat
  gcData,      \* gc->dmaData, fogData, lightData...
  drawing,     \* between ValidateGC and the last packet of a drawing call
  mpeFlags,    \* mpe->validationFlags
  mpePipe,     \* mpe->loader ... mpe->rasterizer: what the library believes
  mpeData,     \* the parameter blocks in the MPE's memory
  packed,      \* the words from VERTEX_LOADER_OVERLAY_ORIGIN in its memory
  fixed        \* clipper and rasterizer in its memory

mpeVars == <<mpeFlags, mpePipe, mpeData, packed, fixed>>
vars == <<varied, gl, gcFlags, gcPipe, gcData, drawing, mpeVars>>

-----------------------------------------------------------------------------
(* What the settings call for.                                                *)

palette(s) == s.bound \in Clut

Blend(s) == s.blend /\ s.blendAlpha /\ s.depthTest /\ s.depthFunc = "LESS"

(* How a rasterizer treats the pixels it reads or finds. *)
Merge(s) ==
  IF IF s.texture THEN palette(s) /\ s.linear /\ s.env = "REPLACE" /\ Blend(s)
                  ELSE ~s.lighting /\ Blend(s)
  THEN IF s.depthMask THEN "B2" ELSE "B"
  ELSE IF s.texture /\ palette(s) /\ s.chromakey THEN "K" ELSE ""

Rasterizer(s) ==
  [textured |-> s.texture,
   filtered |-> s.texture /\ s.linear,
   palette  |-> s.texture /\ palette(s),
   modulate |-> s.texture /\ s.env = "MODULATE",
   merge    |-> Merge(s)]

(* ValidateGCPipeline. *)
Pipeline(s) ==
  IF s.texture
  THEN [loader |-> "LoadV8", transformer |-> "TransformXYZW8",
        trivia |-> "TrivialV8", vertexFormat |-> "XYZWUVN",
        lighter |-> IF s.lighting /\ s.env = "MODULATE" THEN "LightI" ELSE Null,
        clipper |-> IF s.fog THEN "XYZWUVIF" ELSE "XYZWUVI",
        rasterizer |-> Rasterizer(s)]
  ELSE [loader |-> "LoadV4", transformer |-> "TransformXYZ4",
        trivia |-> "TrivialV4",
        vertexFormat |-> IF s.lighting THEN "XYZN" ELSE "XYZC",
        lighter |-> IF s.lighting THEN "LightGRB" ELSE Null,
        clipper |-> "XYZWC",
        rasterizer |-> Rasterizer(s)]

(* ValidateGCDMA, ValidateGCLighting, ValidateGCSpecularLUT,                  *)
(* ValidateGCTotalMatrix, ValidateGCViewport and the fog lines of ValidateGC: *)
(* the settings each block is computed from.  Light data are intensities for  *)
(* LightI and colours otherwise, and hold the place of the normals in a       *)
(* vertex of the current format.                                              *)
Derive(b, s, pipe) ==
  CASE b = "RENDER_BUFFER" ->
         <<s.renderBuffer, IF s.depthTest THEN s.depthFunc ELSE "off">>
    [] b = "FOG" -> s.fogRange
    [] b = "LIGHTING" ->
         <<IF s.lightOn THEN <<s.light, s.modelview>> ELSE <<>>, s.material,
           pipe.lighter = "LightI", pipe.vertexFormat>>
    [] b = "MATERIAL_SHININESS" -> s.shininess
    [] b = "TOTAL_MATRIX" -> <<s.projection, s.modelview>>
    [] b = "VIEWPORT" -> s.viewport

Init ==
  /\ varied \in Applications
  /\ gl = [texture |-> FALSE, env |-> "MODULATE", linear |-> FALSE,
           bound |-> DefaultTexture, lighting |-> FALSE, fog |-> FALSE,
           chromakey |-> FALSE, blend |-> FALSE, blendAlpha |-> FALSE,
           depthTest |-> FALSE, depthFunc |-> "LESS", depthMask |-> TRUE,
           renderBuffer |-> 0, fogRange |-> 0, lightOn |-> FALSE, light |-> 0,
           material |-> 0, shininess |-> 0, modelview |-> 0, projection |-> 0,
           viewport |-> 0]
  /\ gcFlags = Flags \cup {"INVALIDATED"}           \* validationFlags = ~0
  /\ gcPipe = [loader |-> Null, lighter |-> Null, transformer |-> Null,
               trivia |-> Null, clipper |-> Null, rasterizer |-> Null,
               vertexFormat |-> "XYZWUVN"]
  /\ gcData = [b \in Derived |-> Junk]
  /\ drawing = FALSE
  /\ mpeFlags = [m \in MPEs |-> {"INVALIDATED"}]
  /\ mpePipe = [m \in MPEs |-> gcPipe]
  /\ mpeData = [m \in MPEs |-> [b \in Blocks |-> Junk]]
  /\ packed = [m \in MPEs |-> [a \in 0 .. OverlayTop - 1 |-> Junk]]
  /\ fixed = [m \in MPEs |-> [clipper |-> Junk, rasterizer |-> Junk]]

-----------------------------------------------------------------------------
(* Setters.  They run outside glBegin/glEnd (the debug build insists on it    *)
(* for most of them), change one setting and raise flags.                     *)
Set(k, v, flags) ==
  /\ ~drawing
  /\ k \in varied
  /\ gl' = [gl EXCEPT ![k] = v]
  /\ gcFlags' = flags
  /\ UNCHANGED <<gcPipe, gcData, drawing, mpeVars>>

Raise(f) == gcFlags \cup f
RaiseIf(P, f) == IF P THEN gcFlags \cup f ELSE gcFlags

(* GL_TEXTURE_1D and GL_TEXTURE_2D. *)
EnableTexture(on) == gl.texture # on /\ Set("texture", on, Raise({"PIPELINE"}))

(* GL_FOG: fog data flagged while fog was on need not be copied any more. *)
EnableFog(on) ==
  gl.fog # on /\ Set("fog", on, IF on THEN Raise({"FOG", "PIPELINE"})
                                ELSE Raise({"PIPELINE"}) \ {"FOG"})

(* Re-enabled lighting takes its data to be up to date. *)
BadEnableLighting(on) ==
  gl.lighting # on /\ Set("lighting", on,
                          IF on THEN Raise({"PIPELINE"})
                          ELSE Raise({"PIPELINE"}) \ {"LIGHTING"})

(* GL_LIGHTING: likewise. *)
EnableLighting(on) ==
  gl.lighting # on /\ Set("lighting", on,
                          IF on THEN Raise({"LIGHTING", "PIPELINE"})
                          ELSE Raise({"PIPELINE"}) \ {"LIGHTING"})

(* GL_BLEND, GL_CHROMAKEY_EXT. *)
EnableOther(k, on) == gl[k] # on /\ Set(k, on, Raise({"PIPELINE"}))

(* Only the DMA flags are taken to depend on the depth test. *)
BadEnableDepthTest(on) ==
  gl.depthTest # on /\ Set("depthTest", on, Raise({"RENDER_BUFFER"}))

EnableDepthTest(on) ==
  gl.depthTest # on
  /\ Set("depthTest", on, Raise({"PIPELINE", "RENDER_BUFFER"}))

(* GL_LIGHT0... *)
EnableLight(on) ==
  gl.lightOn # on /\ Set("lightOn", on, RaiseIf(gl.lighting, {"LIGHTING"}))

glDepthFunc(f) ==
  gl.depthFunc # f
  /\ Set("depthFunc", f, RaiseIf(gl.depthTest, {"PIPELINE", "RENDER_BUFFER"}))

glDepthMask(on) == gl.depthMask # on /\ Set("depthMask", on, Raise({"PIPELINE"}))

(* Whether the factors are those of alpha blending. *)
glBlendFunc(alpha) ==
  gl.blendAlpha # alpha
  /\ Set("blendAlpha", alpha, RaiseIf(gl.blend, {"PIPELINE"}))

glTexEnv(mode) == gl.env # mode /\ Set("env", mode, Raise({"PIPELINE"}))

(* GL_TEXTURE_MIN_FILTER. *)
glTexParameter(linear) ==
  gl.linear # linear /\ Set("linear", linear, Raise({"PIPELINE"}))

glFog(v) == Set("fogRange", v, Raise({"FOG"}))

glLight(v) == Set("light", v, RaiseIf(gl.lighting /\ gl.lightOn, {"LIGHTING"}))

(* glMaterial colours, glLightModel. *)
glMaterial(v) == Set("material", v, RaiseIf(gl.lighting, {"LIGHTING"}))

glShininess(v) ==
  gl.shininess # v /\ Set("shininess", v, Raise({"MATERIAL_SHININESS"}))

(* glLoadMatrix, glMultMatrix, glRotate, glPopMatrix...: they write one of the *)
(* current matrices.                                                          *)
Modelview(v) ==
  Set("modelview", v, Raise({"TOTAL_MATRIX"} \cup
                            (IF gl.lighting THEN {"LIGHTING"} ELSE {})))
Projection(v) == Set("projection", v, Raise({"TOTAL_MATRIX"}))

(* glViewport, glDepthRange. *)
glViewport(v) == Set("viewport", v, Raise({"VIEWPORT"}))

glDrawBuffer(v) ==
  gl.renderBuffer # v /\ Set("renderBuffer", v, Raise({"RENDER_BUFFER"}))

(* The rasterizer is not reconsidered for the new pixel type. *)
BadSetTexture(t) ==
  /\ BindWhileDisabled \/ gl.texture
  /\ Set("bound", IF t = Null THEN DefaultTexture ELSE t,
         RaiseIf(gl.texture, {"TEXTURE"}))

(* mglSetTexture; mglDeleteTexture of the bound texture binds the default one *)
(* by the same rules.                                                         *)
mglSetTexture(t) ==
  /\ BindWhileDisabled \/ gl.texture
  /\ Set("bound", IF t = Null THEN DefaultTexture ELSE t,
         RaiseIf(gl.texture,
                 {"TEXTURE"} \cup (IF (t \in Clut) # palette(gl)
                                   THEN {"PIPELINE"} ELSE {})))

-----------------------------------------------------------------------------
(* ValidateGC: the pipeline comes first, because a change of lighter asks for *)
(* other light data.                                                          *)

(* The change is noticed in one direction only. *)
BadLighterChange ==
  /\ "PIPELINE" \in gcFlags
  /\ gl.lighting
  /\ gl.texture /\ gl.env = "MODULATE" /\ gcPipe.lighter # "LightI"

LighterChange ==
  /\ "PIPELINE" \in gcFlags
  /\ gl.lighting
  /\ \/ gl.texture /\ gl.env = "MODULATE" /\ gcPipe.lighter # "LightI"
     \/ ~gl.texture /\ gcPipe.lighter = "LightI"

ValidateGC ==
  LET flags == RaiseIf(LighterChange, {"LIGHTING"})
  IN  /\ gcPipe' = IF "PIPELINE" \in gcFlags THEN Pipeline(gl) ELSE gcPipe
      /\ gcData' = [b \in Derived |->
                      IF b \in flags THEN Derive(b, gl, gcPipe') ELSE gcData[b]]
      /\ mpeFlags' = [m \in MPEs |-> IF m \in Rendering[varied]
                                    THEN mpeFlags[m] \cup flags
                                    ELSE mpeFlags[m]]

(* glBegin, mglDrawBuffer. *)
BeginDrawing ==
  /\ ~drawing
  /\ ValidateGC
  /\ gcFlags' = {}
  /\ drawing' = TRUE
  /\ UNCHANGED <<gl, mpePipe, mpeData, packed, fixed>>

(* glEnd, or mglDrawBuffer has sent its last packet. *)
EndDrawing == drawing /\ drawing' = FALSE /\ UNCHANGED <<gl, gcFlags, gcPipe, gcData, mpeVars>>

(* glFlush, glFinish. *)
glFlush ==
  /\ ~drawing /\ gcFlags # {}
  /\ ValidateGC
  /\ gcFlags' = {}
  /\ UNCHANGED <<gl, drawing, mpePipe, mpeData, packed, fixed>>

(* The new buffer is flagged before the validation that clears the flags. *)
BadSwapBuffers(v) ==
  /\ ~drawing /\ "renderBuffer" \in varied
  /\ ValidateGC
  /\ gl' = [gl EXCEPT !.renderBuffer = v]
  /\ gcFlags' = {}
  /\ UNCHANGED <<drawing, mpePipe, mpeData, packed, fixed>>

(* mglSwapBuffers validates, finishes, and turns to the other buffer. *)
mglSwapBuffers(v) ==
  /\ ~drawing /\ "renderBuffer" \in varied
  /\ ValidateGC
  /\ gl' = [gl EXCEPT !.renderBuffer = v]
  /\ gcFlags' = {"RENDER_BUFFER"}
  /\ UNCHANGED <<drawing, mpePipe, mpeData, packed, fixed>>

-----------------------------------------------------------------------------
(* ValidateMPE.                                                               *)

Length(code) == IF code = Null THEN 0 ELSE Size[code]

(* The packed overlays: where each begins, in words from the first. *)
Overlays == <<"loader", "lighter", "transformer", "trivia">>
Origin(pipe) ==
  LET len == [i \in 1 .. 4 |-> Length(pipe[Overlays[i]])]
  IN  <<0, len[1], len[1] + len[2], len[1] + len[2] + len[3]>>

(* Each overlay is compared on its own. *)
BadReloaded(old, new) == {i \in 1 .. 4 : old[Overlays[i]] # new[Overlays[i]]}

(* load |= ...: one changed overlay displaces all that follow it. *)
Reloaded(old, new) ==
  {i \in 1 .. 4 : \E j \in 1 .. i : old[Overlays[j]] # new[Overlays[j]]}

(* Memory mem after DMA of the overlays in load. *)
LoadPacked(mem, pipe, load) ==
  [a \in DOMAIN mem |->
     LET here == {i \in load : /\ Origin(pipe)[i] <= a
                               /\ a < Origin(pipe)[i] + Length(pipe[Overlays[i]])}
     IN  IF here = {} THEN mem[a]
         ELSE LET i == CHOOSE i \in here : TRUE
              IN  <<pipe[Overlays[i]], a - Origin(pipe)[i]>>]

(* An MPE that was stopped gets the manager and everything else anew. *)
Booting(m) == "INVALIDATED" \in mpeFlags[m]
Believed(m) ==
  IF Booting(m) THEN [k \in DOMAIN gcPipe |-> Null] ELSE mpePipe[m]

(* RenderDirect: ValidateMPE brings MPE m up to date, then the packet is sent. *)
Dispatch(m) ==
  LET flags == IF Booting(m) THEN Flags ELSE mpeFlags[m]
      load == IF "PIPELINE" \in flags THEN Reloaded(Believed(m), gcPipe) ELSE {}
      changed(k) == "PIPELINE" \in flags /\ Believed(m)[k] # gcPipe[k]
      Data(b) == IF b = "TEXTURE" THEN gl.bound ELSE gcData[b]
  IN  /\ drawing
      /\ mpeFlags' = [mpeFlags EXCEPT ![m] = {}]
      /\ mpePipe' = [mpePipe EXCEPT ![m] =
                       IF "PIPELINE" \in flags THEN gcPipe ELSE Believed(m)]
      /\ mpeData' = [mpeData EXCEPT ![m] =
                       [b \in Blocks |-> IF b \in flags THEN Data(b) ELSE @[b]]]
      /\ packed' = [packed EXCEPT ![m] = LoadPacked(@, gcPipe, load)]
      /\ fixed' = [fixed EXCEPT ![m] =
                     [k \in DOMAIN @ |-> IF changed(k) THEN gcPipe[k] ELSE @[k]]]
      /\ UNCHANGED <<gl, gcFlags, gcPipe, gcData, drawing>>

(* mglInvalidateMPE: m is stopped and may be put to other use. *)
mglInvalidateMPE(m) ==
  /\ mpeFlags' = [mpeFlags EXCEPT ![m] = @ \cup {"INVALIDATED"}]
  /\ mpeData' = [mpeData EXCEPT ![m] = [b \in Blocks |-> Junk]]
  /\ packed' = [packed EXCEPT ![m] = [a \in DOMAIN @ |-> Junk]]
  /\ fixed' = [fixed EXCEPT ![m] = [k \in DOMAIN @ |-> Junk]]
  /\ UNCHANGED <<gl, gcFlags, gcPipe, gcData, drawing, mpePipe>>

-----------------------------------------------------------------------------
Enables ==
  \E on \in BOOLEAN :
    \/ EnableTexture(on) \/ EnableFog(on) \/ EnableLighting(on)
    \/ EnableOther("blend", on) \/ EnableOther("chromakey", on)
    \/ EnableDepthTest(on) \/ EnableLight(on)

Settings ==
  \/ \E f \in {"LESS", "ALWAYS"} : glDepthFunc(f)
  \/ \E on \in BOOLEAN : glDepthMask(on) \/ glBlendFunc(on) \/ glTexParameter(on)
  \/ \E mode \in {"MODULATE", "REPLACE"} : glTexEnv(mode)
  \/ \E v \in Values :
       \/ glFog(v) \/ glLight(v) \/ glMaterial(v) \/ glShininess(v)
       \/ Modelview(v) \/ Projection(v) \/ glViewport(v) \/ glDrawBuffer(v)
  \/ \E t \in Textures \cup {Null} : mglSetTexture(t)

Next ==
  /\ \/ Enables
     \/ Settings
     \/ BeginDrawing \/ EndDrawing \/ glFlush
     \/ \E v \in Values : mglSwapBuffers(v)
     \/ \E m \in Rendering[varied] : Dispatch(m) \/ mglInvalidateMPE(m)
  /\ UNCHANGED varied

Spec == Init /\ [][Next]_vars

-----------------------------------------------------------------------------
(* What a packet on MPE m is rendered with. *)

(* The blocks that the overlays called for read. *)
Used(s) ==
  {"RENDER_BUFFER", "TOTAL_MATRIX", "VIEWPORT"}
  \cup (IF s.texture THEN {"TEXTURE"} ELSE {})
  \cup (IF s.texture /\ s.fog THEN {"FOG"} ELSE {})
  \cup (IF Pipeline(s).lighter # Null THEN {"LIGHTING", "MATERIAL_SHININESS"}
        ELSE {})

Expected(b) ==
  IF b = "TEXTURE" THEN gl.bound ELSE Derive(b, gl, Pipeline(gl))

(* The words of every packed overlay of the pipeline are in their place. *)
InPlace(mem, pipe) ==
  \A i \in 1 .. 4 : \A w \in 0 .. Length(pipe[Overlays[i]]) - 1 :
    mem[Origin(pipe)[i] + w] = <<pipe[Overlays[i]], w>>

(* Whatever is rendered is rendered with the data that the settings in force  *)
(* call for: no sequence of setters, validations, invalidations and draws on  *)
(* other MPEs leaves an MPE with a block that is out of date and not flagged. *)
DrawsWithCurrentData ==
  [][\A m \in MPEs : Dispatch(m) =>
       \A b \in Used(gl) : mpeData'[m][b] = Expected(b)]_vars

(* ... and by the code that they call for, undamaged by the overlays packed   *)
(* around it (pipeline.c:810-860).                                            *)
DrawsWithCurrentCode ==
  [][\A m \in MPEs : Dispatch(m) =>
       /\ InPlace(packed'[m], Pipeline(gl))
       /\ fixed'[m].clipper = Pipeline(gl).clipper
       /\ fixed'[m].rasterizer = Pipeline(gl).rasterizer]_vars

TypeOK ==
  /\ gcFlags \subseteq Flags \cup {"INVALIDATED"}
  /\ gl.bound \in Textures
  /\ drawing \in BOOLEAN
  /\ gcPipe.lighter \in Lighters \cup {Null}
  /\ gcPipe.vertexFormat \in {"XYZWUVN", "XYZC", "XYZN"}
  /\ DOMAIN gcData = Derived
  /\ mpeFlags \in [MPEs -> SUBSET (Flags \cup {"INVALIDATED"})]
  /\ \A m \in MPEs : DOMAIN mpeData[m] = Blocks
=============================================================================
