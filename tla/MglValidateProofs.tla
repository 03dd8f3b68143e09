------------------------- MODULE MglValidateProofs -------------------------
(***************************************************************************)
(* Theorems about mGL's state validation, for any number of MPEs, any      *)
(* textures and values, overlays of any size that fit, and every sequence  *)
(* of setters, draws, swaps and invalidations.                             *)
(*                                                                         *)
(* What is rendered with the wrong data is named exactly: all blocks but   *)
(* two are current whatever the application does, the texture unless it is *)
(* bound while texturing is disabled, and the light data unless the state  *)
(* is validated with lighting under a texture that replaces it.            *)
(***************************************************************************)
EXTENDS MglValidate, TLAPS

(* Types, beyond those TLC is asked to check. *)
SettingTypes ==
  gl \in [texture : BOOLEAN, env : {"MODULATE", "REPLACE"}, linear : BOOLEAN,
          bound : Textures, lighting : BOOLEAN, fog : BOOLEAN,
          chromakey : BOOLEAN, blend : BOOLEAN, blendAlpha : BOOLEAN,
          depthTest : BOOLEAN, depthFunc : {"LESS", "ALWAYS"},
          depthMask : BOOLEAN, renderBuffer : Values, fogRange : Values,
          lightOn : BOOLEAN, light : Values, material : Values,
          shininess : Values, modelview : Values, projection : Values,
          viewport : Values]

(* A lighter goes with the vertices that carry what it reads. *)
PipeShape(pipe) ==
  /\ pipe.vertexFormat \in {"XYZWUVN", "XYZC", "XYZN"}
  /\ \/ pipe.lighter = Null
     \/ pipe.lighter = "LightI" /\ pipe.vertexFormat = "XYZWUVN"
     \/ pipe.lighter = "LightGRB" /\ pipe.vertexFormat = "XYZN"

Codes(pipe) == \A i \in 1 .. 4 : pipe[Overlays[i]] \in PackedCode \cup {Null}

Keys == {"loader", "lighter", "transformer", "trivia", "clipper", "rasterizer",
         "vertexFormat"}

ContextTypes ==
  /\ varied \in Applications
  /\ SettingTypes
  /\ gcFlags \subseteq Flags \cup {"INVALIDATED"}
  /\ drawing \in BOOLEAN
  /\ PipeShape(gcPipe) /\ DOMAIN gcPipe = Keys
  /\ DOMAIN gcData = Derived

MPETypes ==
  /\ mpeFlags \in [MPEs -> SUBSET (Flags \cup {"INVALIDATED"})]
  /\ DOMAIN mpePipe = MPEs
  /\ DOMAIN mpeData = MPEs /\ \A m \in MPEs : DOMAIN mpeData[m] = Blocks
  /\ DOMAIN packed = MPEs
  /\ \A m \in MPEs : /\ packed[m] = [a \in DOMAIN packed[m] |-> packed[m][a]]
                     /\ DOMAIN packed[m] = 0 .. OverlayTop - 1
  /\ DOMAIN fixed = MPEs
  /\ \A m \in MPEs : DOMAIN fixed[m] = {"clipper", "rasterizer"}

(* Fog and light data are kept up to date only while they are in use. *)
Wanted(b, s) == (b = "FOG" => s.fog) /\ (b = "LIGHTING" => s.lighting)

(* What the context does not flag is current. *)
PipeInv == "PIPELINE" \notin gcFlags => gcPipe = Pipeline(gl)

DataInv ==
  \A b \in Derived \ {"LIGHTING"} :
    b \notin gcFlags /\ Wanted(b, gl) => gcData[b] = Derive(b, gl, gcPipe)

DrawingInv == drawing => gcFlags = {}

(* What the flags of an MPE do not name, it has as the context has it; its    *)
(* code is the code the library believes it to have.  An MPE that no          *)
(* application renders on has never been started.                             *)
UpToDate(m) ==
  /\ "PIPELINE" \notin mpeFlags[m] => mpePipe[m] = gcPipe
  /\ Codes(mpePipe[m])
  /\ InPlace(packed[m], mpePipe[m])
  /\ fixed[m].clipper = mpePipe[m].clipper
  /\ fixed[m].rasterizer = mpePipe[m].rasterizer
  /\ \A b \in Derived : b \notin mpeFlags[m] => mpeData[m][b] = gcData[b]

MPEInv ==
  \A m \in MPEs : /\ Booting(m) \/ UpToDate(m)
                  /\ m \notin Rendering[varied] => Booting(m)

IInv == ContextTypes /\ MPETypes /\ PipeInv /\ DataInv /\ DrawingInv /\ MPEInv

(* The two blocks that need an application's discipline. *)
TextureInv ==
  \A m \in MPEs :
    Booting(m) \/ "TEXTURE" \in mpeFlags[m] \/ "TEXTURE" \in gcFlags
    \/ mpeData[m]["TEXTURE"] = gl.bound

LightInv ==
  gl.lighting /\ "LIGHTING" \notin gcFlags =>
    /\ gcPipe.lighter # Null
    /\ gcData["LIGHTING"] = Derive("LIGHTING", gl, gcPipe)

(* Textures are bound while texturing is enabled... *)
BindsEnabled == gl'.bound # gl.bound => gl.texture

(* ... and the state is not validated with lighting under a texture that      *)
(* replaces it.                                                               *)
Validation == BeginDrawing \/ glFlush \/ \E v \in Values : mglSwapBuffers(v)

LightsWhatShows ==
  Validation => ~(gl.lighting /\ gl.texture /\ gl.env = "REPLACE")

Disciplined == [][BindsEnabled /\ LightsWhatShows]_vars

-----------------------------------------------------------------------------
(* The pipeline and the packed overlays. *)

(* The four packed overlays. *)
LEMMA OverlayNames ==
  /\ Overlays[1] = "loader" /\ Overlays[2] = "lighter"
  /\ Overlays[3] = "transformer" /\ Overlays[4] = "trivia"
BY DEF Overlays

(* The pipeline chosen for some settings: its lighter suits its vertices, its *)
(* overlays fit, nothing but the lighter is missing.                          *)
LEMMA PipelineFacts ==
  ASSUME NEW s \in [texture : BOOLEAN, env : {"MODULATE", "REPLACE"}, linear : BOOLEAN,
          bound : Textures, lighting : BOOLEAN, fog : BOOLEAN,
          chromakey : BOOLEAN, blend : BOOLEAN, blendAlpha : BOOLEAN,
          depthTest : BOOLEAN, depthFunc : {"LESS", "ALWAYS"},
          depthMask : BOOLEAN, renderBuffer : Values, fogRange : Values,
          lightOn : BOOLEAN, light : Values, material : Values,
          shininess : Values, modelview : Values, projection : Values,
          viewport : Values]
  PROVE  /\ PipeShape(Pipeline(s)) /\ DOMAIN Pipeline(s) = Keys
         /\ Codes(Pipeline(s))
         /\ Pipeline(s).loader # Null
         /\ Pipeline(s).clipper # Null /\ Pipeline(s).rasterizer # Null
         /\ Length(Pipeline(s).loader) + Length(Pipeline(s).lighter)
            + Length(Pipeline(s).transformer) + Length(Pipeline(s).trivia)
            <= OverlayTop
<1> DEFINE p == Pipeline(s)
<1>1. p.rasterizer \in Rasterizers
  <2>1. Rasterizer(s).merge \in {"", "K", "B", "B2"}
    BY DEF Rasterizer, Merge
  <2>2. Rasterizer(s) \in Rasterizers
    BY <2>1 DEF Rasterizer, Rasterizers, palette
  <2> QED BY <2>2 DEF Pipeline
<1>2. p.clipper \in Clippers
  BY DEF Pipeline, Clippers
<1>3. /\ p.loader \in Loaders /\ p.transformer \in Transformers
      /\ p.trivia \in Trivials /\ p.lighter \in Lighters \cup {Null}
  BY DEF Pipeline, Loaders, Transformers, Trivials, Lighters
<1>4. PipeShape(p)
  BY DEF Pipeline, PipeShape
<1>5. DOMAIN p = Keys
  BY DEF Pipeline, Keys
<1>6. Codes(p)
  BY <1>3, OverlayNames DEF Codes, PackedCode
<1>7. p.loader # Null /\ p.clipper # Null /\ p.rasterizer # Null
  BY <1>1, <1>2, <1>3, ValidateAssumption DEF PackedCode
<1>8. /\ p.loader = "LoadV8" /\ p.transformer = "TransformXYZW8"
         /\ p.trivia = "TrivialV8" /\ p.lighter \in {"LightI", Null}
      \/ /\ p.loader = "LoadV4" /\ p.transformer = "TransformXYZ4"
         /\ p.trivia = "TrivialV4" /\ p.lighter \in {"LightGRB", Null}
  BY DEF Pipeline
<1>9. /\ Null \notin PackedCode /\ Size \in [PackedCode -> Nat \ {0}]
      /\ OverlayTop \in Nat
  BY ValidateAssumption
<1>10. /\ {"LoadV8", "LoadV4", "TransformXYZW8", "TransformXYZ4", "TrivialV8",
           "TrivialV4", "LightI", "LightGRB"} \subseteq PackedCode
  BY DEF PackedCode, Loaders, Lighters, Transformers, Trivials
<1>11. Length(p.loader) + Length(p.lighter) + Length(p.transformer)
       + Length(p.trivia) <= OverlayTop
  <2> HIDE DEF p
  <2>1. CASE p.loader = "LoadV8"
    BY <1>8, <1>9, <1>10, <2>1, OverlaysFit DEF Length
  <2>2. CASE p.loader = "LoadV4"
    BY <1>8, <1>9, <1>10, <2>2, OverlaysFit DEF Length
  <2> QED BY <1>8, <2>1, <2>2
<1> QED BY <1>4, <1>5, <1>6, <1>7, <1>11

(* Lengths are numbers. *)
LEMMA LengthNat ==
  ASSUME NEW c \in PackedCode \cup {Null}
  PROVE  Length(c) \in Nat
BY ValidateAssumption DEF Length

(* The overlays of a pipeline are packed one behind the other.                *)
LEMMA Packing ==
  ASSUME NEW p, Codes(p)
  PROVE  /\ \A i \in 1 .. 4 : Length(p[Overlays[i]]) \in Nat
         /\ \A i \in 1 .. 4 : Origin(p)[i] \in Nat
         /\ Origin(p)[1] = 0
         /\ \A i \in 1 .. 3 :
              Origin(p)[i + 1] = Origin(p)[i] + Length(p[Overlays[i]])
<1> DEFINE len == [i \in 1 .. 4 |-> Length(p[Overlays[i]])]
<1>1. \A i \in 1 .. 4 : len[i] \in Nat /\ len[i] = Length(p[Overlays[i]])
  BY LengthNat DEF Codes
<1>2. Origin(p) = <<0, len[1], len[1] + len[2], len[1] + len[2] + len[3]>>
  BY DEF Origin
<1> HIDE DEF len
<1>3. /\ Origin(p)[1] = 0 /\ Origin(p)[2] = len[1]
      /\ Origin(p)[3] = len[1] + len[2]
      /\ Origin(p)[4] = len[1] + len[2] + len[3]
  BY <1>2
<1>4. \A i \in 1 .. 4 : i \in {1, 2, 3, 4}
  OBVIOUS
<1>5. \A i \in 1 .. 4 : Origin(p)[i] \in Nat
  BY <1>1, <1>3, <1>4
<1>6. \A i \in 1 .. 3 : Origin(p)[i + 1] = Origin(p)[i] + Length(p[Overlays[i]])
  <2> SUFFICES ASSUME NEW i \in 1 .. 3
               PROVE  Origin(p)[i + 1] = Origin(p)[i] + len[i]
    BY <1>1
  <2>1. i \in {1, 2, 3}
    OBVIOUS
  <2> QED BY <1>1, <1>3, <2>1
<1> QED BY <1>1, <1>3, <1>5, <1>6

(* Each ends before the next begins.                                          *)
LEMMA PackedApart ==
  ASSUME NEW p, Codes(p), NEW i \in 1 .. 4, NEW j \in 1 .. 4, i < j
  PROVE  Origin(p)[i] + Length(p[Overlays[i]]) <= Origin(p)[j]
<1>1. /\ Origin(p)[1] \in Nat /\ Origin(p)[2] \in Nat /\ Origin(p)[3] \in Nat
      /\ Origin(p)[4] \in Nat
      /\ Length(p[Overlays[1]]) \in Nat /\ Length(p[Overlays[2]]) \in Nat
      /\ Length(p[Overlays[3]]) \in Nat
      /\ Origin(p)[2] = Origin(p)[1] + Length(p[Overlays[1]])
      /\ Origin(p)[3] = Origin(p)[2] + Length(p[Overlays[2]])
      /\ Origin(p)[4] = Origin(p)[3] + Length(p[Overlays[3]])
  <2>1. 1 + 1 = 2 /\ 2 + 1 = 3 /\ 3 + 1 = 4
    OBVIOUS
  <2> QED BY <2>1, Packing
<1>2. i \in {1, 2, 3} /\ j \in {2, 3, 4}
  OBVIOUS
<1> QED BY <1>1, <1>2

(* DMA of the changed overlays and all behind them leaves every overlay of    *)
(* the new pipeline in place, if those of the old one were.                   *)
LEMMA LoadInPlace ==
  ASSUME NEW old, NEW new, NEW mem, Codes(new), DOMAIN mem = 0 .. OverlayTop - 1,
         Length(new.loader) + Length(new.lighter) + Length(new.transformer)
           + Length(new.trivia) <= OverlayTop,
         1 \in Reloaded(old, new) \/ (Codes(old) /\ InPlace(mem, old))
  PROVE  InPlace(LoadPacked(mem, new, Reloaded(old, new)), new)
<1> DEFINE load == Reloaded(old, new)
           org == Origin(new)
           len(i) == Length(new[Overlays[i]])
           Here(a) == {i \in load : org[i] <= a /\ a < org[i] + len(i)}
           loaded == LoadPacked(mem, new, load)
<1>1. load \subseteq 1 .. 4 /\ OverlayTop \in Nat
  BY ValidateAssumption DEF Reloaded
<1>2. \A i \in 1 .. 4 : org[i] \in Nat /\ len(i) \in Nat
  BY Packing
<1>3. \A i, j \in 1 .. 4 : i < j => org[i] + len(i) <= org[j]
  BY PackedApart
<1>4. \A i \in 1 .. 4 : org[i] + len(i) <= OverlayTop
  <2>1. len(1) + len(2) + len(3) + len(4) <= OverlayTop
    BY OverlayNames
  <2>2. 1 + 1 = 2 /\ 2 + 1 = 3 /\ 3 + 1 = 4
    OBVIOUS
  <2>3. /\ org[1] = 0 /\ org[2] = org[1] + len(1) /\ org[3] = org[2] + len(2)
        /\ org[4] = org[3] + len(3)
    BY <2>2, Packing
  <2>4. org[4] + len(4) <= OverlayTop
    BY <1>2, <2>1, <2>3
  <2> HIDE DEF org, len
  <2>5. ASSUME NEW i \in 1 .. 3 PROVE org[i] + len(i) <= OverlayTop
    <3>1. org[i] + len(i) <= org[4]
      BY <1>3
    <3>2. org[i] \in Nat /\ len(i) \in Nat /\ org[4] \in Nat /\ len(4) \in Nat
      BY <1>2
    <3> QED BY <1>1, <2>4, <3>1, <3>2
  <2>6. \A i \in 1 .. 4 : i \in 1 .. 3 \/ i = 4
    OBVIOUS
  <2> QED BY <2>4, <2>5, <2>6
<1>5. ASSUME NEW i \in 1 .. 4, NEW w \in 0 .. len(i) - 1
      PROVE  loaded[org[i] + w] = <<new[Overlays[i]], w>>
  <2> DEFINE a == org[i] + w
  <2>1. a \in 0 .. OverlayTop - 1 /\ a - org[i] = w /\ org[i] <= a /\ a < org[i] + len(i)
    <3>1. /\ org[i] \in Nat /\ len(i) \in Nat /\ org[i] + len(i) <= OverlayTop
          /\ w \in 0 .. len(i) - 1
      BY <1>2, <1>4
    <3> HIDE DEF org, len
    <3> QED BY <1>1, <3>1
  <2>2. ASSUME NEW j \in 1 .. 4, j # i, org[j] <= a, a < org[j] + len(j)
        PROVE  FALSE
    <3>1. j < i \/ i < j
      BY <2>2
    <3>4. /\ org[i] \in Nat /\ len(i) \in Nat /\ org[j] \in Nat /\ len(j) \in Nat
          /\ j < i => org[j] + len(j) <= org[i]
          /\ i < j => org[i] + len(i) <= org[j]
      BY <1>2, <1>3
    <3> HIDE DEF org, len, a
    <3>5. a \in Int
      BY <1>1, <2>1
    <3>2. CASE j < i
      BY <2>1, <2>2, <3>2, <3>4, <3>5
    <3>3. CASE i < j
      BY <2>1, <2>2, <3>3, <3>4, <3>5
    <3> QED BY <3>1, <3>2, <3>3
  <2>3. loaded[a] = IF Here(a) = {} THEN mem[a]
                    ELSE LET k == CHOOSE k \in Here(a) : TRUE
                         IN  <<new[Overlays[k]], a - org[k]>>
    BY <2>1 DEF LoadPacked
  <2>4. CASE i \in load
    <3>1. Here(a) = {i}
      <4> HIDE DEF org, len, a, load
      <4> QED BY <1>1, <2>1, <2>2, <2>4
    <3>2. (CHOOSE k \in Here(a) : TRUE) = i
      BY <3>1
    <3> QED BY <2>1, <2>3, <3>1, <3>2
  <2>5. CASE i \notin load
    <3>1. Here(a) = {}
      <4> HIDE DEF org, len, a, load
      <4> QED BY <1>1, <2>1, <2>2, <2>5
    <3>2. \A j \in 1 .. i : old[Overlays[j]] = new[Overlays[j]]
      BY <2>5 DEF Reloaded
    <3>3. 1 \notin load
      <4>1. \A j \in 1 .. 1 : j \in 1 .. i
        OBVIOUS
      <4> QED BY <3>2, <4>1 DEF Reloaded
    <3>4. Codes(old) /\ InPlace(mem, old)
      BY <3>3
    <3>5. Origin(old)[i] = org[i]
      <4>1. \A j \in 1 .. i : Length(old[Overlays[j]]) = len(j)
        BY <3>2
      <4>2. \A j \in 1 .. 3 : Origin(old)[j + 1] = Origin(old)[j] + Length(old[Overlays[j]])
        BY <3>4, Packing
      <4>3. \A j \in 1 .. 3 : org[j + 1] = org[j] + len(j)
        BY Packing
      <4>4. Origin(old)[1] = 0 /\ org[1] = 0
        BY <3>4, Packing
      <4> HIDE DEF org, len
      <4>5. 1 + 1 = 2 /\ 2 + 1 = 3 /\ 3 + 1 = 4
        OBVIOUS
      <4>6. i = 1 \/ i = 2 \/ i = 3 \/ i = 4
        OBVIOUS
      <4>7. CASE i = 1
        BY <4>4, <4>7
      <4>8. CASE i = 2
        BY <4>1, <4>2, <4>3, <4>4, <4>5, <4>8
      <4>9. CASE i = 3
        BY <4>1, <4>2, <4>3, <4>4, <4>5, <4>9
      <4>10. CASE i = 4
        BY <4>1, <4>2, <4>3, <4>4, <4>5, <4>10
      <4> QED BY <4>6, <4>7, <4>8, <4>9, <4>10
    <3>6. old[Overlays[i]] = new[Overlays[i]]
      BY <3>2
    <3>7. mem[Origin(old)[i] + w] = <<old[Overlays[i]], w>>
      BY <3>4, <3>6 DEF InPlace
    <3> QED BY <2>3, <3>1, <3>5, <3>6, <3>7
  <2> QED BY <2>4, <2>5
<1> QED BY <1>5 DEF InPlace

(* Without DMA the memory stays as it is.                                     *)
LEMMA LoadNothing ==
  ASSUME NEW mem, mem = [a \in DOMAIN mem |-> mem[a]], NEW new
  PROVE  LoadPacked(mem, new, {}) = mem
<1>1. \A a \in DOMAIN mem : LoadPacked(mem, new, {})[a] = mem[a]
  BY DEF LoadPacked
<1>2. LoadPacked(mem, new, {}) = [a \in DOMAIN mem |-> mem[a]]
  BY DEF LoadPacked
<1> QED BY <1>2

-----------------------------------------------------------------------------
(* Setters. *)

(* What a setter changes it flags, unless what is derived from it stays the   *)
(* same or is not wanted; only a texture may be bound without a flag.         *)
Covered ==
  /\ SettingTypes' /\ gcFlags' \subseteq Flags \cup {"INVALIDATED"}
  /\ "PIPELINE" \notin gcFlags' =>
       "PIPELINE" \notin gcFlags /\ Pipeline(gl') = Pipeline(gl)
  /\ \A b \in Derived : b \notin gcFlags' /\ Wanted(b, gl') =>
       /\ b \notin gcFlags /\ Wanted(b, gl)
       /\ Derive(b, gl', gcPipe) = Derive(b, gl, gcPipe)
  /\ "TEXTURE" \notin gcFlags' =>
       "TEXTURE" \notin gcFlags /\ (gl'.bound = gl.bound \/ ~gl.texture)

SetterTypes == SettingTypes /\ gcFlags \subseteq Flags \cup {"INVALIDATED"}

(* The pipeline depends on some of the settings only.                         *)
LEMMA SamePipeline ==
  ASSUME NEW s, NEW t,
         s.texture = t.texture, s.env = t.env, s.linear = t.linear,
         s.bound = t.bound, s.lighting = t.lighting, s.fog = t.fog,
         s.chromakey = t.chromakey, Blend(s) = Blend(t),
         s.depthMask = t.depthMask
  PROVE  Pipeline(s) = Pipeline(t)
<1>1. Merge(s) = Merge(t)
  BY DEF Merge, palette
<1>2. Rasterizer(s) = Rasterizer(t)
  BY <1>1 DEF Rasterizer, palette
<1> QED BY <1>2 DEF Pipeline

(* glEnable and glDisable cover what they change.                             *)
LEMMA EnablesCovered ==
  ASSUME SetterTypes, Enables
  PROVE  Covered
<1> USE DEF SetterTypes, SettingTypes, Set, Raise, RaiseIf, Flags, Blocks
<1>1. PICK on \in BOOLEAN :
        \/ EnableTexture(on) \/ EnableFog(on) \/ EnableLighting(on)
        \/ EnableOther("blend", on) \/ EnableOther("chromakey", on)
        \/ EnableDepthTest(on) \/ EnableLight(on)
  BY DEF Enables
<1>2. CASE EnableTexture(on)
  <2>1. gl' = [gl EXCEPT !.texture = on] /\ gcFlags' = gcFlags \cup {"PIPELINE"}
    BY <1>2 DEF EnableTexture
  <2> QED BY <2>1 DEF Covered, Derived, Wanted, Derive
<1>3. CASE EnableFog(on)
  <2>1. gl' = [gl EXCEPT !.fog = on]
    BY <1>3 DEF EnableFog
  <2>2. on => gcFlags' = gcFlags \cup {"FOG", "PIPELINE"}
    BY <1>3 DEF EnableFog
  <2>3. ~on => gcFlags' = (gcFlags \cup {"PIPELINE"}) \ {"FOG"}
    BY <1>3 DEF EnableFog
  <2>4. /\ "PIPELINE" \in gcFlags' /\ gcFlags \ {"FOG"} \subseteq gcFlags'
        /\ on => "FOG" \in gcFlags'
        /\ gcFlags' \subseteq Flags \cup {"INVALIDATED"}
    <3>1. CASE on
      BY <2>2, <3>1 DEF Derived
    <3>2. CASE ~on
      BY <2>3, <3>2
    <3> QED BY <3>1, <3>2
  <2> QED BY <2>1, <2>4 DEF Covered, Derived, Wanted, Derive
<1>4. CASE EnableLighting(on)
  <2>1. gl' = [gl EXCEPT !.lighting = on]
    BY <1>4 DEF EnableLighting
  <2>2. on => gcFlags' = gcFlags \cup {"LIGHTING", "PIPELINE"}
    BY <1>4 DEF EnableLighting
  <2>3. ~on => gcFlags' = (gcFlags \cup {"PIPELINE"}) \ {"LIGHTING"}
    BY <1>4 DEF EnableLighting
  <2>4. /\ "PIPELINE" \in gcFlags' /\ gcFlags \ {"LIGHTING"} \subseteq gcFlags'
        /\ on => "LIGHTING" \in gcFlags'
        /\ gcFlags' \subseteq Flags \cup {"INVALIDATED"}
    <3>1. CASE on
      BY <2>2, <3>1 DEF Derived
    <3>2. CASE ~on
      BY <2>3, <3>2
    <3> QED BY <3>1, <3>2
  <2> QED BY <2>1, <2>4 DEF Covered, Derived, Wanted, Derive
<1>5. CASE EnableOther("blend", on)
  <2>1. gl' = [gl EXCEPT !.blend = on] /\ gcFlags' = gcFlags \cup {"PIPELINE"}
    BY <1>5 DEF EnableOther
  <2> QED BY <2>1 DEF Covered, Derived, Wanted, Derive
<1>6. CASE EnableOther("chromakey", on)
  <2>1. gl' = [gl EXCEPT !.chromakey = on] /\ gcFlags' = gcFlags \cup {"PIPELINE"}
    BY <1>6 DEF EnableOther
  <2> QED BY <2>1 DEF Covered, Derived, Wanted, Derive
<1>7. CASE EnableDepthTest(on)
  <2>1. /\ gl' = [gl EXCEPT !.depthTest = on]
        /\ gcFlags' = gcFlags \cup {"PIPELINE", "RENDER_BUFFER"}
    BY <1>7 DEF EnableDepthTest
  <2> QED BY <2>1 DEF Covered, Derived, Wanted, Derive
<1>8. CASE EnableLight(on)
  <2>1. /\ gl' = [gl EXCEPT !.lightOn = on]
        /\ gcFlags' = IF gl.lighting THEN gcFlags \cup {"LIGHTING"} ELSE gcFlags
    BY <1>8 DEF EnableLight
  <2>2. Pipeline(gl') = Pipeline(gl)
    BY <2>1, SamePipeline DEF Blend
  <2> QED BY <2>1, <2>2 DEF Covered, Derived, Wanted, Derive
<1> QED BY <1>1, <1>2, <1>3, <1>4, <1>5, <1>6, <1>7, <1>8

(* So do the settings of pipeline and rasterizer.                             *)
LEMMA ModesCovered ==
  ASSUME SetterTypes,
         \/ \E f \in {"LESS", "ALWAYS"} : glDepthFunc(f)
         \/ \E on \in BOOLEAN : glDepthMask(on) \/ glBlendFunc(on) \/ glTexParameter(on)
         \/ \E mode \in {"MODULATE", "REPLACE"} : glTexEnv(mode)
  PROVE  Covered
<1> USE DEF SetterTypes, SettingTypes, Set, Raise, RaiseIf, Flags, Blocks
<1>1. ASSUME NEW f \in {"LESS", "ALWAYS"}, glDepthFunc(f) PROVE Covered
  <2>1. /\ gl' = [gl EXCEPT !.depthFunc = f]
        /\ gcFlags' = IF gl.depthTest THEN gcFlags \cup {"PIPELINE", "RENDER_BUFFER"}
                      ELSE gcFlags
    BY <1>1 DEF glDepthFunc
  <2>2. ~gl.depthTest => Pipeline(gl') = Pipeline(gl)
    BY <2>1, SamePipeline DEF Blend
  <2> QED BY <2>1, <2>2 DEF Covered, Derived, Wanted, Derive
<1>2. ASSUME NEW on \in BOOLEAN, glDepthMask(on) PROVE Covered
  <2>1. gl' = [gl EXCEPT !.depthMask = on] /\ gcFlags' = gcFlags \cup {"PIPELINE"}
    BY <1>2 DEF glDepthMask
  <2> QED BY <2>1 DEF Covered, Derived, Wanted, Derive
<1>3. ASSUME NEW on \in BOOLEAN, glBlendFunc(on) PROVE Covered
  <2>1. /\ gl' = [gl EXCEPT !.blendAlpha = on]
        /\ gcFlags' = IF gl.blend THEN gcFlags \cup {"PIPELINE"} ELSE gcFlags
    BY <1>3 DEF glBlendFunc
  <2>2. ~gl.blend => Pipeline(gl') = Pipeline(gl)
    BY <2>1, SamePipeline DEF Blend
  <2> QED BY <2>1, <2>2 DEF Covered, Derived, Wanted, Derive
<1>4. ASSUME NEW on \in BOOLEAN, glTexParameter(on) PROVE Covered
  <2>1. gl' = [gl EXCEPT !.linear = on] /\ gcFlags' = gcFlags \cup {"PIPELINE"}
    BY <1>4 DEF glTexParameter
  <2> QED BY <2>1 DEF Covered, Derived, Wanted, Derive
<1>5. ASSUME NEW mode \in {"MODULATE", "REPLACE"}, glTexEnv(mode) PROVE Covered
  <2>1. gl' = [gl EXCEPT !.env = mode] /\ gcFlags' = gcFlags \cup {"PIPELINE"}
    BY <1>5 DEF glTexEnv
  <2> QED BY <2>1 DEF Covered, Derived, Wanted, Derive
<1> QED BY <1>1, <1>2, <1>3, <1>4, <1>5

(* So do the values that blocks are computed from.                            *)
LEMMA ValuesCovered ==
  ASSUME SetterTypes, NEW v \in Values,
         \/ glFog(v) \/ glLight(v) \/ glMaterial(v) \/ glShininess(v)
         \/ Modelview(v) \/ Projection(v) \/ glViewport(v) \/ glDrawBuffer(v)
  PROVE  Covered
<1> USE DEF SetterTypes, SettingTypes, Set, Raise, RaiseIf, Flags, Blocks
<1>1. CASE glFog(v)
  <2>1. gl' = [gl EXCEPT !.fogRange = v] /\ gcFlags' = gcFlags \cup {"FOG"}
    BY <1>1 DEF glFog
  <2>2. Pipeline(gl') = Pipeline(gl)
    BY <2>1, SamePipeline DEF Blend
  <2> QED BY <2>1, <2>2 DEF Covered, Derived, Wanted, Derive
<1>2. CASE glLight(v)
  <2>1. /\ gl' = [gl EXCEPT !.light = v]
        /\ gcFlags' = IF gl.lighting /\ gl.lightOn THEN gcFlags \cup {"LIGHTING"}
                      ELSE gcFlags
    BY <1>2 DEF glLight
  <2>2. Pipeline(gl') = Pipeline(gl)
    BY <2>1, SamePipeline DEF Blend
  <2> QED BY <2>1, <2>2 DEF Covered, Derived, Wanted, Derive
<1>3. CASE glMaterial(v)
  <2>1. /\ gl' = [gl EXCEPT !.material = v]
        /\ gcFlags' = IF gl.lighting THEN gcFlags \cup {"LIGHTING"} ELSE gcFlags
    BY <1>3 DEF glMaterial
  <2>2. Pipeline(gl') = Pipeline(gl)
    BY <2>1, SamePipeline DEF Blend
  <2> QED BY <2>1, <2>2 DEF Covered, Derived, Wanted, Derive
<1>4. CASE glShininess(v)
  <2>1. /\ gl' = [gl EXCEPT !.shininess = v]
        /\ gcFlags' = gcFlags \cup {"MATERIAL_SHININESS"}
    BY <1>4 DEF glShininess
  <2>2. Pipeline(gl') = Pipeline(gl)
    BY <2>1, SamePipeline DEF Blend
  <2> QED BY <2>1, <2>2 DEF Covered, Derived, Wanted, Derive
<1>5. CASE Modelview(v)
  <2>1. /\ gl' = [gl EXCEPT !.modelview = v]
        /\ gcFlags' = gcFlags \cup ({"TOTAL_MATRIX"} \cup
                      (IF gl.lighting THEN {"LIGHTING"} ELSE {}))
    BY <1>5 DEF Modelview
  <2>2. Pipeline(gl') = Pipeline(gl)
    BY <2>1, SamePipeline DEF Blend
  <2> QED BY <2>1, <2>2 DEF Covered, Derived, Wanted, Derive
<1>6. CASE Projection(v)
  <2>1. /\ gl' = [gl EXCEPT !.projection = v]
        /\ gcFlags' = gcFlags \cup {"TOTAL_MATRIX"}
    BY <1>6 DEF Projection
  <2>2. Pipeline(gl') = Pipeline(gl)
    BY <2>1, SamePipeline DEF Blend
  <2> QED BY <2>1, <2>2 DEF Covered, Derived, Wanted, Derive
<1>7. CASE glViewport(v)
  <2>1. gl' = [gl EXCEPT !.viewport = v] /\ gcFlags' = gcFlags \cup {"VIEWPORT"}
    BY <1>7 DEF glViewport
  <2>2. Pipeline(gl') = Pipeline(gl)
    BY <2>1, SamePipeline DEF Blend
  <2> QED BY <2>1, <2>2 DEF Covered, Derived, Wanted, Derive
<1>8. CASE glDrawBuffer(v)
  <2>1. /\ gl' = [gl EXCEPT !.renderBuffer = v]
        /\ gcFlags' = gcFlags \cup {"RENDER_BUFFER"}
    BY <1>8 DEF glDrawBuffer
  <2>2. Pipeline(gl') = Pipeline(gl)
    BY <2>1, SamePipeline DEF Blend
  <2> QED BY <2>1, <2>2 DEF Covered, Derived, Wanted, Derive
<1> QED BY <1>1, <1>2, <1>3, <1>4, <1>5, <1>6, <1>7, <1>8

(* mglSetTexture covers the rasterizer: without a change of palette, or while *)
(* texturing is disabled, the same one is chosen.                             *)
LEMMA TextureCovered ==
  ASSUME SetterTypes, NEW t \in Textures \cup {Null}, mglSetTexture(t)
  PROVE  Covered
<1> USE DEF SetterTypes, SettingTypes, Flags, Blocks
<1> DEFINE u == IF t = Null THEN DefaultTexture ELSE t
<1>1. /\ gl' = [gl EXCEPT !.bound = u] /\ u \in Textures
      /\ gcFlags' = IF gl.texture
                    THEN gcFlags \cup ({"TEXTURE"} \cup
                         (IF (t \in Clut) # palette(gl) THEN {"PIPELINE"} ELSE {}))
                    ELSE gcFlags
  BY ValidateAssumption DEF mglSetTexture, Set, RaiseIf
<1>2. (u \in Clut) <=> (t \in Clut)
  BY ValidateAssumption
<1> HIDE DEF u
<1>3. Merge(gl') = Merge(gl) \/ "PIPELINE" \in gcFlags'
  BY <1>1, <1>2 DEF Merge, Blend, palette
<1>4. Rasterizer(gl') = Rasterizer(gl) \/ "PIPELINE" \in gcFlags'
  BY <1>1, <1>2, <1>3 DEF Rasterizer, palette
<1>5. Pipeline(gl') = Pipeline(gl) \/ "PIPELINE" \in gcFlags'
  BY <1>1, <1>4 DEF Pipeline
<1> QED BY <1>1, <1>5 DEF Covered, Derived, Wanted, Derive

(* All setters do.                                                            *)
LEMMA SetterCovers ==
  ASSUME SetterTypes, Enables \/ Settings
  PROVE  /\ Covered
         /\ ~drawing /\ UNCHANGED <<gcPipe, gcData, drawing, mpeVars>>
<1>1. CASE Enables
  <2>1. ~drawing /\ UNCHANGED <<gcPipe, gcData, drawing, mpeVars>>
    BY <1>1 DEF Enables, EnableTexture, EnableFog, EnableLighting, EnableOther,
                EnableDepthTest, EnableLight, Set
  <2> QED BY <1>1, <2>1, EnablesCovered
<1>2. CASE Settings
  <2>1. ~drawing /\ UNCHANGED <<gcPipe, gcData, drawing, mpeVars>>
    BY <1>2 DEF Settings, glDepthFunc, glDepthMask, glBlendFunc, glTexParameter,
                glTexEnv, glFog, glLight, glMaterial, glShininess, Modelview,
                Projection, glViewport, glDrawBuffer, mglSetTexture, Set
  <2>2. Covered
    BY <1>2, ModesCovered, ValuesCovered, TextureCovered DEF Settings
  <2> QED BY <2>1, <2>2
<1> QED BY <1>1, <1>2

-----------------------------------------------------------------------------
(* The invariant. *)

(* Initially everything is flagged, and no MPE has been started.              *)
LEMMA InitInv == Init => IInv /\ TextureInv /\ LightInv
<1> SUFFICES ASSUME Init PROVE IInv /\ TextureInv /\ LightInv
  OBVIOUS
<1>1. ContextTypes
  <2>1. SettingTypes
    BY ValidateAssumption DEF Init, SettingTypes
  <2>2. PipeShape(gcPipe) /\ DOMAIN gcPipe = Keys
    BY DEF Init, PipeShape, Keys
  <2> QED BY <2>1, <2>2 DEF Init, ContextTypes
<1>2. MPETypes
  BY DEF Init, MPETypes, Flags
<1>3. PipeInv /\ DataInv /\ DrawingInv
  BY DEF Init, PipeInv, DataInv, DrawingInv, Flags, Blocks
<1>4. \A m \in MPEs : Booting(m)
  BY DEF Init, Booting
<1>5. LightInv
  BY DEF Init, LightInv
<1> QED BY <1>1, <1>2, <1>3, <1>4, <1>5 DEF IInv, MPEInv, TextureInv

(* Flags of the context do not matter to what MPEs have.                      *)
LEMMA SameMPEs ==
  ASSUME MPETypes, MPEInv, UNCHANGED <<varied, gcPipe, gcData, mpeVars>>
  PROVE  MPETypes' /\ MPEInv'
<1>1. /\ varied' = varied /\ gcPipe' = gcPipe /\ gcData' = gcData
      /\ mpeFlags' = mpeFlags /\ mpePipe' = mpePipe /\ mpeData' = mpeData
      /\ packed' = packed /\ fixed' = fixed
  BY DEF mpeVars
<1>2. MPETypes'
  BY <1>1 DEF MPETypes
<1>3. ASSUME NEW m \in MPEs PROVE /\ Booting(m)' \/ UpToDate(m)'
                                  /\ m \notin Rendering[varied]' => Booting(m)'
  <2>1. Booting(m)' <=> Booting(m)
    BY <1>1 DEF Booting
  <2>2. UpToDate(m) => UpToDate(m)'
    <3>1. Codes(mpePipe[m]) => Codes(mpePipe[m])'
      BY <1>1 DEF Codes
    <3>2. InPlace(packed[m], mpePipe[m]) => InPlace(packed[m], mpePipe[m])'
      BY <1>1 DEF InPlace
    <3> QED BY <1>1, <3>1, <3>2 DEF UpToDate
  <2> QED BY <1>1, <2>1, <2>2 DEF MPEInv
<1> QED BY <1>2, <1>3 DEF MPEInv

(* Setters preserve the invariant.                                            *)
LEMMA SetterInv ==
  ASSUME IInv, Enables \/ Settings, UNCHANGED varied
  PROVE  IInv'
<1>1. Covered /\ ~drawing /\ UNCHANGED <<gcPipe, gcData, drawing, mpeVars>>
  BY SetterCovers DEF IInv, ContextTypes, SetterTypes
<1>2. ContextTypes'
  BY <1>1 DEF IInv, ContextTypes, Covered, PipeShape
<1>3. MPETypes' /\ MPEInv'
  BY <1>1, SameMPEs DEF IInv
<1>4. PipeInv'
  BY <1>1 DEF IInv, PipeInv, Covered
<1>5. DataInv'
  <2> SUFFICES ASSUME NEW b \in Derived \ {"LIGHTING"}, b \notin gcFlags',
                      Wanted(b, gl')
               PROVE  gcData[b] = Derive(b, gl', gcPipe)
    BY <1>1 DEF DataInv
  <2> QED BY <1>1 DEF IInv, DataInv, Covered
<1>6. DrawingInv'
  BY <1>1 DEF DrawingInv
<1> QED BY <1>2, <1>3, <1>4, <1>5, <1>6 DEF IInv

(* The flags that a validation passes on, and the data that it leaves.        *)
Passed == RaiseIf(LighterChange, {"LIGHTING"})

(* What the drawing calls and the swap have in common.                        *)
Validated ==
  /\ ~drawing /\ ValidateGC
  /\ \/ gl' = gl /\ gcFlags' = {}
     \/ \E v \in Values : /\ gl' = [gl EXCEPT !.renderBuffer = v]
                          /\ gcFlags' = {"RENDER_BUFFER"} /\ ~drawing'
  /\ drawing' \in BOOLEAN
  /\ UNCHANGED <<varied, mpePipe, mpeData, packed, fixed>>

(* A validation leaves the context with the pipeline and the data of the      *)
(* settings it finds.                                                         *)
LEMMA ValidatedContext ==
  ASSUME IInv, Validated
  PROVE  /\ gcPipe' = Pipeline(gl)
         /\ \A b \in Derived : b \in Passed => gcData'[b] = Derive(b, gl, gcPipe')
         /\ \A b \in Derived : b \notin Passed => gcData'[b] = gcData[b]
         /\ gcFlags \subseteq Passed
         /\ Passed \subseteq Flags \cup {"INVALIDATED"}
         /\ DOMAIN gcData' = Derived
         /\ mpeFlags' = [m \in MPEs |-> IF m \in Rendering[varied]
                                       THEN mpeFlags[m] \cup Passed ELSE mpeFlags[m]]
<1>1. gcPipe' = Pipeline(gl)
  BY DEF Validated, ValidateGC, IInv, PipeInv
<1>2. gcFlags \subseteq Passed /\ Passed \subseteq Flags \cup {"INVALIDATED"}
  BY DEF Passed, RaiseIf, IInv, ContextTypes, Flags, Blocks, Derived
<1>3. gcData' = [b \in Derived |->
                   IF b \in Passed THEN Derive(b, gl, gcPipe') ELSE gcData[b]]
  BY DEF Validated, ValidateGC, Passed
<1>4. mpeFlags' = [m \in MPEs |-> IF m \in Rendering[varied]
                                  THEN mpeFlags[m] \cup Passed ELSE mpeFlags[m]]
  BY DEF Validated, ValidateGC, Passed
<1> QED BY <1>1, <1>2, <1>3, <1>4

(* Data that no setting of pipeline or renderBuffer enters stay current.      *)
LEMMA DeriveSame ==
  ASSUME NEW b \in Derived \ {"LIGHTING"}, NEW s, NEW p, NEW q
  PROVE  Derive(b, s, p) = Derive(b, s, q)
BY DEF Derive, Derived

LEMMA DeriveSwapped ==
  ASSUME NEW b \in Derived \ {"RENDER_BUFFER"}, NEW v, NEW p, SettingTypes
  PROVE  Derive(b, [gl EXCEPT !.renderBuffer = v], p) = Derive(b, gl, p)
BY DEF Derive, Derived, SettingTypes

(* Validations preserve the invariant.                                        *)
LEMMA ValidatedInv ==
  ASSUME IInv, Validated
  PROVE  IInv'
<1>1. /\ gcPipe' = Pipeline(gl)
      /\ \A b \in Derived : b \in Passed => gcData'[b] = Derive(b, gl, gcPipe')
      /\ \A b \in Derived : b \notin Passed => gcData'[b] = gcData[b]
      /\ gcFlags \subseteq Passed
      /\ Passed \subseteq Flags \cup {"INVALIDATED"}
      /\ DOMAIN gcData' = Derived
      /\ mpeFlags' = [m \in MPEs |-> IF m \in Rendering[varied]
                                     THEN mpeFlags[m] \cup Passed ELSE mpeFlags[m]]
  BY ValidatedContext
<1>2. SettingTypes /\ SettingTypes'
  BY DEF Validated, IInv, ContextTypes, SettingTypes
<1>3. Pipeline(gl') = Pipeline(gl)
  <2>1. CASE gl' = gl
    BY <2>1
  <2>2. ASSUME NEW v \in Values, gl' = [gl EXCEPT !.renderBuffer = v]
        PROVE  Pipeline(gl') = Pipeline(gl)
    BY <1>2, <2>2, SamePipeline DEF SettingTypes, Blend
  <2> QED BY <2>1, <2>2 DEF Validated
<1>4. ContextTypes'
  <2>1. PipeShape(gcPipe') /\ DOMAIN gcPipe' = Keys
    BY <1>1, <1>2, PipelineFacts DEF SettingTypes
  <2>2. gcFlags' \subseteq Flags \cup {"INVALIDATED"}
    BY DEF Validated, Flags, Blocks, Derived
  <2> QED BY <1>1, <1>2, <2>1, <2>2 DEF ContextTypes, IInv, Validated, PipeShape
<1>5. MPETypes'
  <2>1. mpeFlags' \in [MPEs -> SUBSET (Flags \cup {"INVALIDATED"})]
    BY <1>1 DEF IInv, MPETypes
  <2> QED BY <2>1 DEF IInv, MPETypes, Validated
<1>6. PipeInv'
  BY <1>1, <1>3 DEF PipeInv
<1>7. DataInv'
  <2> SUFFICES ASSUME NEW b \in Derived \ {"LIGHTING"}, b \notin gcFlags',
                      Wanted(b, gl')
               PROVE  gcData'[b] = Derive(b, gl', gcPipe')
    BY DEF DataInv
  <2>1. Wanted(b, gl)
    BY <1>2 DEF Wanted, Validated, SettingTypes
  <2>2. gcData'[b] = Derive(b, gl, gcPipe')
    <3>1. CASE b \in Passed
      BY <1>1, <3>1
    <3>2. CASE b \notin Passed
      <4>1. gcData[b] = Derive(b, gl, gcPipe)
        BY <1>1, <2>1, <3>2 DEF IInv, DataInv
      <4> QED BY <1>1, <3>2, <4>1, DeriveSame
    <3> QED BY <3>1, <3>2
  <2>3. CASE gl' = gl
    BY <2>2, <2>3
  <2>4. ASSUME NEW v \in Values, gl' = [gl EXCEPT !.renderBuffer = v],
               gcFlags' = {"RENDER_BUFFER"}
        PROVE  Derive(b, gl', gcPipe') = Derive(b, gl, gcPipe')
    BY <1>2, <2>4, DeriveSwapped
  <2> QED BY <2>2, <2>3, <2>4 DEF Validated
<1>8. DrawingInv'
  BY DEF DrawingInv, Validated
<1>9. MPEInv'
  <2> SUFFICES ASSUME NEW m \in MPEs
               PROVE  /\ Booting(m)' \/ UpToDate(m)'
                      /\ m \notin Rendering[varied] => Booting(m)'
    BY DEF MPEInv, Validated
  <2>1. mpeFlags[m] \subseteq mpeFlags'[m]
    BY <1>1
  <2>2. Booting(m) => Booting(m)'
    BY <2>1 DEF Booting
  <2>3. ASSUME ~Booting(m) PROVE UpToDate(m)'
    <3>1. UpToDate(m) /\ m \in Rendering[varied]
      BY <2>3 DEF IInv, MPEInv
    <3>2. mpeFlags'[m] = mpeFlags[m] \cup Passed
      BY <1>1, <3>1
    <3>3. "PIPELINE" \notin Passed => gcPipe' = gcPipe
      BY <1>1 DEF IInv, PipeInv
    <3>4. Codes(mpePipe[m])' /\ InPlace(packed[m], mpePipe[m])'
      BY <3>1 DEF UpToDate, Validated, Codes, InPlace
    <3>5. /\ mpePipe'[m] = mpePipe[m] /\ fixed'[m] = fixed[m]
          /\ mpeData'[m] = mpeData[m]
      BY DEF Validated
    <3>6. \A b \in Derived : b \notin mpeFlags'[m] => mpeData'[m][b] = gcData'[b]
      BY <1>1, <3>1, <3>2, <3>5 DEF UpToDate
    <3> QED BY <3>1, <3>2, <3>3, <3>4, <3>5, <3>6 DEF UpToDate
  <2> QED BY <2>2, <2>3 DEF IInv, MPEInv
<1> QED BY <1>4, <1>5, <1>6, <1>7, <1>8, <1>9 DEF IInv

(* Drawing calls and swaps are validations.                                   *)
LEMMA ValidationValidates ==
  ASSUME IInv, Validation, UNCHANGED varied
  PROVE  Validated
<1>1. CASE BeginDrawing
  BY <1>1 DEF BeginDrawing, Validated
<1>4. drawing \in BOOLEAN
  BY DEF IInv, ContextTypes
<1>2. CASE glFlush
  BY <1>2, <1>4 DEF glFlush, Validated
<1>3. ASSUME NEW v \in Values, mglSwapBuffers(v) PROVE Validated
  BY <1>3, <1>4 DEF mglSwapBuffers, Validated
<1> QED BY <1>1, <1>2, <1>3 DEF Validation

(* Dispatch brings an MPE up to date, by code that it loads over what it has. *)
LEMMA DispatchCode ==
  ASSUME IInv, NEW m \in MPEs, Dispatch(m)
  PROVE  /\ gcPipe = Pipeline(gl) /\ gcFlags = {}
         /\ mpePipe'[m] = gcPipe /\ InPlace(packed'[m], gcPipe)
         /\ DOMAIN packed'[m] = 0 .. OverlayTop - 1
         /\ packed'[m] = [a \in DOMAIN packed'[m] |-> packed'[m][a]]
         /\ DOMAIN fixed'[m] = {"clipper", "rasterizer"}
         /\ fixed'[m].clipper = gcPipe.clipper
         /\ fixed'[m].rasterizer = gcPipe.rasterizer
<1> DEFINE flags == IF Booting(m) THEN Flags ELSE mpeFlags[m]
           old == Believed(m)
           load == IF "PIPELINE" \in flags THEN Reloaded(old, gcPipe) ELSE {}
<1>1. gcPipe = Pipeline(gl) /\ gcFlags = {}
  BY DEF Dispatch, IInv, DrawingInv, PipeInv
<1>2. /\ Codes(gcPipe) /\ DOMAIN gcPipe = Keys
      /\ gcPipe.loader # Null /\ gcPipe.clipper # Null /\ gcPipe.rasterizer # Null
      /\ Length(gcPipe.loader) + Length(gcPipe.lighter)
         + Length(gcPipe.transformer) + Length(gcPipe.trivia) <= OverlayTop
  BY <1>1, PipelineFacts DEF IInv, ContextTypes, SettingTypes
<1>3. /\ mpePipe'[m] = IF "PIPELINE" \in flags THEN gcPipe ELSE old
      /\ packed'[m] = LoadPacked(packed[m], gcPipe, load)
      /\ fixed'[m] = [k \in DOMAIN fixed[m] |->
                        IF "PIPELINE" \in flags /\ old[k] # gcPipe[k] THEN gcPipe[k]
                        ELSE fixed[m][k]]
  BY DEF Dispatch, IInv, MPETypes
<1>4. /\ packed[m] = [a \in DOMAIN packed[m] |-> packed[m][a]]
      /\ DOMAIN packed[m] = 0 .. OverlayTop - 1
      /\ DOMAIN fixed[m] = {"clipper", "rasterizer"}
  BY DEF IInv, MPETypes
<1>5. DOMAIN packed'[m] = 0 .. OverlayTop - 1
      /\ packed'[m] = [a \in DOMAIN packed'[m] |-> packed'[m][a]]
  BY <1>3, <1>4 DEF LoadPacked
<1>6. CASE Booting(m)
  <2>1. "PIPELINE" \in flags
    BY <1>6 DEF Flags
  <2>2. \A k \in Keys : old[k] = Null
    BY <1>2, <1>6 DEF Believed
  <2>3. 1 \in Reloaded(old, gcPipe)
    <3>1. old[Overlays[1]] # gcPipe[Overlays[1]] /\ 1 \in 1 .. 1 /\ 1 \in 1 .. 4
      BY <1>2, <2>2, OverlayNames DEF Keys
    <3> QED BY <3>1 DEF Reloaded
  <2>4. InPlace(packed'[m], gcPipe)
    BY <1>2, <1>3, <1>4, <2>1, <2>3, LoadInPlace
  <2>5. fixed'[m].clipper = gcPipe.clipper /\ fixed'[m].rasterizer = gcPipe.rasterizer
    <3>1. old["clipper"] = Null /\ old["rasterizer"] = Null
      BY <2>2 DEF Keys
    <3> HIDE DEF old, flags
    <3> QED BY <1>2, <1>3, <1>4, <2>1, <3>1
  <2> QED BY <1>1, <1>3, <1>4, <1>5, <2>1, <2>4, <2>5
<1>7. CASE ~Booting(m)
  <2>1. UpToDate(m) /\ old = mpePipe[m] /\ flags = mpeFlags[m]
    BY <1>7 DEF IInv, MPEInv, Believed
  <2>2. Codes(old) /\ InPlace(packed[m], old)
        /\ fixed[m].clipper = old.clipper /\ fixed[m].rasterizer = old.rasterizer
    BY <2>1 DEF UpToDate
  <2>3. CASE "PIPELINE" \in flags
    <3>1. InPlace(packed'[m], gcPipe)
      <4> HIDE DEF old, flags
      <4> QED BY <1>2, <1>3, <1>4, <2>2, <2>3, LoadInPlace
    <3>2. fixed'[m].clipper = gcPipe.clipper /\ fixed'[m].rasterizer = gcPipe.rasterizer
      <4> HIDE DEF old, flags
      <4> QED BY <1>3, <1>4, <2>2, <2>3
    <3> QED BY <1>1, <1>3, <1>4, <1>5, <2>3, <3>1, <3>2
  <2>4. CASE "PIPELINE" \notin flags
    <3>1. old = gcPipe
      BY <2>1, <2>4 DEF UpToDate
    <3>2. packed'[m] = packed[m]
      BY <1>3, <1>4, <2>4, LoadNothing
    <3>3. fixed'[m].clipper = fixed[m].clipper /\ fixed'[m].rasterizer = fixed[m].rasterizer
      BY <1>3, <1>4, <2>4
    <3> HIDE DEF old, flags
    <3> QED BY <1>1, <1>3, <1>4, <1>5, <2>2, <2>4, <3>1, <3>2, <3>3
  <2> QED BY <2>3, <2>4
<1> QED BY <1>6, <1>7

(* ... and by the data that its flags name.                                   *)
LEMMA DispatchData ==
  ASSUME IInv, NEW m \in MPEs, Dispatch(m)
  PROVE  /\ \A b \in Derived : mpeData'[m][b] = gcData[b]
         /\ TextureInv => mpeData'[m]["TEXTURE"] = gl.bound
         /\ DOMAIN mpeData'[m] = Blocks
<1> DEFINE flags == IF Booting(m) THEN Flags ELSE mpeFlags[m]
<1>1. mpeData'[m] = [b \in Blocks |->
                       IF b \in flags
                       THEN IF b = "TEXTURE" THEN gl.bound ELSE gcData[b]
                       ELSE mpeData[m][b]]
  BY DEF Dispatch, IInv, MPETypes
<1>2. Blocks \subseteq Flags /\ Derived \subseteq Blocks /\ "TEXTURE" \in Blocks
      /\ "TEXTURE" \notin Derived
  BY DEF Flags, Blocks, Derived
<1>3. gcFlags = {}
  BY DEF Dispatch, IInv, DrawingInv
<1>4. ASSUME NEW b \in Derived PROVE mpeData'[m][b] = gcData[b]
  <2>1. CASE b \in flags
    BY <1>1, <1>2, <2>1
  <2>2. CASE b \notin flags
    <3>1. ~Booting(m) /\ b \notin mpeFlags[m]
      BY <1>2, <2>2
    <3>2. mpeData[m][b] = gcData[b]
      BY <3>1 DEF IInv, MPEInv, UpToDate
    <3> QED BY <1>1, <1>2, <2>2, <3>2
  <2> QED BY <2>1, <2>2
<1>5. ASSUME TextureInv PROVE mpeData'[m]["TEXTURE"] = gl.bound
  <2>1. CASE "TEXTURE" \in flags
    BY <1>1, <1>2, <2>1
  <2>2. CASE "TEXTURE" \notin flags
    <3>1. ~Booting(m) /\ "TEXTURE" \notin mpeFlags[m]
      BY <1>2, <2>2
    <3>2. mpeData[m]["TEXTURE"] = gl.bound
      BY <1>3, <1>5, <3>1 DEF TextureInv
    <3> QED BY <1>1, <1>2, <2>2, <3>2
  <2> QED BY <2>1, <2>2
<1> QED BY <1>1, <1>4, <1>5

(* Steps that touch one MPE alone preserve the invariant if they keep that    *)
(* one's part.                                                                *)
LEMMA OneMPE ==
  ASSUME IInv, NEW m \in MPEs,
         UNCHANGED <<varied, gl, gcFlags, gcPipe, gcData, drawing>>,
         mpeFlags' \in [MPEs -> SUBSET (Flags \cup {"INVALIDATED"})],
         DOMAIN mpePipe' = MPEs, DOMAIN mpeData' = MPEs, DOMAIN packed' = MPEs,
         DOMAIN fixed' = MPEs,
         \A n \in MPEs : n # m =>
           /\ mpeFlags'[n] = mpeFlags[n] /\ mpePipe'[n] = mpePipe[n]
           /\ mpeData'[n] = mpeData[n] /\ packed'[n] = packed[n]
           /\ fixed'[n] = fixed[n],
         DOMAIN mpeData'[m] = Blocks, DOMAIN packed'[m] = 0 .. OverlayTop - 1,
         packed'[m] = [a \in DOMAIN packed'[m] |-> packed'[m][a]],
         DOMAIN fixed'[m] = {"clipper", "rasterizer"},
         Booting(m)' \/ UpToDate(m)',
         m \notin Rendering[varied] => Booting(m)'
  PROVE  IInv'
<1>1. ContextTypes' /\ PipeInv' /\ DataInv' /\ DrawingInv'
  BY DEF IInv, ContextTypes, SettingTypes, PipeShape, PipeInv, DataInv, DrawingInv
<1>2. MPETypes'
  <2> SUFFICES ASSUME NEW n \in MPEs
               PROVE  /\ DOMAIN mpeData'[n] = Blocks
                      /\ packed'[n] = [a \in DOMAIN packed'[n] |-> packed'[n][a]]
                      /\ DOMAIN packed'[n] = 0 .. OverlayTop - 1
                      /\ DOMAIN fixed'[n] = {"clipper", "rasterizer"}
    BY DEF MPETypes
  <2>1. CASE n = m
    BY <2>1
  <2>2. CASE n # m
    BY <2>2 DEF IInv, MPETypes
  <2> QED BY <2>1, <2>2
<1>3. MPEInv'
  <2> SUFFICES ASSUME NEW n \in MPEs
               PROVE  /\ Booting(n)' \/ UpToDate(n)'
                      /\ n \notin Rendering[varied] => Booting(n)'
    BY DEF MPEInv
  <2>1. CASE n = m
    BY <2>1
  <2>2. CASE n # m
    <3>1. /\ mpeFlags'[n] = mpeFlags[n] /\ mpePipe'[n] = mpePipe[n]
          /\ mpeData'[n] = mpeData[n] /\ packed'[n] = packed[n] /\ fixed'[n] = fixed[n]
      BY <2>2
    <3>2. Booting(n)' <=> Booting(n)
      BY <3>1 DEF Booting
    <3>3. Codes(mpePipe[n]) => Codes(mpePipe[n])'
      BY <3>1 DEF Codes
    <3>4. InPlace(packed[n], mpePipe[n])' <=> InPlace(packed[n], mpePipe[n])
      <4>1. packed'[n] = packed[n] /\ mpePipe'[n] = mpePipe[n]
        BY <3>1
      <4> QED BY <4>1 DEF InPlace
    <3>5. UpToDate(n) => UpToDate(n)'
      BY <3>1, <3>3, <3>4 DEF UpToDate
    <3> QED BY <3>2, <3>5 DEF IInv, MPEInv
  <2> QED BY <2>1, <2>2
<1> QED BY <1>1, <1>2, <1>3 DEF IInv

(* Sending a packet preserves the invariant,                                  *)
LEMMA DispatchInv ==
  ASSUME IInv, NEW m \in Rendering[varied], Dispatch(m), UNCHANGED varied
  PROVE  IInv'
<1>1. m \in MPEs
  BY ValidateAssumption DEF IInv, ContextTypes
<1>2. /\ gcPipe = Pipeline(gl) /\ gcFlags = {}
      /\ mpePipe'[m] = gcPipe /\ InPlace(packed'[m], gcPipe)
      /\ DOMAIN packed'[m] = 0 .. OverlayTop - 1
      /\ packed'[m] = [a \in DOMAIN packed'[m] |-> packed'[m][a]]
      /\ DOMAIN fixed'[m] = {"clipper", "rasterizer"}
      /\ fixed'[m].clipper = gcPipe.clipper
      /\ fixed'[m].rasterizer = gcPipe.rasterizer
  BY <1>1, DispatchCode
<1>3. /\ \A b \in Derived : mpeData'[m][b] = gcData[b]
      /\ DOMAIN mpeData'[m] = Blocks
  BY <1>1, DispatchData
<1>4. Codes(gcPipe)
  BY <1>2, PipelineFacts DEF IInv, ContextTypes, SettingTypes
<1>5. UNCHANGED <<varied, gl, gcFlags, gcPipe, gcData, drawing>>
  BY DEF Dispatch
<1>6. UpToDate(m)'
  <2>1. Codes(mpePipe[m])'
    BY <1>2, <1>4 DEF Codes
  <2>2. InPlace(packed[m], mpePipe[m])'
    BY <1>2 DEF InPlace
  <2> QED BY <1>2, <1>3, <1>5, <2>1, <2>2 DEF UpToDate
<1>7. /\ mpeFlags' \in [MPEs -> SUBSET (Flags \cup {"INVALIDATED"})]
      /\ DOMAIN mpePipe' = MPEs /\ DOMAIN mpeData' = MPEs
      /\ DOMAIN packed' = MPEs /\ DOMAIN fixed' = MPEs
      /\ \A n \in MPEs : n # m =>
           /\ mpeFlags'[n] = mpeFlags[n] /\ mpePipe'[n] = mpePipe[n]
           /\ mpeData'[n] = mpeData[n] /\ packed'[n] = packed[n]
           /\ fixed'[n] = fixed[n]
  BY <1>1 DEF Dispatch, IInv, MPETypes
<1> QED BY <1>1, <1>2, <1>3, <1>5, <1>6, <1>7, OneMPE

(* as does stopping an MPE.                                                   *)
LEMMA InvalidateInv ==
  ASSUME IInv, NEW m \in Rendering[varied], mglInvalidateMPE(m), UNCHANGED varied
  PROVE  IInv'
<1>1. m \in MPEs
  BY ValidateAssumption DEF IInv, ContextTypes
<1>2. UNCHANGED <<varied, gl, gcFlags, gcPipe, gcData, drawing>>
  BY DEF mglInvalidateMPE
<1>3. /\ mpeFlags' \in [MPEs -> SUBSET (Flags \cup {"INVALIDATED"})]
      /\ DOMAIN mpePipe' = MPEs /\ DOMAIN mpeData' = MPEs
      /\ DOMAIN packed' = MPEs /\ DOMAIN fixed' = MPEs
      /\ \A n \in MPEs : n # m =>
           /\ mpeFlags'[n] = mpeFlags[n] /\ mpePipe'[n] = mpePipe[n]
           /\ mpeData'[n] = mpeData[n] /\ packed'[n] = packed[n]
           /\ fixed'[n] = fixed[n]
  BY <1>1 DEF mglInvalidateMPE, IInv, MPETypes
<1>4. /\ mpeData'[m] = [b \in Blocks |-> Junk]
      /\ packed'[m] = [a \in 0 .. OverlayTop - 1 |-> Junk]
      /\ DOMAIN fixed'[m] = {"clipper", "rasterizer"}
      /\ "INVALIDATED" \in mpeFlags'[m]
  BY <1>1 DEF mglInvalidateMPE, IInv, MPETypes
<1>5. Booting(m)'
  BY <1>4 DEF Booting
<1> QED BY <1>1, <1>2, <1>3, <1>4, <1>5, OneMPE

(* Every step preserves the invariant.                                        *)
LEMMA NextInv ==
  ASSUME IInv, [Next]_vars
  PROVE  IInv'
<1>1. CASE UNCHANGED vars
  <2>1. ContextTypes' /\ PipeInv' /\ DataInv' /\ DrawingInv'
    BY <1>1 DEF vars, IInv, ContextTypes, SettingTypes, PipeShape, PipeInv, DataInv,
                DrawingInv
  <2>2. MPETypes' /\ MPEInv'
    BY <1>1, SameMPEs DEF vars, IInv
  <2> QED BY <2>1, <2>2 DEF IInv
<1>2. CASE Next
  <2>1. UNCHANGED varied
    BY <1>2 DEF Next
  <2>2. CASE Enables \/ Settings
    BY <2>1, <2>2, SetterInv
  <2>3. CASE Validation
    BY <2>1, <2>3, ValidationValidates, ValidatedInv
  <2>4. CASE EndDrawing
    <3>1. MPETypes' /\ MPEInv'
      BY <2>1, <2>4, SameMPEs DEF EndDrawing, IInv
    <3>2. UNCHANGED <<varied, gl, gcFlags, gcPipe, gcData>> /\ drawing' = FALSE
      BY <2>1, <2>4 DEF EndDrawing
    <3>3. ContextTypes'
      <4>1. SettingTypes' /\ PipeShape(gcPipe)'
        BY <3>2 DEF IInv, ContextTypes, SettingTypes, PipeShape
      <4> QED BY <3>2, <4>1 DEF IInv, ContextTypes
    <3>4. PipeInv' /\ DataInv' /\ DrawingInv'
      BY <3>2 DEF IInv, PipeInv, DataInv, DrawingInv
    <3> QED BY <3>1, <3>3, <3>4 DEF IInv
  <2>5. ASSUME NEW m \in Rendering[varied], Dispatch(m) PROVE IInv'
    BY <2>1, <2>5, DispatchInv
  <2>6. ASSUME NEW m \in Rendering[varied], mglInvalidateMPE(m) PROVE IInv'
    BY <2>1, <2>6, InvalidateInv
  <2> QED BY <1>2, <2>2, <2>3, <2>4, <2>5, <2>6 DEF Next, Validation
<1> QED BY <1>1, <1>2

(* The invariant holds in every reachable state.                              *)
LEMMA Invariance == Spec => []IInv
<1>1. Init => IInv
  BY InitInv
<1>2. IInv /\ [Next]_vars => IInv'
  BY NextInv
<1> QED BY <1>1, <1>2, PTL DEF Spec

-----------------------------------------------------------------------------
(* Textures and lights, for a disciplined application. *)

(* A texture is flagged when it is bound; an MPE that missed the flag is told *)
(* by the next validation.                                                    *)
LEMMA TextureStep ==
  ASSUME IInv, TextureInv, [Next]_vars, BindsEnabled
  PROVE  TextureInv'
<1>1. CASE UNCHANGED vars
  BY <1>1 DEF vars, mpeVars, TextureInv, Booting
<1>2. CASE Next /\ (Enables \/ Settings)
  <2>1. /\ Covered /\ ~drawing /\ UNCHANGED <<gcPipe, gcData, drawing, mpeVars>>
    BY <1>2, SetterCovers DEF IInv, ContextTypes, SetterTypes
  <2>2. "TEXTURE" \in gcFlags' \/ ("TEXTURE" \notin gcFlags /\ gl'.bound = gl.bound)
    BY <2>1 DEF Covered, BindsEnabled
  <2> QED BY <2>1, <2>2 DEF TextureInv, Booting, mpeVars
<1>3. CASE Next /\ Validation
  <2>1. Validated
    BY <1>3, ValidationValidates DEF Next
  <2>2. gl'.bound = gl.bound /\ mpeData' = mpeData
    BY <2>1 DEF Validated, IInv, ContextTypes, SettingTypes
  <2>3. SUFFICES ASSUME NEW m \in MPEs
                 PROVE  \/ Booting(m)' \/ "TEXTURE" \in mpeFlags'[m]
                        \/ mpeData'[m]["TEXTURE"] = gl.bound
    BY <2>2 DEF TextureInv
  <2>4. /\ gcFlags \subseteq Passed
        /\ mpeFlags'[m] = IF m \in Rendering[varied] THEN mpeFlags[m] \cup Passed
                          ELSE mpeFlags[m]
    BY <2>1, ValidatedContext
  <2>5. m \in Rendering[varied] \/ Booting(m)
    BY DEF IInv, MPEInv
  <2> QED BY <2>2, <2>4, <2>5 DEF TextureInv, Booting
<1>4. CASE Next /\ EndDrawing
  BY <1>4 DEF EndDrawing, TextureInv, Booting, mpeVars
<1>5. ASSUME NEW m \in Rendering[varied], Dispatch(m) PROVE TextureInv'
  <2>1. m \in MPEs
    BY ValidateAssumption DEF IInv, ContextTypes
  <2>2. mpeData'[m]["TEXTURE"] = gl.bound
    BY <1>5, <2>1, DispatchData
  <2>3. \A n \in MPEs : n # m => mpeFlags'[n] = mpeFlags[n] /\ mpeData'[n] = mpeData[n]
    BY <1>5, <2>1 DEF Dispatch, IInv, MPETypes
  <2>4. gl' = gl /\ gcFlags' = gcFlags
    BY <1>5 DEF Dispatch
  <2> QED BY <2>2, <2>3, <2>4 DEF TextureInv, Booting
<1>6. ASSUME NEW m \in Rendering[varied], mglInvalidateMPE(m) PROVE TextureInv'
  <2>1. m \in MPEs
    BY ValidateAssumption DEF IInv, ContextTypes
  <2>2. "INVALIDATED" \in mpeFlags'[m]
    BY <1>6, <2>1 DEF mglInvalidateMPE, IInv, MPETypes
  <2>3. \A n \in MPEs : n # m => mpeFlags'[n] = mpeFlags[n] /\ mpeData'[n] = mpeData[n]
    BY <1>6, <2>1 DEF mglInvalidateMPE, IInv, MPETypes
  <2>4. gl' = gl /\ gcFlags' = gcFlags
    BY <1>6 DEF mglInvalidateMPE
  <2> QED BY <2>2, <2>3, <2>4 DEF TextureInv, Booting
<1> QED BY <1>1, <1>2, <1>3, <1>4, <1>5, <1>6 DEF Next, Validation

(* Light data are computed again when lighting is enabled and when another    *)
(* lighter is chosen than the one they were computed for.                     *)
LEMMA LightStep ==
  ASSUME IInv, LightInv, [Next]_vars, LightsWhatShows
  PROVE  LightInv'
<1>1. CASE Next /\ (Enables \/ Settings)
  <2>1. /\ Covered /\ ~drawing /\ UNCHANGED <<gcPipe, gcData, drawing, mpeVars>>
    BY <1>1, SetterCovers DEF IInv, ContextTypes, SetterTypes
  <2>2. SUFFICES ASSUME gl'.lighting, "LIGHTING" \notin gcFlags'
                 PROVE  /\ gcPipe.lighter # Null
                        /\ gcData["LIGHTING"] = Derive("LIGHTING", gl', gcPipe)
    BY <2>1 DEF LightInv
  <2>3. "LIGHTING" \in Derived /\ Wanted("LIGHTING", gl')
    BY <2>2 DEF Derived, Wanted
  <2>4. /\ "LIGHTING" \notin gcFlags /\ Wanted("LIGHTING", gl)
        /\ Derive("LIGHTING", gl', gcPipe) = Derive("LIGHTING", gl, gcPipe)
    BY <2>1, <2>2, <2>3 DEF Covered
  <2>5. gl.lighting
    BY <2>4 DEF Wanted
  <2> QED BY <2>4, <2>5 DEF LightInv
<1>2. CASE Next /\ Validation
  <2>1. Validated
    BY <1>2, ValidationValidates DEF Next
  <2>2. /\ gcPipe' = Pipeline(gl)
        /\ "LIGHTING" \in Passed => gcData'["LIGHTING"] = Derive("LIGHTING", gl, gcPipe')
        /\ "LIGHTING" \notin Passed => gcData'["LIGHTING"] = gcData["LIGHTING"]
        /\ gcFlags \subseteq Passed
    <3>1. "LIGHTING" \in Derived
      BY DEF Derived
    <3> QED BY <2>1, <3>1, ValidatedContext
  <2>3. gl'.lighting = gl.lighting /\ SettingTypes
    BY <2>1 DEF Validated, IInv, ContextTypes, SettingTypes
  <2>4. Derive("LIGHTING", gl', gcPipe') = Derive("LIGHTING", gl, gcPipe')
    <3>1. "LIGHTING" \in Derived \ {"RENDER_BUFFER"}
      BY DEF Derived
    <3> QED BY <2>1, <2>3, <3>1, DeriveSwapped DEF Validated
  <2>5. SUFFICES ASSUME gl.lighting
                 PROVE  /\ gcPipe'.lighter # Null
                        /\ gcData'["LIGHTING"] = Derive("LIGHTING", gl, gcPipe')
    BY <2>3, <2>4 DEF LightInv
  <2>6. gl.texture => gl.env = "MODULATE"
    BY <1>2, <2>3, <2>5 DEF LightsWhatShows, SettingTypes
  <2>7. /\ gl.texture => gcPipe'.lighter = "LightI" /\ gcPipe'.vertexFormat = "XYZWUVN"
        /\ ~gl.texture => gcPipe'.lighter = "LightGRB" /\ gcPipe'.vertexFormat = "XYZN"
    BY <2>2, <2>5, <2>6 DEF Pipeline
  <2>8. gcPipe'.lighter # Null
    BY <2>3, <2>7, ValidateAssumption DEF PackedCode, Lighters, SettingTypes
  <2>9. gcData'["LIGHTING"] = Derive("LIGHTING", gl, gcPipe')
    <3>1. CASE "LIGHTING" \in Passed
      BY <2>2, <3>1
    <3>2. CASE "LIGHTING" \notin Passed
      <4>1. ~LighterChange /\ "LIGHTING" \notin gcFlags
        BY <2>2, <3>2 DEF Passed, RaiseIf
      <4>2. /\ gcPipe.lighter # Null
            /\ gcData["LIGHTING"] = Derive("LIGHTING", gl, gcPipe)
        BY <2>5, <4>1 DEF LightInv
      <4>3. CASE "PIPELINE" \notin gcFlags
        BY <2>2, <3>2, <4>2, <4>3 DEF IInv, PipeInv
      <4>4. CASE "PIPELINE" \in gcFlags
        <5>1. /\ gl.texture => gcPipe.lighter = "LightI"
              /\ ~gl.texture => gcPipe.lighter # "LightI"
          BY <2>5, <2>6, <4>1, <4>4 DEF LighterChange
        <5>2. gcPipe.lighter = gcPipe'.lighter /\ gcPipe.vertexFormat = gcPipe'.vertexFormat
          BY <2>7, <4>2, <5>1 DEF IInv, ContextTypes, PipeShape
        <5> QED BY <2>2, <3>2, <4>2, <5>2 DEF Derive
      <4> QED BY <4>3, <4>4
    <3> QED BY <3>1, <3>2
  <2> QED BY <2>8, <2>9
<1>3. CASE UNCHANGED <<gl, gcFlags, gcPipe, gcData>>
  BY <1>3 DEF LightInv, Derive
<1>4. EndDrawing \/ UNCHANGED vars \/ (\E m \in MPEs : Dispatch(m) \/ mglInvalidateMPE(m))
      => UNCHANGED <<gl, gcFlags, gcPipe, gcData>>
  BY DEF EndDrawing, vars, Dispatch, mglInvalidateMPE
<1>5. Rendering[varied] \subseteq MPEs
  BY ValidateAssumption DEF IInv, ContextTypes
<1> QED BY <1>1, <1>2, <1>3, <1>4, <1>5 DEF Next, Validation

-----------------------------------------------------------------------------
(* What is drawn with. *)

(* With a current pipeline and no flags, the data an MPE is sent are those    *)
(* that the settings call for.                                                *)
LEMMA DispatchCurrent ==
  ASSUME IInv, NEW m \in MPEs, Dispatch(m), NEW b \in Used(gl),
         b = "TEXTURE" => TextureInv, b = "LIGHTING" => LightInv
  PROVE  mpeData'[m][b] = Expected(b)
<1>1. gcPipe = Pipeline(gl) /\ gcFlags = {}
  BY DispatchCode
<1>2. /\ \A d \in Derived : mpeData'[m][d] = gcData[d]
      /\ TextureInv => mpeData'[m]["TEXTURE"] = gl.bound
  BY DispatchData
<1>3. CASE b = "TEXTURE"
  BY <1>2, <1>3 DEF Expected
<1>4. CASE b # "TEXTURE"
  <2>1. b \in Derived
    BY <1>4 DEF Used, Derived
  <2>2. Wanted(b, gl)
    <3>1. b = "FOG" => gl.fog
      BY DEF Used
    <3>2. b = "LIGHTING" => gl.lighting
      BY DEF Used, Pipeline
    <3> QED BY <3>1, <3>2 DEF Wanted
  <2>3. gcData[b] = Derive(b, gl, gcPipe)
    <3>1. CASE b = "LIGHTING"
      BY <1>1, <2>2, <3>1 DEF LightInv, Wanted
    <3>2. CASE b # "LIGHTING"
      BY <1>1, <2>1, <2>2, <3>2 DEF IInv, DataInv
    <3> QED BY <3>1, <3>2
  <2> QED BY <1>1, <1>2, <1>4, <2>1, <2>3 DEF Expected
<1> QED BY <1>3, <1>4

(* The types of TypeOK, that a run checks, hold for every constant: in        *)
(* particular binding no texture binds the default one.                       *)
THEOREM TypeCorrect == Spec => []TypeOK
<1>1. IInv => TypeOK
  BY DEF IInv, ContextTypes, SettingTypes, PipeShape, MPETypes, TypeOK, Lighters
<1> QED BY <1>1, Invariance, PTL

(* Whatever the application does, the code that renders a packet is the code  *)
(* that the settings call for, undamaged: ValidateMPE compares overlay by     *)
(* overlay and reloads the ones that a longer or shorter one displaces.       *)
THEOREM CurrentCodeCorrect == Spec => DrawsWithCurrentCode
<1>1. IInv /\ [Next]_vars =>
        [\A m \in MPEs : Dispatch(m) =>
           /\ InPlace(packed'[m], Pipeline(gl))
           /\ fixed'[m].clipper = Pipeline(gl).clipper
           /\ fixed'[m].rasterizer = Pipeline(gl).rasterizer]_vars
  <2> SUFFICES ASSUME IInv, NEW m \in MPEs, Dispatch(m)
               PROVE  /\ InPlace(packed'[m], Pipeline(gl))
                      /\ fixed'[m].clipper = Pipeline(gl).clipper
                      /\ fixed'[m].rasterizer = Pipeline(gl).rasterizer
    OBVIOUS
  <2> QED BY DispatchCode
<1> QED BY <1>1, Invariance, PTL DEF Spec, DrawsWithCurrentCode

(* Whatever the application does, all data but texture and light are current: *)
(* screen buffer and depth test, fog, shininess, matrix and viewport.         *)
THEOREM OtherDataCorrect ==
  Spec => [][\A m \in MPEs : Dispatch(m) =>
               \A b \in Used(gl) \ {"TEXTURE", "LIGHTING"} :
                 mpeData'[m][b] = Expected(b)]_vars
<1>1. IInv /\ [Next]_vars =>
        [\A m \in MPEs : Dispatch(m) =>
           \A b \in Used(gl) \ {"TEXTURE", "LIGHTING"} :
             mpeData'[m][b] = Expected(b)]_vars
  BY DispatchCurrent
<1> QED BY <1>1, Invariance, PTL DEF Spec

(* For an application that binds textures while texturing is enabled and does *)
(* not light what a texture replaces, all data are current.                   *)
THEOREM DisciplinedDataCorrect == Spec /\ Disciplined => DrawsWithCurrentData
<1>1. Init => TextureInv /\ LightInv
  BY InitInv
<1>2. IInv /\ TextureInv /\ LightInv /\ [Next]_vars /\ [BindsEnabled /\ LightsWhatShows]_vars
      => (TextureInv /\ LightInv)'
  <2> SUFFICES ASSUME IInv, TextureInv, LightInv, [Next]_vars,
                      [BindsEnabled /\ LightsWhatShows]_vars
               PROVE  (TextureInv /\ LightInv)'
    OBVIOUS
  <2>1. CASE UNCHANGED vars
    <3>1. BindsEnabled
      BY <2>1 DEF vars, BindsEnabled
    <3>2. TextureInv'
      BY <3>1, TextureStep
    <3>3. LightInv'
      BY <2>1 DEF vars, LightInv, Derive
    <3> QED BY <3>2, <3>3
  <2>2. CASE BindsEnabled /\ LightsWhatShows
    BY <2>2, TextureStep, LightStep
  <2> QED BY <2>1, <2>2
<1>3. IInv /\ TextureInv /\ LightInv /\ [Next]_vars =>
        [\A m \in MPEs : Dispatch(m) =>
           \A b \in Used(gl) : mpeData'[m][b] = Expected(b)]_vars
  BY DispatchCurrent
<1> QED BY <1>1, <1>2, <1>3, Invariance, PTL
        DEF Spec, Disciplined, DrawsWithCurrentData

(* Settings that the application does not change stay as mglInit made them.   *)
KeptInv ==
  /\ "texture" \notin varied => ~gl.texture
  /\ "lighting" \notin varied => ~gl.lighting
  /\ "env" \notin varied => gl.env = "MODULATE"

(* A setter changes one setting of those the application changes.             *)
LEMMA SetKeeps ==
  ASSUME SettingTypes, KeptInv, NEW k, NEW v, NEW f, Set(k, v, f), UNCHANGED varied
  PROVE  KeptInv'
<1>1. k \in varied /\ gl' = [gl EXCEPT ![k] = v]
  BY DEF Set
<1>2. /\ "texture" \notin varied => gl'.texture = gl.texture
      /\ "lighting" \notin varied => gl'.lighting = gl.lighting
      /\ "env" \notin varied => gl'.env = gl.env
  BY <1>1 DEF SettingTypes
<1> QED BY <1>2 DEF KeptInv

LEMMA KeptStep ==
  ASSUME IInv, KeptInv, [Next]_vars
  PROVE  KeptInv'
<1>1. CASE Next /\ (Enables \/ Settings)
  <2>1. SettingTypes /\ UNCHANGED varied
    BY <1>1 DEF IInv, ContextTypes, Next
  <2>2. CASE Enables
    BY <2>1, <2>2, SetKeeps
       DEF Enables, EnableTexture, EnableFog, EnableLighting, EnableOther,
           EnableDepthTest, EnableLight
  <2>3. CASE Settings
    <3>1. CASE \E t \in Textures \cup {Null} : mglSetTexture(t)
      BY <2>1, <3>1, SetKeeps DEF mglSetTexture
    <3>2. CASE \E w \in Values :
                 \/ glFog(w) \/ glLight(w) \/ glMaterial(w) \/ glShininess(w)
                 \/ Modelview(w) \/ Projection(w) \/ glViewport(w) \/ glDrawBuffer(w)
      BY <2>1, <3>2, SetKeeps
         DEF glFog, glLight, glMaterial, glShininess, Modelview, Projection,
             glViewport, glDrawBuffer
    <3>3. CASE ~(\E t \in Textures \cup {Null} : mglSetTexture(t)) /\
               ~(\E w \in Values :
                 \/ glFog(w) \/ glLight(w) \/ glMaterial(w) \/ glShininess(w)
                 \/ Modelview(w) \/ Projection(w) \/ glViewport(w) \/ glDrawBuffer(w))
      BY <2>1, <2>3, <3>3, SetKeeps
         DEF Settings, glDepthFunc, glDepthMask, glBlendFunc, glTexParameter, glTexEnv
    <3> QED BY <3>1, <3>2, <3>3
  <2> QED BY <1>1, <2>2, <2>3
<1>2. CASE Next /\ Validation
  <2>1. Validated
    BY <1>2, ValidationValidates DEF Next
  <2>2. /\ gl'.texture = gl.texture /\ gl'.lighting = gl.lighting
        /\ gl'.env = gl.env /\ varied' = varied
    BY <2>1 DEF Validated, IInv, ContextTypes, SettingTypes
  <2> QED BY <2>2 DEF KeptInv
<1>3. CASE UNCHANGED <<varied, gl>>
  BY <1>3 DEF KeptInv
<1>4. ASSUME Next, EndDrawing \/ (\E m \in Rendering[varied] : Dispatch(m) \/ mglInvalidateMPE(m))
      PROVE  UNCHANGED <<varied, gl>>
  BY <1>4 DEF Next, EndDrawing, Dispatch, mglInvalidateMPE
<1>5. UNCHANGED vars => UNCHANGED <<varied, gl>>
  BY DEF vars
<1> QED BY <1>1, <1>2, <1>3, <1>4, <1>5 DEF Next, Validation

(* Applications that cannot do either of the two things are disciplined:      *)
(* those that bind no texture while texturing is disabled, and never change   *)
(* all three of texturing, its environment and lighting.                      *)
THEOREM CurrentDataCorrect ==
  ASSUME ~BindWhileDisabled,
         \A a \in Applications : ~({"texture", "env", "lighting"} \subseteq a)
  PROVE  Spec => DrawsWithCurrentData
<1>1. Init => KeptInv
  BY DEF Init, KeptInv
<1>2. IInv /\ KeptInv /\ [Next]_vars => KeptInv'
  BY KeptStep
<1>3. ASSUME IInv, KeptInv, [Next]_vars
      PROVE  [BindsEnabled /\ LightsWhatShows]_vars
  <2>1. varied \in Applications /\ SettingTypes
    BY <1>3 DEF IInv, ContextTypes
  <2>2. ~(gl.lighting /\ gl.texture /\ gl.env = "REPLACE")
    <3>1. "texture" \notin varied \/ "lighting" \notin varied \/ "env" \notin varied
      BY <2>1
    <3> QED BY <1>3, <3>1 DEF KeptInv
  <2>3. CASE UNCHANGED vars
    BY <2>3
  <2>4. CASE Next
    <3>1. CASE Enables \/ Settings
      <4>1. BindsEnabled
        <5>1. CASE \E t \in Textures \cup {Null} : mglSetTexture(t)
          BY <5>1 DEF mglSetTexture, BindsEnabled
        <5>2. CASE ~(\E t \in Textures \cup {Null} : mglSetTexture(t))
          <6>1. gl'.bound = gl.bound
            BY <2>1, <3>1, <5>2
               DEF SettingTypes, Enables, EnableTexture, EnableFog, EnableLighting,
                   EnableOther, EnableDepthTest, EnableLight, Settings, glDepthFunc,
                   glDepthMask, glBlendFunc, glTexParameter, glTexEnv, glFog, glLight,
                   glMaterial, glShininess, Modelview, Projection, glViewport,
                   glDrawBuffer, Set
          <6> QED BY <6>1 DEF BindsEnabled
        <5> QED BY <5>1, <5>2
      <4> QED BY <2>2, <4>1 DEF LightsWhatShows
    <3>2. CASE Validation
      <4>1. Validated
        BY <1>3, <2>4, <3>2, ValidationValidates DEF Next
      <4>2. gl'.bound = gl.bound
        BY <2>1, <4>1 DEF Validated, SettingTypes
      <4> QED BY <2>2, <4>2 DEF BindsEnabled, LightsWhatShows
    <3>3. CASE ~(Enables \/ Settings) /\ ~Validation
      <4>1. gl' = gl
        BY <2>4, <3>3 DEF Next, Validation, EndDrawing, Dispatch, mglInvalidateMPE
      <4> QED BY <2>2, <4>1 DEF BindsEnabled, LightsWhatShows
    <3> QED BY <3>1, <3>2, <3>3
  <2> QED BY <1>3, <2>3, <2>4
<1>4. IInv /\ KeptInv /\ [Next]_vars => [BindsEnabled /\ LightsWhatShows]_vars
  BY <1>3
<1>5. Spec => Disciplined
  BY <1>1, <1>2, <1>4, Invariance, PTL DEF Spec, Disciplined
<1> QED BY <1>5, DisciplinedDataCorrect
=============================================================================
