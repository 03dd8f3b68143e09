----------------------------- MODULE MCValidate -----------------------------
EXTENDS MglValidate

(* The textured overlays are longer or shorter than the untextured ones, and  *)
(* not by the same amounts: a stale overlay never lies in place by accident.  *)
MCSize == [c \in PackedCode |->
             CASE c \in {"LoadV8", "TransformXYZ4", "LightI"} -> 2 [] OTHER -> 1]

(* Settings that meet in the code that validates them: the choice of a        *)
(* textured and of an untextured rasterizer, fog and textures, lighting,      *)
(* matrices and screen, all on one MPE...                                     *)
OneMPE ==
  { {"texture", "env", "linear", "bound", "blend", "blendAlpha", "depthTest"},
    {"texture", "blend", "blendAlpha", "depthTest", "depthFunc", "depthMask"},
    {"texture", "bound", "fog", "fogRange", "chromakey"},
    {"lighting", "lightOn", "light", "modelview"},
    {"lighting", "shininess", "modelview"},
    {"viewport", "projection", "renderBuffer"} }

(* ... and textures and lighting on two, whose flags differ.                  *)
TwoMPEs == { {"texture", "lighting", "material"} }

MCApplications == OneMPE \cup TwoMPEs

CONSTANTS m1, m2

MCRendering ==
  [a \in Applications |-> IF a \in TwoMPEs THEN {m1, m2} ELSE {m1}]
=============================================================================
