------------------------------ MODULE FrameUploads ------------------------------
(***************************************************************************)
(* What Renderer::new_render() sends to the GPU each frame: the lights and *)
(* the shapes of the scene, into buffers whose layout the C++ structures   *)
(* and the shaders each state for themselves.  Buffers are in words of     *)
(* four bytes.                                                             *)
(***************************************************************************)
EXTENDS Integers, Sequences, SequencesExt

CONSTANTS
  MaxLights, MAX_SDFS,
  Places,       \* where a light or a shape is
  LightBound, ShapeBound     \* bounds on the scene

ASSUME UploadAssumption ==
  /\ MaxLights \in Nat \ {0} /\ MAX_SDFS \in Nat \ {0}
  /\ LightBound \in Nat /\ ShapeBound \in Nat

VARIABLES
  lights, shapes,      \* the scene, in the order its views list it
  lighting_ubo, sdf_ssbo,
  frame                \* edited, drawn, undefined

uploads == <<lights, shapes, lighting_ubo, sdf_ssbo, frame>>

Unset == "unset"

ShapeWords == 18                    \* a mat4, an int and a float
ArrayAt == 4                        \* where std430 puts sdfs[]
ShapeStride == 20                   \* and how far apart, a mat4 being aligned to 16
BufferWords == 1 + ShapeWords * MAX_SDFS

UploadsTypeOK ==
  /\ lights \in Seq(Places) /\ Len(lights) <= LightBound
  /\ shapes \in Seq(Places) /\ Len(shapes) <= ShapeBound
  /\ lighting_ubo.no_lights \in 0 .. MaxLights
  /\ lighting_ubo.point_lights \in [0 .. MaxLights - 1 -> Places \cup {Unset}]
  /\ DOMAIN sdf_ssbo = 0 .. BufferWords - 1
  /\ frame \in {"edited", "drawn", "undefined"}

\* init_ubos(): room, and nothing in it.  No light is lit before a frame is drawn.
InitUploads ==
  /\ lights = <<>> /\ shapes = <<>>
  /\ lighting_ubo = [no_lights |-> 0,
                     point_lights |-> [i \in 0 .. MaxLights - 1 |-> Unset]]
  /\ sdf_ssbo = [w \in 0 .. BufferWords - 1 |-> Unset]
  /\ frame = "edited"

-----------------------------------------------------------------------------
(* The scene is edited between frames; nothing in it is ever removed.      *)

AddLight(p) ==
  /\ Len(lights) < LightBound
  /\ lights' = Append(lights, p)
  /\ UNCHANGED shapes

AddShape(p) ==
  /\ Len(shapes) < ShapeBound
  /\ shapes' = Append(shapes, p)
  /\ UNCHANGED lights

Move(p) ==
  \/ /\ \E i \in DOMAIN lights : lights' = [lights EXCEPT ![i] = p]
     /\ UNCHANGED shapes
  \/ /\ \E i \in DOMAIN shapes : shapes' = [shapes EXCEPT ![i] = p]
     /\ UNCHANGED lights

EditScene ==
  /\ frame # "undefined"
  /\ \E p \in Places : AddLight(p) \/ AddShape(p) \/ Move(p)
  /\ frame' = "edited"
  /\ UNCHANGED <<lighting_ubo, sdf_ssbo>>

-----------------------------------------------------------------------------
(* A frame.                                                                *)

LightsInFrame(n) ==
  lighting_ubo' =
    [no_lights |-> n,
     point_lights |-> [i \in 0 .. (IF n > MaxLights THEN n ELSE MaxLights) - 1 |->
                         IF i < n THEN lights[i + 1] ELSE Unset]]

\* Fault: the limit is tested after the light is taken.
UploadLightsOneMore ==
  LightsInFrame(IF Len(lights) > MaxLights THEN MaxLights + 1 ELSE Len(lights))

\* Fault: what the last frame sent stays where this one has nothing.
UploadLightsOver ==
  lighting_ubo' =
    [no_lights |-> IF Len(lights) > MaxLights THEN MaxLights ELSE Len(lights),
     point_lights |-> [i \in 0 .. MaxLights - 1 |->
       IF lighting_ubo.point_lights[i] = Unset /\ i < Len(lights)
       THEN lights[i + 1] ELSE lighting_ubo.point_lights[i]]]

\* A new LightingUBOCPU each frame, with the first hundred lights.
UploadLights ==
  LightsInFrame(IF Len(lights) > MaxLights THEN MaxLights ELSE Len(lights))

\* glBufferSubData(): out of range, it is an error and writes nothing.
SubData(buffer, at, data) ==
  IF at + Len(data) > BufferWords THEN buffer
  ELSE [w \in DOMAIN buffer |->
          IF w \in at .. at + Len(data) - 1 THEN data[w - at + 1] ELSE buffer[w]]

Data(s) == [k \in 1 .. ShapeWords * Len(s) |->
              <<s[(k - 1) \div ShapeWords + 1], (k - 1) % ShapeWords>>]

\* Fault: the array follows the count as it would in C++.
SetSdfSsboAtOne == sdf_ssbo' = SubData(SubData(sdf_ssbo, 0, <<Len(shapes)>>), 1, Data(shapes))

\* set_sdf_ssbo(): the count, and the shapes as C++ lays them out.
SetSdfSsbo == sdf_ssbo' = SubData(SubData(sdf_ssbo, 0, <<Len(shapes)>>), ArrayAt, Data(shapes))

\* Without shapes nothing is sent; with more than the array holds the program
\* writes past its end.
UploadShapes ==
  \/ /\ shapes = <<>>
     /\ frame' = "drawn"
     /\ UNCHANGED sdf_ssbo
  \/ /\ Len(shapes) \in 1 .. MAX_SDFS
     /\ SetSdfSsbo
     /\ frame' = "drawn"
  \/ /\ Len(shapes) > MAX_SDFS
     /\ frame' = "undefined"
     /\ UNCHANGED sdf_ssbo

NewRender ==
  /\ frame = "edited"
  /\ UploadLights
  /\ UploadShapes
  /\ UNCHANGED <<lights, shapes>>

NextUploads == EditScene \/ NewRender

UploadsSpec == InitUploads /\ [][NextUploads]_uploads

-----------------------------------------------------------------------------
(* Properties.                                                             *)

\* However many lights a scene has, the loop over no_lights in the fragment
\* shaders stays inside its array and sees the lights of this frame, as many
\* as fit, and none of an earlier one.
LightsShown ==
  frame = "drawn" =>
    /\ lighting_ubo.no_lights <= MaxLights
    /\ \A i \in 0 .. MaxLights - 1 :
         lighting_ubo.point_lights[i] =
           IF i < Len(lights) THEN lights[i + 1] ELSE Unset

\* The shape cSDLCache.glsl reads as sdfs[i].
ShapeRead(i) ==
  [k \in 1 .. ShapeWords |->
     LET w == ArrayAt + ShapeStride * i + k - 1
     IN IF w \in DOMAIN sdf_ssbo THEN sdf_ssbo[w] ELSE Unset]

\* While the scene has fewer shapes than the buffer has room for, the first
\* one reaches the shader as it is now.
FirstShapeReachesShader ==
  frame = "drawn" /\ Len(shapes) \in 1 .. MAX_SDFS - 1 =>
    ShapeRead(0) = Data(<<shapes[1]>>)
=============================================================================
