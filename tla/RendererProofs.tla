----------------------------- MODULE RendererProofs -----------------------------
(***************************************************************************)
(* What the renderer draws into and what it draws from: Viewport for any   *)
(* panel sizes, any screenshot size and any set of names OpenGL may hand   *)
(* out again, and FrameUploads for any number of lights and shapes.        *)
(***************************************************************************)
EXTENDS Viewport, FrameUploads, SequenceTheorems, TLAPS

-----------------------------------------------------------------------------
(* Viewport.                                                               *)

\* The three objects are made and deleted together, and the texture holds the
\* scene at the framebuffer's size.
OwnedInv ==
  /\ framebuffer = 0 <=> color_texture = 0
  /\ framebuffer # 0 => /\ framebuffer_size # Hidden
                        /\ content[color_texture] = framebuffer_size

\* The draw list is empty until the viewport panel, the last that may change
\* the texture, and then shows that texture at its size.
ShownInv ==
  /\ pc # "draw" => shown = {}
  /\ \A image \in shown :
       /\ framebuffer # 0
       /\ image.texture = color_texture
       /\ image.size = framebuffer_size

ViewportInv ==
  TypeOK /\ NothingLeaks /\ OwnedInv /\ ShownInv /\ ScreenshotComplete

-----------------------------------------------------------------------------

\* However the framebuffer is come by, it has the size that was asked for and
\* its objects are the only ones.
LEMMA Rendered ==
  ASSUME TypeOK, NothingLeaks, OwnedInv, NEW size \in AllSizes, RenderToTexture(size)
  PROVE  /\ framebuffer' \in ObjectNames /\ color_texture' \in ObjectNames
         /\ depth_rbo' \in ObjectNames
         /\ framebuffer_size' = size
         /\ live' \in [Kinds -> SUBSET ObjectNames]
         /\ content' \in [ObjectNames -> AllSizes \cup {Hidden}]
         /\ content'[color_texture'] = size
         /\ NothingLeaks'
<1> USE ViewportAssumption DEF TypeOK, NothingLeaks, OwnedInv, Kinds
<1>1. CASE Fits(size) /\ UNCHANGED renderer
  BY <1>1 DEF Fits, renderer
<1>2. CASE ~Fits(size) /\ framebuffer_size' = size
           /\ Generate([k \in Kinds |-> live[k] \ Deleted(k)], size)
  <2> DEFINE left == [k \in Kinds |-> live[k] \ Deleted(k)]
  <2>1. left = [k \in Kinds |-> {}]
    BY DEF Deleted
  <2> HIDE DEF left
  <2>2. PICK f \in ObjectNames, t \in ObjectNames, d \in ObjectNames :
          /\ framebuffer' = f /\ color_texture' = t /\ depth_rbo' = d
          /\ live' = [left EXCEPT !["framebuffer"] = @ \cup {f},
                                  !["texture"] = @ \cup {t},
                                  !["renderbuffer"] = @ \cup {d}]
          /\ content' = [content EXCEPT ![t] = size]
    <3>1. Generate(left, size)
      BY <1>2 DEF left
    <3>2. left["framebuffer"] = {} /\ left["texture"] = {} /\ left["renderbuffer"] = {}
      BY <2>1
    <3> QED
      BY <3>1, <3>2 DEF Generate
  <2>3. /\ live' \in [Kinds -> SUBSET ObjectNames]
        /\ live'["framebuffer"] = {f}
        /\ live'["texture"] = {t}
        /\ live'["renderbuffer"] = {d}
    <3>1. live' = [k \in Kinds |-> IF k = "framebuffer" THEN {f}
                                  ELSE IF k = "texture" THEN {t} ELSE {d}]
      BY <2>1, <2>2
    <3> QED
      BY <3>1
  <2>4. /\ content' \in [ObjectNames -> AllSizes \cup {Hidden}]
        /\ content'[t] = size
    BY <2>2
  <2>5. f # 0 /\ t # 0 /\ d # 0
    OBVIOUS
  <2> QED
    BY <1>2, <2>2, <2>3, <2>4, <2>5
<1> QED
  BY <1>1, <1>2 DEF RenderToTexture

\* The editor starts without a framebuffer and with nothing drawn.
LEMMA NothingRendered == Init => ViewportInv
BY ViewportAssumption
DEF Init, ViewportInv, TypeOK, NothingLeaks, OwnedInv, ShownInv, ScreenshotComplete, Kinds

\* Each panel, and the drawing of what ImGui has gathered, keeps the invariant.
LEMMA ViewportStep ==
  ASSUME ViewportInv, [Next]_vars
  PROVE  ViewportInv'
<1> USE ViewportAssumption DEF ViewportInv
<1>1. CASE UNCHANGED vars
  BY <1>1
  DEF vars, renderer, TypeOK, NothingLeaks, OwnedInv, ShownInv, ScreenshotComplete
<1>2. CASE TakeScreenshot
  <2>1. ScreenshotSize \in AllSizes /\ RenderToTexture(ScreenshotSize)
    BY <1>2 DEF TakeScreenshot, AllSizes
  <2>2. shot' = ScreenshotSize /\ pc' = "viewport" /\ shown' = {} /\ UNCHANGED panel
    BY <1>2, <2>1, Rendered DEF TakeScreenshot, PanelAfter, ShownInv
  <2>3. 0 \notin ObjectNames /\ Hidden \notin AllSizes
    BY DEF AllSizes
  <2>4. TypeOK'
    BY <2>1, <2>2, <2>3, Rendered DEF TypeOK
  <2>5. OwnedInv' /\ ShownInv' /\ ScreenshotComplete'
    BY <2>1, <2>2, <2>3, Rendered DEF OwnedInv, ShownInv, ScreenshotComplete
  <2> QED
    BY <2>1, <2>4, <2>5, Rendered
<1>3. CASE NoScreenshot
  BY <1>3 DEF NoScreenshot, renderer, PanelAfter, TypeOK, NothingLeaks, OwnedInv, ShownInv,
              ScreenshotComplete
<1>4. CASE DrawViewport
  <2>1. CASE panel = Hidden
    BY <1>4, <2>1 DEF DrawViewport, renderer, PanelAfter, TypeOK, NothingLeaks, OwnedInv,
                      ShownInv, ScreenshotComplete
  <2>2. CASE panel # Hidden
    <3>1. /\ panel \in Sizes /\ panel \in AllSizes /\ RenderToTexture(panel)
          /\ shown' = {[texture |-> color_texture', size |-> panel]}
          /\ pc' = "draw" /\ UNCHANGED <<panel, shot>>
      BY <1>4, <2>2 DEF DrawViewport, PanelAfter, ShownInv, TypeOK, AllSizes
    <3>2. 0 \notin ObjectNames /\ Hidden \notin AllSizes
      BY DEF AllSizes
    <3>3. TypeOK'
      BY <3>1, <3>2, Rendered DEF TypeOK
    <3>4. OwnedInv' /\ ShownInv' /\ ScreenshotComplete'
      BY <3>1, <3>2, Rendered DEF OwnedInv, ShownInv, ScreenshotComplete
    <3> QED
      BY <3>1, <3>3, <3>4, Rendered
  <2> QED
    BY <2>1, <2>2
<1>5. CASE DrawList
  BY <1>5 DEF DrawList, renderer, PanelAfter, TypeOK, NothingLeaks, OwnedInv, ShownInv,
              ScreenshotComplete
<1> QED
  BY <1>1, <1>2, <1>3, <1>4, <1>5 DEF Next

\* The inductive invariant of the viewport, of which the theorems below are
\* consequences.
THEOREM ViewportInvariance == Spec => []ViewportInv
BY NothingRendered, ViewportStep, PTL DEF Spec

\* The names and sizes the renderer keeps, and those OpenGL has given out,
\* keep their types; there is a depth buffer whenever there is a framebuffer.
THEOREM ViewportTypeCorrect == Spec => []TypeOK
<1>1. ViewportInv => TypeOK
  BY DEF ViewportInv
<1> QED
  BY ViewportInvariance, <1>1, PTL

\* What ImGui draws exists and shows the scene at the size it is drawn at,
\* after any screenshots and resizes and whatever names are used again.
THEOREM DrawnIsCurrent == Spec => []ShownIsCurrent
<1>1. ViewportInv => ShownIsCurrent
  BY DEF ViewportInv, TypeOK, OwnedInv, ShownInv, NothingLeaks, ShownIsCurrent
<1> QED
  BY ViewportInvariance, <1>1, PTL

\* The renderer owns every object there is: no resize or screenshot leaves a
\* framebuffer, a texture or a depth buffer behind.
THEOREM NothingIsLeftBehind == Spec => []NothingLeaks
<1>1. ViewportInv => NothingLeaks
  BY DEF ViewportInv
<1> QED
  BY ViewportInvariance, <1>1, PTL

\* A screenshot has all its pixels.
THEOREM ScreenshotsAreComplete == Spec => []ScreenshotComplete
<1>1. ViewportInv => ScreenshotComplete
  BY DEF ViewportInv
<1> QED
  BY ViewportInvariance, <1>1, PTL

-----------------------------------------------------------------------------
(* FrameUploads.                                                           *)

\* After a frame the buffer holds the number of shapes and, behind it, the
\* shapes as C++ laid them out, as long as there are fewer than it was made for.
ShapesInv ==
  frame = "drawn" /\ Len(shapes) \in 1 .. MAX_SDFS - 1 =>
    /\ sdf_ssbo[0] = Len(shapes)
    /\ \A k \in 1 .. ShapeWords * Len(shapes) : sdf_ssbo[ArrayAt + k - 1] = Data(shapes)[k]

\* LightsShown needs nothing further; the shapes need every word of the buffer.
UploadsInv == UploadsTypeOK /\ LightsShown /\ ShapesInv

\* A frame sends the lights there are, as many as fit, and nothing else.
LEMMA LightsSent ==
  ASSUME UploadsTypeOK, UploadLights, UNCHANGED lights
  PROVE  /\ lighting_ubo'.no_lights \in 0 .. MaxLights
         /\ lighting_ubo'.point_lights \in [0 .. MaxLights - 1 -> Places \cup {Unset}]
         /\ \A i \in 0 .. MaxLights - 1 :
              lighting_ubo'.point_lights[i] =
                IF i < Len(lights) THEN lights[i + 1] ELSE Unset
<1> USE UploadAssumption DEF UploadsTypeOK
<1> DEFINE n == IF Len(lights) > MaxLights THEN MaxLights ELSE Len(lights)
<1>1. n \in 0 .. MaxLights /\ n <= Len(lights)
  OBVIOUS
<1>2. \A i \in 0 .. MaxLights - 1 : i < n <=> i < Len(lights)
  OBVIOUS
<1> HIDE DEF n
<1>3. lighting_ubo' =
        [no_lights |-> n,
         point_lights |-> [i \in 0 .. MaxLights - 1 |->
                             IF i < n THEN lights[i + 1] ELSE Unset]]
  BY <1>1 DEF UploadLights, LightsInFrame, n
<1>4. \A i \in 0 .. MaxLights - 1 : i < n => lights[i + 1] \in Places
  BY <1>1
<1> QED
  BY <1>1, <1>2, <1>3, <1>4

\* The words of the shapes, 18 each, one shape after the other.
LEMMA DataWords ==
  ASSUME NEW s \in Seq(Places)
  PROVE  /\ ShapeWords * Len(s) \in Nat /\ Len(Data(s)) = ShapeWords * Len(s)
         /\ \A k \in 1 .. ShapeWords * Len(s) :
              Data(s)[k] = <<s[(k - 1) \div ShapeWords + 1], (k - 1) % ShapeWords>>
<1> DEFINE word(k) == <<s[(k - 1) \div ShapeWords + 1], (k - 1) % ShapeWords>>
           n == ShapeWords * Len(s)
           W == {word(k) : k \in 1 .. n}
<1>1. n \in Nat
  BY DEF ShapeWords
<1>2. Data(s) = [k \in 1 .. n |-> word(k)]
  BY DEF Data
<1> HIDE DEF n, word
<1>3. Data(s) \in Seq(W)
  BY <1>1, <1>2, SeqDef
<1>4. Len(Data(s)) = n
  <2>1. DOMAIN Data(s) = 1 .. n
    BY <1>2
  <2>2. Len(Data(s)) \in Nat /\ DOMAIN Data(s) = 1 .. Len(Data(s))
    BY <1>3, LenProperties
  <2> QED
    BY <1>1, <2>1, <2>2
<1>5. \A k \in 1 .. n : Data(s)[k] = word(k)
  BY <1>2
<1> QED
  BY <1>1, <1>4, <1>5 DEF n, word

\* glBufferSubData() writes all of the data where it fits, and else nothing.
LEMMA Written ==
  ASSUME NEW buffer, NEW at \in Nat, NEW data, NEW n \in Nat, Len(data) = n,
         DOMAIN buffer = 0 .. BufferWords - 1, BufferWords \in Nat
  PROVE  /\ DOMAIN SubData(buffer, at, data) = 0 .. BufferWords - 1
         /\ at + n <= BufferWords =>
              /\ \A k \in 1 .. n : SubData(buffer, at, data)[at + k - 1] = data[k]
              /\ \A w \in 0 .. BufferWords - 1 : w \notin at .. at + n - 1 =>
                    SubData(buffer, at, data)[w] = buffer[w]
<1>1. CASE at + n > BufferWords
  BY <1>1 DEF SubData
<1>2. CASE at + n <= BufferWords
  <2>1. SubData(buffer, at, data) =
          [w \in 0 .. BufferWords - 1 |->
             IF w \in at .. at + n - 1 THEN data[w - at + 1] ELSE buffer[w]]
    BY <1>2 DEF SubData
  <2>2. \A k \in 1 .. n : /\ at + k - 1 \in 0 .. BufferWords - 1
                          /\ at + k - 1 \in at .. at + n - 1
                          /\ (at + k - 1) - at + 1 = k
    BY <1>2
  <2> QED
    BY <2>1, <2>2
<1> QED
  BY <1>1, <1>2

\* The number of shapes is one word, at the front of the buffer.
LEMMA CountWritten ==
  ASSUME NEW buffer, NEW data, Len(data) = 1,
         DOMAIN buffer = 0 .. BufferWords - 1, BufferWords \in Nat \ {0}
  PROVE  /\ DOMAIN SubData(buffer, 0, data) = 0 .. BufferWords - 1
         /\ SubData(buffer, 0, data)[0] = data[1]
         /\ \A w \in 1 .. BufferWords - 1 : SubData(buffer, 0, data)[w] = buffer[w]
<1>1. SubData(buffer, 0, data) =
        [w \in 0 .. BufferWords - 1 |-> IF w \in 0 .. 0 THEN data[w - 0 + 1] ELSE buffer[w]]
  BY DEF SubData
<1> QED
  BY <1>1

\* set_sdf_ssbo() sends the number of shapes and, with fewer than MAX_SDFS, all
\* their words: four words in front of them, of which the room counts one.
LEMMA ShapesSent ==
  ASSUME UploadsTypeOK, SetSdfSsbo, UNCHANGED shapes, Len(shapes) \in 1 .. MAX_SDFS
  PROVE  /\ DOMAIN sdf_ssbo' = 0 .. BufferWords - 1
         /\ Len(shapes) < MAX_SDFS =>
              /\ sdf_ssbo'[0] = Len(shapes)
              /\ \A k \in 1 .. ShapeWords * Len(shapes) :
                   sdf_ssbo'[ArrayAt + k - 1] = Data(shapes)[k]
<1> USE UploadAssumption DEF UploadsTypeOK
<1> DEFINE n == ShapeWords * Len(shapes)
           count == <<Len(shapes)>>
           counted == SubData(sdf_ssbo, 0, count)
<1>1. /\ n \in Nat /\ BufferWords \in Nat \ {0}
      /\ Len(shapes) < MAX_SDFS => ArrayAt + n <= BufferWords
  BY DEF ShapeWords, BufferWords, ArrayAt
<1>2. Len(Data(shapes)) = n
  BY <1>1, DataWords
<1>3. Len(count) = 1 /\ count[1] = Len(shapes)
  OBVIOUS
<1>4. DOMAIN counted = 0 .. BufferWords - 1 /\ counted[0] = Len(shapes)
  BY <1>1, <1>3, CountWritten
<1>5. sdf_ssbo' = SubData(counted, ArrayAt, Data(shapes))
  BY DEF SetSdfSsbo
<1>6. ArrayAt \in Nat /\ 0 \notin ArrayAt .. ArrayAt + n - 1 /\ 0 \in 0 .. BufferWords - 1
  BY <1>1 DEF ArrayAt
<1> HIDE DEF n, counted
<1>7. /\ DOMAIN sdf_ssbo' = 0 .. BufferWords - 1
      /\ ArrayAt + n <= BufferWords =>
           /\ \A k \in 1 .. n : sdf_ssbo'[ArrayAt + k - 1] = Data(shapes)[k]
           /\ sdf_ssbo'[0] = counted[0]
  <2> HIDE UploadAssumption DEF UploadsTypeOK
  <2> DEFINE data == Data(shapes)
             sent == SubData(counted, ArrayAt, data)
  <2>1. Len(data) = n /\ BufferWords \in Nat
    BY <1>1, <1>2
  <2> HIDE DEF data
  <2>2. /\ DOMAIN sent = 0 .. BufferWords - 1
        /\ ArrayAt + n <= BufferWords =>
             /\ \A k \in 1 .. n : sent[ArrayAt + k - 1] = data[k]
             /\ \A w \in 0 .. BufferWords - 1 : w \notin ArrayAt .. ArrayAt + n - 1 =>
                   sent[w] = counted[w]
    BY <1>1, <1>4, <1>6, <2>1, Written
  <2>3. sdf_ssbo' = sent
    BY <1>5 DEF data
  <2> HIDE DEF sent
  <2>4. ArrayAt + n <= BufferWords => sent[0] = counted[0]
    BY <1>6, <2>2
  <2> QED
    BY <2>2, <2>3, <2>4 DEF data
<1> QED
  BY <1>1, <1>4, <1>7 DEF n

\* A scene starts without lights and shapes.
LEMMA NothingSent == InitUploads => UploadsInv
<1> USE UploadAssumption
<1> SUFFICES ASSUME InitUploads PROVE UploadsInv
  OBVIOUS
<1>1. lights \in Seq(Places) /\ shapes \in Seq(Places) /\ Len(lights) = 0 /\ Len(shapes) = 0
  BY DEF InitUploads
<1> QED
  BY <1>1 DEF InitUploads, UploadsInv, UploadsTypeOK, LightsShown, ShapesInv

\* Adding and moving keeps the scene a list of places within its bounds.
LEMMA SceneEdited ==
  ASSUME UploadsTypeOK, EditScene
  PROVE  /\ lights' \in Seq(Places) /\ Len(lights') <= LightBound
         /\ shapes' \in Seq(Places) /\ Len(shapes') <= ShapeBound
<1> USE UploadAssumption DEF UploadsTypeOK
<1> PICK p \in Places : AddLight(p) \/ AddShape(p) \/ Move(p)
  BY DEF EditScene
<1>1. CASE AddLight(p)
  BY <1>1 DEF AddLight
<1>2. CASE AddShape(p)
  BY <1>2 DEF AddShape
<1>3. CASE Move(p)
  <2>1. ASSUME NEW s \in Seq(Places), NEW i \in DOMAIN s
        PROVE  /\ [s EXCEPT ![i] = p] \in Seq(Places)
               /\ Len([s EXCEPT ![i] = p]) = Len(s)
    BY <2>1, ExceptSeq
  <2> QED
    BY <1>3, <2>1 DEF Move
<1> QED
  BY <1>1, <1>2, <1>3

\* Editing the scene and drawing a frame keep the invariant.
LEMMA FrameStep ==
  ASSUME UploadsInv, [NextUploads]_uploads
  PROVE  UploadsInv'
<1> USE DEF UploadsInv
<1>1. CASE UNCHANGED uploads
  BY <1>1 DEF uploads, UploadsTypeOK, LightsShown, ShapesInv, Data
<1>2. CASE EditScene
  BY <1>2, SceneEdited DEF EditScene, UploadsTypeOK, LightsShown, ShapesInv
<1>3. CASE NewRender
  <2>1. UploadLights /\ UploadShapes /\ UNCHANGED <<lights, shapes>>
    BY <1>3 DEF NewRender
  <2>2. /\ DOMAIN sdf_ssbo' = 0 .. BufferWords - 1
        /\ frame' \in {"drawn", "undefined"}
        /\ ShapesInv'
    <3>1. CASE shapes = <<>> /\ frame' = "drawn" /\ UNCHANGED sdf_ssbo
      BY <2>1, <3>1 DEF UploadsTypeOK, ShapesInv
    <3>2. CASE Len(shapes) \in 1 .. MAX_SDFS /\ SetSdfSsbo /\ frame' = "drawn"
      <4>1. Data(shapes)' = Data(shapes)
        BY <2>1 DEF Data
      <4>2. Len(shapes) \in 1 .. MAX_SDFS - 1 => Len(shapes) < MAX_SDFS
        BY UploadAssumption
      <4> QED
        BY <2>1, <3>2, <4>1, <4>2, ShapesSent DEF ShapesInv
    <3>3. CASE frame' = "undefined" /\ UNCHANGED sdf_ssbo
      BY <2>1, <3>3 DEF UploadsTypeOK, ShapesInv
    <3> QED
      BY <2>1, <3>1, <3>2, <3>3 DEF UploadShapes
  <2>3. UploadsTypeOK' /\ LightsShown'
    BY <2>1, <2>2, LightsSent, UploadAssumption DEF UploadsTypeOK, LightsShown
  <2> QED
    BY <2>2, <2>3
<1> QED
  BY <1>1, <1>2, <1>3 DEF NextUploads

\* The inductive invariant of the uploads, of which the theorems below are
\* consequences.
THEOREM UploadsInvariance == UploadsSpec => []UploadsInv
BY NothingSent, FrameStep, PTL DEF UploadsSpec

\* The scene and both buffers keep their types: no frame fills more lights than
\* the uniform block has, or resizes the storage buffer.
THEOREM UploadsTypeCorrect == UploadsSpec => []UploadsTypeOK
<1>1. UploadsInv => UploadsTypeOK
  BY DEF UploadsInv
<1> QED
  BY UploadsInvariance, <1>1, PTL

\* The loop over no_lights sees the lights of this frame, as many as fit, and
\* none of an earlier one, however many the scene has.
THEOREM LightsReachShader == UploadsSpec => []LightsShown
<1>1. UploadsInv => LightsShown
  BY DEF UploadsInv
<1> QED
  BY UploadsInvariance, <1>1, PTL

\* What the shader reads as shape i starts two words further into the data for
\* every shape before it: GPU_SDF has 18 words, the stride in std430 is 20.
ShapesReadDisplaced ==
  frame = "drawn" /\ Len(shapes) \in 1 .. MAX_SDFS - 1 =>
    \A i \in Nat :
      ShapeStride * i + ShapeWords <= ShapeWords * Len(shapes) =>
        ShapeRead(i) = [k \in 1 .. ShapeWords |-> Data(shapes)[ShapeStride * i + k]]

\* The words of the first shape, in numbers.
LEMMA FirstWords ==
  ASSUME NEW n \in Nat, n >= 1, NEW k \in 1 .. 18
  PROVE  /\ k \in 1 .. 18 * n /\ 20 * 0 + k = k /\ 20 * 0 + 18 <= 18 * n /\ 18 * 1 = 18
         /\ (k - 1) \div 18 + 1 = 1
<1>1. (k - 1) \div 18 = 0
  OBVIOUS
<1> QED
  BY <1>1

\* The words of any shape the shader reads inside the data, in numbers.
LEMMA WordsRead ==
  ASSUME NEW n \in Nat, NEW m \in Nat, NEW i \in Nat, n <= m, 20 * i + 18 <= 18 * n,
         NEW k \in 1 .. 18
  PROVE  /\ 20 * i + k \in 1 .. 18 * n
         /\ 4 + 20 * i + k - 1 = 4 + (20 * i + k) - 1
         /\ 4 + (20 * i + k) - 1 \in 0 .. (1 + 18 * (m + 1)) - 1
OBVIOUS

\* A shape the shader reads lies inside what was sent, displaced.
LEMMA DisplacedReads ==
  ASSUME UploadsInv PROVE ShapesReadDisplaced
<1> SUFFICES ASSUME frame = "drawn", Len(shapes) \in 1 .. MAX_SDFS - 1, NEW i \in Nat,
                    ShapeStride * i + ShapeWords <= ShapeWords * Len(shapes)
             PROVE  ShapeRead(i) =
                      [k \in 1 .. ShapeWords |-> Data(shapes)[ShapeStride * i + k]]
  BY DEF ShapesReadDisplaced
<1> USE UploadAssumption DEF UploadsInv, UploadsTypeOK
<1>1. \A k \in 1 .. ShapeWords :
        /\ ShapeStride * i + k \in 1 .. ShapeWords * Len(shapes)
        /\ ArrayAt + ShapeStride * i + k - 1 = ArrayAt + (ShapeStride * i + k) - 1
        /\ ArrayAt + (ShapeStride * i + k) - 1 \in 0 .. BufferWords - 1
  <2>1. /\ Len(shapes) \in Nat /\ Len(shapes) <= MAX_SDFS - 1
        /\ MAX_SDFS - 1 \in Nat /\ MAX_SDFS = (MAX_SDFS - 1) + 1
    OBVIOUS
  <2>2. 20 * i + 18 <= 18 * Len(shapes)
    BY DEF ShapeWords, ShapeStride
  <2> QED
    BY <2>1, <2>2, WordsRead DEF ShapeWords, ShapeStride, BufferWords, ArrayAt
<1>2. ShapeRead(i) = [k \in 1 .. ShapeWords |-> sdf_ssbo[ArrayAt + (ShapeStride * i + k) - 1]]
  BY <1>1 DEF ShapeRead
<1>3. \A k \in 1 .. ShapeWords :
        sdf_ssbo[ArrayAt + (ShapeStride * i + k) - 1] = Data(shapes)[ShapeStride * i + k]
  BY <1>1 DEF ShapesInv
<1> QED
  BY <1>2, <1>3

\* Nothing is before the first shape, so it is not displaced.
LEMMA FirstShapeRead ==
  ASSUME UploadsInv PROVE FirstShapeReachesShader
<1> SUFFICES ASSUME frame = "drawn", Len(shapes) \in 1 .. MAX_SDFS - 1
             PROVE  ShapeRead(0) = Data(<<shapes[1]>>)
  BY DEF FirstShapeReachesShader
<1> USE UploadAssumption DEF UploadsInv, UploadsTypeOK
<1>1. /\ 0 \in Nat /\ ShapeStride * 0 + ShapeWords <= ShapeWords * Len(shapes)
      /\ ShapeWords * 1 = ShapeWords
      /\ \A k \in 1 .. ShapeWords : /\ ShapeStride * 0 + k = k
                                    /\ k \in 1 .. ShapeWords * Len(shapes)
                                    /\ (k - 1) \div ShapeWords + 1 = 1
  BY FirstWords DEF ShapeWords, ShapeStride
<1>2. /\ Len(<<shapes[1]>>) = 1 /\ <<shapes[1]>>[1] = shapes[1]
      /\ shapes \in Seq(Places)
  OBVIOUS
<1>3. \A k \in 1 .. ShapeWords : Data(shapes)[k] = <<shapes[1], (k - 1) % ShapeWords>>
  BY <1>1, <1>2, DataWords
<1>4. Data(<<shapes[1]>>) = [k \in 1 .. ShapeWords |-> <<shapes[1], (k - 1) % ShapeWords>>]
  BY <1>1, <1>2 DEF Data
<1>5. ShapeRead(0) = [k \in 1 .. ShapeWords |-> Data(shapes)[ShapeStride * 0 + k]]
  BY <1>1, DisplacedReads DEF ShapesReadDisplaced
<1>6. ASSUME NEW k \in 1 .. ShapeWords
      PROVE  Data(shapes)[ShapeStride * 0 + k] = <<shapes[1], (k - 1) % ShapeWords>>
  <2>1. ShapeStride * 0 + k = k
    BY <1>1
  <2> QED
    BY <1>3, <2>1, Zenon
<1> QED
  BY <1>4, <1>5, <1>6, Zenon

\* The first shape reaches cSDLCache.glsl as it is, whatever MAX_SDFS is and
\* however many shapes there are, as long as they are fewer.
THEOREM FirstShapeReaches == UploadsSpec => []FirstShapeReachesShader
BY UploadsInvariance, FirstShapeRead, PTL

\* Every later shape is read displaced, by two words for each shape before it,
\* so parts of two shapes are taken for one.
THEOREM LaterShapesDisplaced == UploadsSpec => []ShapesReadDisplaced
BY UploadsInvariance, DisplacedReads, PTL

\* With MAX_SDFS shapes the upload of the array is out of the buffer's range.
LEMMA DroppedWhole ==
  ASSUME UploadsTypeOK, NewRender, Len(shapes) = MAX_SDFS
  PROVE  /\ sdf_ssbo'[0] = MAX_SDFS
         /\ \A w \in 1 .. BufferWords - 1 : sdf_ssbo'[w] = sdf_ssbo[w]
<1> USE UploadAssumption DEF UploadsTypeOK
<1> DEFINE count == <<Len(shapes)>>
<1>1. shapes # <<>> /\ ~(Len(shapes) > MAX_SDFS) /\ shapes \in Seq(Places)
  OBVIOUS
<1>2. SetSdfSsbo
  BY <1>1 DEF NewRender, UploadShapes
<1>3. ArrayAt + Len(Data(shapes)) > BufferWords /\ BufferWords \in Nat \ {0}
  <2>1. Len(Data(shapes)) = ShapeWords * MAX_SDFS
    BY <1>1, DataWords
  <2> QED
    BY <2>1 DEF ShapeWords, BufferWords, ArrayAt
<1>4. sdf_ssbo' = SubData(sdf_ssbo, 0, count)
  BY <1>2, <1>3 DEF SetSdfSsbo, SubData
<1>5. Len(count) = 1 /\ count[1] = MAX_SDFS
  OBVIOUS
<1> HIDE DEF count
<1> QED
  BY <1>3, <1>4, <1>5, CountWritten

\* A scene with exactly as many shapes as the buffer was made for is announced
\* in full, while all the shapes in the buffer stay those of an earlier frame.
THEOREM FullArrayDropped ==
  UploadsSpec => [][NewRender /\ Len(shapes) = MAX_SDFS =>
                      /\ sdf_ssbo'[0] = MAX_SDFS
                      /\ \A w \in 1 .. BufferWords - 1 : sdf_ssbo'[w] = sdf_ssbo[w]]_uploads
<1>1. UploadsInv => UploadsTypeOK
  BY DEF UploadsInv
<1> QED
  BY UploadsInvariance, DroppedWhole, <1>1, PTL
=================================================================================
