-------------------------------- MODULE Viewport --------------------------------
(***************************************************************************)
(* The texture the editor shows the scene in.  Renderer keeps one          *)
(* framebuffer with its colour texture and depth buffer and makes them     *)
(* anew whenever another size is asked for, which a screenshot does in the *)
(* same frame as the viewport panel.  ImGui only remembers the texture's   *)
(* name and draws it after all panels are done; OpenGL hands out the names *)
(* of deleted objects again.                                               *)
(***************************************************************************)
EXTENDS Naturals, FiniteSets

CONSTANTS
  ObjectNames,       \* names OpenGL gives out, each kind of object its own
  Sizes,             \* of the viewport panel
  Hidden,            \* a panel without width or height
  ScreenshotSize

ASSUME ViewportAssumption ==
  /\ ObjectNames \subseteq Nat \ {0}
  /\ Hidden \notin Sizes \cup {ScreenshotSize}

VARIABLES
  panel,                                 \* the panel's size
  framebuffer, color_texture, depth_rbo, \* names, 0 before the first frame
  framebuffer_size,
  live,        \* GL: the objects that exist
  content,     \* GL: the size each texture was last rendered at
  pc,          \* the panel drawn next, or "draw" for ImGui's draw list
  shown,       \* ImGui's draw list: the textures in it and their sizes
  shot         \* the pixels of the last screenshot, by what they show

renderer == <<framebuffer, color_texture, depth_rbo, framebuffer_size, live, content>>
vars == <<panel, renderer, pc, shown, shot>>

AllSizes == Sizes \cup {ScreenshotSize}
Kinds == {"framebuffer", "texture", "renderbuffer"}

TypeOK ==
  /\ panel \in Sizes \cup {Hidden}
  /\ {framebuffer, color_texture, depth_rbo} \subseteq ObjectNames \cup {0}
  /\ framebuffer = 0 <=> depth_rbo = 0
  /\ framebuffer_size \in AllSizes \cup {Hidden}
  /\ live \in [Kinds -> SUBSET ObjectNames]
  /\ content \in [ObjectNames -> AllSizes \cup {Hidden}]
  /\ pc \in {"tools", "viewport", "draw"}
  /\ shown \in SUBSET [texture : ObjectNames, size : Sizes]
  /\ shot \in AllSizes \cup {Hidden}

Init ==
  /\ panel \in Sizes \cup {Hidden}
  /\ framebuffer = 0 /\ color_texture = 0 /\ depth_rbo = 0
  /\ framebuffer_size = Hidden
  /\ live = [k \in Kinds |-> {}]
  /\ content = [n \in ObjectNames |-> Hidden]
  /\ pc = "tools"
  /\ shown = {}
  /\ shot = Hidden

-----------------------------------------------------------------------------

\* Fault: the depth buffers pile up.
DeletedNoDepth(kind) ==
  IF kind = "renderbuffer" THEN {}
  ELSE {IF kind = "framebuffer" THEN framebuffer ELSE color_texture}

Deleted(kind) ==
  {CASE kind = "framebuffer" -> framebuffer
     [] kind = "texture" -> color_texture
     [] kind = "renderbuffer" -> depth_rbo}

\* Fault: a framebuffer of any size will do.
FitsAnyOnce(size) == framebuffer # 0

Fits(size) == framebuffer # 0 /\ framebuffer_size = size

Generate(left, size) ==
  \E f \in ObjectNames \ left["framebuffer"], t \in ObjectNames \ left["texture"],
     d \in ObjectNames \ left["renderbuffer"] :
    /\ framebuffer' = f /\ color_texture' = t /\ depth_rbo' = d
    /\ live' = [left EXCEPT !["framebuffer"] = @ \cup {f}, !["texture"] = @ \cup {t},
                            !["renderbuffer"] = @ \cup {d}]
    /\ content' = [content EXCEPT ![t] = size]

\* render_to_texture(): ensure_framebuffer(), then the scene fills the texture.
RenderToTexture(size) ==
  \/ /\ Fits(size)
     /\ UNCHANGED renderer
  \/ /\ ~Fits(size)
     /\ framebuffer_size' = size
     /\ Generate([k \in Kinds |-> live[k] \ Deleted(k)], size)

\* Fault: the viewport comes before the tools.
PanelAfterSwapped(p) ==
  CASE p = "viewport" -> "tools" [] p = "tools" -> "draw" [] p = "draw" -> "viewport"

\* render() draws the panels in this order, and then what ImGui has gathered.
PanelAfter(p) ==
  CASE p = "tools" -> "viewport" [] p = "viewport" -> "draw" [] p = "draw" -> "tools"

\* draw_tools(): the pixels are read back at the screenshot's size.
TakeScreenshot ==
  /\ pc = "tools"
  /\ RenderToTexture(ScreenshotSize)
  /\ shot' = framebuffer_size'
  /\ pc' = PanelAfter(pc)
  /\ UNCHANGED <<panel, shown>>

NoScreenshot ==
  /\ pc = "tools"
  /\ pc' = PanelAfter(pc)
  /\ UNCHANGED <<panel, renderer, shown, shot>>

DrawViewport ==
  /\ pc = "viewport"
  /\ \/ /\ panel # Hidden
        /\ RenderToTexture(panel)
        /\ shown' = shown \cup {[texture |-> color_texture', size |-> panel]}
     \/ /\ panel = Hidden
        /\ UNCHANGED <<renderer, shown>>
  /\ pc' = PanelAfter(pc)
  /\ UNCHANGED <<panel, shot>>

\* The user may have resized the window before the next frame.
DrawList ==
  /\ pc = "draw"
  /\ shown' = {}
  /\ panel' \in Sizes \cup {Hidden}
  /\ pc' = PanelAfter(pc)
  /\ UNCHANGED <<renderer, shot>>

Next == TakeScreenshot \/ NoScreenshot \/ DrawViewport \/ DrawList

Spec == Init /\ [][Next]_vars

-----------------------------------------------------------------------------
(* Properties.                                                             *)

\* Whatever ImGui draws exists and shows the scene at the size it is drawn
\* at, also in the frame of a screenshot and after a resize, although the
\* texture is deleted and made anew and its name may be another's by then.
ShownIsCurrent ==
  pc = "draw" =>
    \A image \in shown :
      /\ image.texture \in live["texture"]
      /\ content[image.texture] = image.size

\* However often the size changes, the renderer owns every object there is.
NothingLeaks ==
  /\ live["framebuffer"] = {framebuffer} \ {0}
  /\ live["texture"] = {color_texture} \ {0}
  /\ live["renderbuffer"] = {depth_rbo} \ {0}

\* A screenshot has all its pixels, whatever size the viewport has.
ScreenshotComplete == shot \in {ScreenshotSize, Hidden}
=============================================================================
