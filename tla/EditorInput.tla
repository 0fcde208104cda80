----------------------------- MODULE EditorInput -----------------------------
(***************************************************************************)
(* How a frame loop turns keyboard and mouse events into camera movement,  *)
(* and how, in the editor, control of them passes between the panels and   *)
(* the viewport: escape gives it to the panels (process_events), a click   *)
(* in the viewport to the camera (EditorPanels::draw_viewport).  The game  *)
(* drives the same runtime from a loop of its own, without modes.          *)
(*                                                                         *)
(* A frame runs begin_input_frame(), polls events until there are none,    *)
(* and draws the viewport, which updates the scene (UserControl moves the  *)
(* camera) and only then looks at the click; the game renders instead of   *)
(* drawing panels.  The user acts at any time.                             *)
(***************************************************************************)
EXTENDS Integers, Sequences

CONSTANTS
  Keys,            \* SDL scancodes
  Escape,          \* SDL_SCANCODE_ESCAPE
  MoveKeys,        \* the scancodes UserControl() looks at: W, A, S, D
  MaxX,            \* bound: pointer positions 0 .. MaxX
  MaxEvents        \* bound: events waiting in SDL's queue

ASSUME InputAssumption ==
  /\ Escape \in Keys
  /\ MoveKeys \subseteq Keys \ {Escape}
  /\ MaxX \in Nat
  /\ MaxEvents \in Nat

VARIABLES
  program,         \* "editor" or "game"
  relative,        \* motion events carry xrel; FALSE where it arrives as zero
  held, pointer,   \* the user's keyboard and mouse
  events,          \* SDL's event queue
  phase,           \* where the frame is
  clicked,         \* ImGui::IsMouseClicked(0) over the viewport, this frame
  editor_mode,     \* Runtime::editor_mode
  input_mode,      \* Client::input_mode
  grabbed,         \* mouse grabbed and relative (SDL_SetWindowMouseGrab, ...)
  down,            \* keyboard_state::down
  ms_x, ms_dx,     \* mouse_state::x and dx
  moved, turned,   \* what the last update did to the camera
  swept,           \* history: distance the runtime owes the camera this frame
  unseen,          \* history: distance moved since the last motion it saw
  lost             \* history: keys whose latest event went to the editor

programVars == <<program, relative>>
userVars == <<held, pointer>>
modeVars == <<editor_mode, input_mode, grabbed>>
stateVars == <<down, ms_x, ms_dx>>
cameraVars == <<moved, turned>>
history == <<swept, unseen, lost>>
vars == <<programVars, userVars, events, phase, clicked, modeVars, stateVars, cameraVars,
          history>>

Delta == -MaxX .. MaxX

Event ==
  [type : {"key_down", "key_up"}, key : Keys]
    \cup [type : {"motion"}, x : 0 .. MaxX, by : Delta]
    \cup [type : {"click"}]

TypeOK ==
  /\ program \in {"editor", "game"}
  /\ relative \in BOOLEAN
  /\ held \in SUBSET Keys
  /\ pointer \in 0 .. MaxX
  /\ events \in Seq(Event) /\ Len(events) <= MaxEvents
  /\ phase \in {"begin", "poll", "view"}
  /\ clicked \in BOOLEAN
  /\ editor_mode \in BOOLEAN
  /\ input_mode \in {"Editor", "Client"}
  /\ grabbed \in BOOLEAN
  /\ down \in SUBSET Keys
  /\ ms_x \in 0 .. MaxX
  /\ ms_dx \in Delta
  /\ moved \in SUBSET MoveKeys
  /\ turned \in Delta
  /\ swept \in Delta
  /\ unseen \in Delta
  /\ lost \in SUBSET Keys

\* keyboard_state and mouse_state start at zero, wherever the pointer is.
Init ==
  /\ program \in {"editor", "game"}
  /\ relative \in BOOLEAN
  /\ held = {}
  /\ pointer \in 0 .. MaxX
  /\ events = <<>>
  /\ phase = "begin"
  /\ clicked = FALSE
  /\ editor_mode = FALSE
  /\ input_mode = "Editor"
  /\ grabbed = FALSE
  /\ down = {}
  /\ ms_x = 0
  /\ ms_dx = 0
  /\ moved = {}
  /\ turned = 0
  /\ swept = 0
  /\ unseen = pointer
  /\ lost = {}

-----------------------------------------------------------------------------
(* The user.  A held key repeats its key-down events.                      *)

Post(e) ==
  /\ Len(events) < MaxEvents
  /\ events' = Append(events, e)
  /\ UNCHANGED <<programVars, phase, clicked, modeVars, stateVars, cameraVars,
                 history>>

Press(k) ==
  /\ held' = held \cup {k}
  /\ Post([type |-> "key_down", key |-> k])
  /\ UNCHANGED pointer

Release(k) ==
  /\ k \in held
  /\ held' = held \ {k}
  /\ Post([type |-> "key_up", key |-> k])
  /\ UNCHANGED pointer

MoveMouse(x) ==
  /\ x # pointer
  /\ pointer' = x
  /\ Post([type |-> "motion", x |-> x, by |-> x - pointer])
  /\ UNCHANGED held

Click == Post([type |-> "click"]) /\ UNCHANGED userVars

-----------------------------------------------------------------------------
(* The frame.                                                              *)

\* Fault: the deltas of the last frame are kept.
BeginKeepsDelta ==
  /\ phase = "begin"
  /\ clicked' = FALSE
  /\ swept' = 0
  /\ phase' = "poll"
  /\ UNCHANGED <<programVars, userVars, events, modeVars, stateVars, cameraVars,
                 unseen, lost>>

BeginInputFrame ==
  /\ phase = "begin"
  /\ clicked' = FALSE
  /\ ms_dx' = 0
  /\ swept' = 0
  /\ phase' = "poll"
  /\ UNCHANGED <<programVars, userVars, events, modeVars, down, ms_x, cameraVars,
                 unseen, lost>>

\* The movement an event reports; where xrel is zero the code takes the
\* distance to the last position it has seen.
Rel(e) == IF relative THEN e.by ELSE e.x - ms_x

\* Fault: keys are never released.
InputWithoutKeyUp(e) ==
  \/ /\ e.type = "key_down"
     /\ down' = down \cup {e.key}
     /\ UNCHANGED <<ms_x, ms_dx>>
  \/ /\ e.type \in {"key_up", "click"}
     /\ UNCHANGED stateVars
  \/ /\ e.type = "motion"
     /\ ms_x' = e.x
     /\ ms_dx' = ms_dx + Rel(e)
     /\ UNCHANGED down

\* Runtime::process_input_event(), past its check of editor_mode.
ProcessInput(e) ==
  \/ /\ e.type = "key_down"
     /\ down' = down \cup {e.key}
     /\ UNCHANGED <<ms_x, ms_dx>>
  \/ /\ e.type = "key_up"
     /\ down' = down \ {e.key}
     /\ UNCHANGED <<ms_x, ms_dx>>
  \/ /\ e.type = "motion"
     /\ ms_x' = e.x
     /\ ms_dx' = ms_dx + Rel(e)
     /\ UNCHANGED down
  \/ /\ e.type = "click"
     /\ UNCHANGED stateVars

\* Fault: the grab outlives escape.
ReleaseModeOnly ==
  /\ input_mode' = "Editor"
  /\ editor_mode' = TRUE
  /\ UNCHANGED grabbed

\* On escape; the game only lets go of the mouse.
ReleaseControl ==
  /\ grabbed' = FALSE
  /\ IF program = "editor"
       THEN input_mode' = "Editor" /\ editor_mode' = TRUE
       ELSE UNCHANGED <<input_mode, editor_mode>>

\* What the user may expect of event e: motion the panels were given adds up,
\* and where events carry no distance the next motion played makes up for it.
Record(e) ==
  /\ lost' = IF e.type \notin {"key_down", "key_up"} THEN lost
             ELSE IF editor_mode' THEN lost \cup {e.key}
             ELSE lost \ {e.key}
  /\ IF e.type # "motion" THEN UNCHANGED <<swept, unseen>>
     ELSE IF editor_mode' THEN unseen' = unseen + e.by /\ UNCHANGED swept
     ELSE /\ swept' = swept + e.by + (IF relative THEN 0 ELSE unseen)
          /\ unseen' = 0

\* One turn of the loop in process_events(): escape changes the mode before
\* the runtime sees the event.
PollEvent ==
  /\ phase = "poll"
  /\ events # <<>>
  /\ LET e == Head(events) IN
       /\ events' = Tail(events)
       /\ clicked' = (clicked \/ e.type = "click")
       /\ IF e.type = "key_down" /\ e.key = Escape
            THEN ReleaseControl
            ELSE UNCHANGED modeVars
       /\ IF editor_mode' THEN UNCHANGED stateVars ELSE ProcessInput(e)
       /\ Record(e)
  /\ UNCHANGED <<programVars, userVars, phase, cameraVars>>

PollEnds ==
  /\ phase = "poll"
  /\ events = <<>>
  /\ phase' = "view"
  /\ UNCHANGED <<programVars, userVars, events, clicked, modeVars, stateVars,
                 cameraVars, history>>

\* systems::UserControl() on the camera, for a frame of non-zero length.
UserControl ==
  /\ moved' = down \cap MoveKeys
  /\ turned' = ms_dx

TakeControl ==
  /\ editor_mode' = FALSE
  /\ input_mode' = "Client"
  /\ grabbed' = TRUE

\* draw_viewport(): no update while the panel has no area.
DrawViewport ==
  /\ program = "editor"
  /\ phase = "view"
  /\ phase' = "begin"
  /\ UserControl \/ (moved' = {} /\ turned' = 0)
  /\ IF clicked THEN TakeControl ELSE UNCHANGED modeVars
  /\ UNCHANGED <<programVars, userVars, events, clicked, stateVars, history>>

\* The rest of the game's frame: runtime.update(), render_to_window().
UpdateGame ==
  /\ program = "game"
  /\ phase = "view"
  /\ phase' = "begin"
  /\ UserControl
  /\ UNCHANGED <<programVars, userVars, events, clicked, modeVars, stateVars,
                 history>>

User ==
  \/ \E k \in Keys : Press(k) \/ Release(k)
  \/ \E x \in 0 .. MaxX : MoveMouse(x)
  \/ Click

Frame == BeginInputFrame \/ PollEvent \/ PollEnds \/ DrawViewport \/ UpdateGame

Next == User \/ Frame

Spec == Init /\ [][Next]_vars

-----------------------------------------------------------------------------
(* Properties.                                                             *)

\* The three records of who has control, set in two places of the frame loop,
\* never contradict each other once the first click or escape has set them:
\* a grabbed mouse always belongs to a runtime and a client in play.
GrabMatchesMode ==
  /\ grabbed <=> input_mode = "Client"
  /\ grabbed => ~editor_mode

\* What the camera turns by is what the mouse moved by since the frame began,
\* not counting movement the panels were given.  Only where SDL reports no
\* distances does the first motion after them bring along what they were
\* given, all of it and once.
LookMatchesMotion == phase = "view" => ms_dx = swept

\* A key is down for the camera exactly while it is held, except for keys
\* whose latest event is still queued or went to the editor.
KeysFollowKeyboard ==
  \A k \in Keys \ lost :
    (\A i \in DOMAIN events :
       events[i].type \in {"key_down", "key_up"} => events[i].key # k)
    => (k \in down <=> k \in held)
=============================================================================
