--------------------------- MODULE EditorInputProofs ---------------------------
(***************************************************************************)
(* EditorInput for every keyboard, every range of pointer positions and    *)
(* any number of events in flight: types, the agreement of the three       *)
(* records of who has control, and that the camera turns by the motion it  *)
(* was given and its keys follow the keyboard.                             *)
(***************************************************************************)
EXTENDS EditorInput, TLAPS

Pointers == 0 .. MaxX

\* The game has no modes.
GrabInv ==
  /\ GrabMatchesMode
  /\ program = "game" => input_mode = "Editor"

\* Where the pointer was at the last motion the loop has polled.
Seen == ms_x + unseen

\* The queued motions lead from there to where the pointer is: path[i] is the
\* position after the i-th event.
Path(path) ==
  /\ path \in [0 .. Len(events) -> Pointers]
  /\ path[0] = Seen
  /\ path[Len(events)] = pointer
  /\ \A i \in 1 .. Len(events) :
       IF events[i].type = "motion"
         THEN events[i].x = path[i] /\ events[i].by = path[i] - path[i - 1]
         ELSE path[i] = path[i - 1]

MotionInv == \E path : Path(path)

\* swept is the distance between two positions, and while the runtime is in
\* play the second is the one it has got to.
SweptInv ==
  /\ ms_dx = swept
  /\ \E a, b \in Pointers :
       /\ swept = b - a
       /\ phase = "poll" /\ ~editor_mode => b = IF relative THEN Seen ELSE ms_x

KeyEvent(i, k) ==
  events[i].type \in {"key_down", "key_up"} /\ events[i].key = k

\* The last queued event of a key tells whether it is held.
KeyInv ==
  /\ \A k \in Keys : \A i \in DOMAIN events :
       KeyEvent(i, k) /\ (\A j \in DOMAIN events : KeyEvent(j, k) => j <= i) =>
         (events[i].type = "key_down" <=> k \in held)
  /\ KeysFollowKeyboard

InputInv == TypeOK /\ GrabInv /\ MotionInv /\ SweptInv /\ KeyInv

-----------------------------------------------------------------------------

\* The fields of an event, by its type.
LEMMA EventFields ==
  \A e \in Event :
    /\ e.type \in {"key_down", "key_up", "motion", "click"}
    /\ e.type \in {"key_down", "key_up"} => e.key \in Keys
    /\ e.type = "motion" => e.x \in Pointers /\ e.by \in Delta
BY DEF Event, Pointers

\* The distance between two positions is one the mouse can report.
LEMMA DeltaType ==
  \A x \in 0 .. MaxX, d \in Int : x + d \in 0 .. MaxX => d \in Delta
BY InputAssumption DEF Delta

\* A poll takes the oldest event.
LEMMA HeadEvent ==
  ASSUME TypeOK, PollEvent
  PROVE  /\ events[1] \in Event
         /\ Len(events) \in Nat \ {0}
         /\ events' = Tail(events)
         /\ Len(events') = Len(events) - 1
         /\ \A i \in 1 .. Len(events) - 1 : events'[i] = events[i + 1]
BY DEF TypeOK, PollEvent

\* What the user does is queued last.
LEMMA PostedEvent ==
  ASSUME TypeOK, NEW e, Post(e)
  PROVE  /\ Len(events) \in Nat
         /\ Len(events') = Len(events) + 1
         /\ \A i \in 1 .. Len(events) : events'[i] = events[i]
         /\ events'[Len(events) + 1] = e
BY DEF TypeOK, Post

\* Both programs start with nothing held and nothing queued.
LEMMA Initial == Init => InputInv
<1> SUFFICES ASSUME Init
             PROVE  InputInv
  OBVIOUS
<1> USE InputAssumption DEF Init
<1>1. TypeOK
  <2>1. ms_x \in 0 .. MaxX /\ 0 \in Delta /\ unseen \in Delta
    BY DEF Delta
  <2>2. events \in Seq(Event) /\ Len(events) <= MaxEvents
    OBVIOUS
  <2> QED
    BY <2>1, <2>2 DEF TypeOK
<1>2. GrabInv
  BY DEF GrabInv, GrabMatchesMode
<1>3. MotionInv
  <2>1. Path([i \in 0 .. Len(events) |-> pointer])
    BY DEF Path, Seen, Pointers
  <2> QED
    BY <2>1 DEF MotionInv
<1>4. SweptInv
  <2>1. 0 \in Pointers /\ swept = 0 - 0 /\ phase # "poll"
    BY DEF Pointers
  <2> QED
    BY <2>1 DEF SweptInv
<1>5. KeyInv
  BY DEF KeyInv, KeysFollowKeyboard, KeyEvent
<1> QED
  BY <1>1, <1>2, <1>3, <1>4, <1>5 DEF InputInv

\* The mouse is grabbed and released with the mode.
LEMMA GrabStep ==
  ASSUME TypeOK, GrabInv, [Next]_vars
  PROVE  GrabInv'
<1> USE DEF TypeOK, GrabInv, GrabMatchesMode, modeVars, programVars
<1>1. CASE User
  <2>1. PICK e : Post(e)
    BY <1>1 DEF User, Press, Release, MoveMouse, Click
  <2> QED
    BY <2>1 DEF Post
<1>2. CASE BeginInputFrame \/ PollEnds \/ UpdateGame
  BY <1>2 DEF BeginInputFrame, PollEnds, UpdateGame
<1>3. CASE PollEvent
  BY <1>3 DEF PollEvent, ReleaseControl
<1>4. CASE DrawViewport
  BY <1>4 DEF DrawViewport, TakeControl
<1>5. CASE UNCHANGED vars
  BY <1>5 DEF vars
<1> QED
  BY <1>1, <1>2, <1>3, <1>4, <1>5 DEF Next, Frame

-----------------------------------------------------------------------------
(* The path the queued motions describe.                                   *)

\* A motion the user makes continues the path of those queued.
LEMMA PathGrows ==
  ASSUME TypeOK, MotionInv, User
  PROVE  MotionInv'
<1>1. PICK path : Path(path)
  BY DEF MotionInv
<1>0. PICK longer :
        longer = [i \in 0 .. Len(events) + 1 |->
                    IF i <= Len(events) THEN path[i] ELSE pointer']
  OBVIOUS
<1>2. PICK e : /\ Post(e)
               /\ pointer' \in Pointers
               /\ e.type = "motion" => e.x = pointer' /\ e.by = pointer' - pointer
               /\ e.type # "motion" => pointer' = pointer
  <2>1. CASE \E k \in Keys : Press(k) \/ Release(k)
    BY <2>1 DEF TypeOK, Press, Release, Pointers
  <2>2. CASE \E x \in 0 .. MaxX : MoveMouse(x)
    BY <2>2 DEF MoveMouse, Pointers
  <2>3. CASE Click
    BY <2>3 DEF TypeOK, Click, userVars, Pointers
  <2> QED
    BY <2>1, <2>2, <2>3 DEF User
<1>3. Seen' = Seen
  BY <1>2 DEF Post, Seen, stateVars, history
<1>4. Path(longer)'
  <2>1. /\ Len(events) \in Nat
        /\ Len(events') = Len(events) + 1
        /\ \A i \in 1 .. Len(events) : events'[i] = events[i]
        /\ events'[Len(events) + 1] = e
    BY <1>2, PostedEvent
  <2>2. longer \in [0 .. Len(events') -> Pointers]
    BY <1>0, <1>1, <1>2, <2>1 DEF Path
  <2>3. longer[0] = Seen' /\ longer[Len(events')] = pointer'
    BY <1>0, <1>1, <1>3, <2>1 DEF Path
  <2>4. ASSUME NEW i \in 1 .. Len(events')
        PROVE  IF events'[i].type = "motion"
                 THEN events'[i].x = longer[i] /\ events'[i].by = longer[i] - longer[i - 1]
                 ELSE longer[i] = longer[i - 1]
    <3>1. CASE i <= Len(events)
      BY <1>0, <1>1, <2>1, <3>1 DEF Path
    <3>2. CASE i = Len(events) + 1
      BY <1>0, <1>1, <1>2, <2>1, <3>2 DEF Path
    <3> QED
      BY <2>1, <3>1, <3>2
  <2> QED
    BY <2>2, <2>3, <2>4 DEF Path
<1> QED
  BY <1>4 DEF MotionInv

\* A motion that is polled is the first of the path.
LEMMA PathShrinks ==
  ASSUME TypeOK, MotionInv, PollEvent
  PROVE  MotionInv'
<1>1. PICK path : Path(path)
  BY DEF MotionInv
<1>0. PICK shorter : shorter = [i \in 0 .. Len(events) - 1 |-> path[i + 1]]
  OBVIOUS
<1> DEFINE e == events[1]
<1>2. path[0] \in Pointers /\ path[1] \in Pointers
  BY <1>1, HeadEvent DEF Path
<1>3. Seen' = path[1]
  <2>1. CASE e.type = "motion"
    <3>1. events[1].x = path[1] /\ events[1].by = path[1] - Seen
      BY <1>1, <2>1, HeadEvent DEF Path
    <3>2. /\ path[1] \in Int /\ ms_x \in Int /\ unseen \in Int
      BY <1>2, InputAssumption DEF TypeOK, Pointers, Delta
    <3>3. Head(events) = events[1]
      BY HeadEvent DEF PollEvent
    <3>4. CASE editor_mode'
      <4>1. ms_x' = ms_x /\ unseen' = unseen + e.by
        BY <2>1, <3>3, <3>4 DEF PollEvent, Record, stateVars
      <4> QED
        BY <3>1, <3>2, <4>1 DEF Seen
    <3>5. CASE ~editor_mode'
      <4>1. ms_x' = e.x /\ unseen' = 0
        BY <2>1, <3>3, <3>5 DEF PollEvent, Record, ProcessInput
      <4> QED
        BY <3>1, <3>2, <4>1 DEF Seen
    <3> QED
      BY <3>4, <3>5
  <2>2. CASE e.type # "motion"
    BY <1>1, <2>2, HeadEvent DEF Path, PollEvent, ProcessInput, Record, Seen, stateVars
  <2> QED
    BY <2>1, <2>2
<1>4. pointer' = pointer
  BY DEF PollEvent, userVars
<1>5. Path(shorter)'
  <2>1. /\ Len(events) \in Nat \ {0}
        /\ Len(events') = Len(events) - 1
        /\ \A i \in 1 .. Len(events) - 1 : events'[i] = events[i + 1]
    BY HeadEvent
  <2>2. shorter \in [0 .. Len(events') -> Pointers]
    BY <1>0, <1>1, <2>1 DEF Path
  <2>3. shorter[0] = Seen' /\ shorter[Len(events')] = pointer'
    BY <1>0, <1>1, <1>3, <1>4, <2>1 DEF Path
  <2>4. ASSUME NEW i \in 1 .. Len(events')
        PROVE  IF events'[i].type = "motion"
                 THEN events'[i].x = shorter[i] /\ events'[i].by = shorter[i] - shorter[i - 1]
                 ELSE shorter[i] = shorter[i - 1]
    BY <1>0, <1>1, <2>1 DEF Path
  <2> QED
    BY <2>2, <2>3, <2>4 DEF Path
<1> QED
  BY <1>5 DEF MotionInv

\* The queued motions stay one path to where the pointer is.
LEMMA MotionStep ==
  ASSUME TypeOK, MotionInv, [Next]_vars
  PROVE  MotionInv'
<1>1. CASE UNCHANGED <<events, pointer, ms_x, unseen>>
  BY <1>1 DEF MotionInv, Path, Seen
<1>2. CASE BeginInputFrame \/ PollEnds \/ DrawViewport \/ UpdateGame
  BY <1>1, <1>2
  DEF BeginInputFrame, PollEnds, DrawViewport, UpdateGame, userVars, stateVars, history
<1>3. CASE UNCHANGED vars
  BY <1>1, <1>3 DEF vars, userVars, stateVars, history
<1> QED
  BY <1>2, <1>3, PathGrows, PathShrinks DEF Next, Frame

\* What the path says of the event the loop is about to poll.
LEMMA HeadMotion ==
  ASSUME TypeOK, MotionInv, PollEvent, events[1].type = "motion"
  PROVE  /\ Seen \in Pointers
         /\ events[1].x \in Pointers
         /\ events[1].by = events[1].x - Seen
<1>1. PICK path : Path(path)
  BY DEF MotionInv
<1>2. path[0] \in Pointers /\ path[1] \in Pointers
  BY <1>1, HeadEvent DEF Path
<1> QED
  BY <1>1, <1>2, HeadEvent DEF Path

\* The last position SDL has reported is one of the window.
LEMMA SeenType ==
  ASSUME TypeOK, MotionInv
  PROVE  Seen \in Pointers
BY DEF TypeOK, MotionInv, Path

\* The motion the camera is owed leads from one position to another.
LEMMA SweptStep ==
  ASSUME TypeOK, MotionInv, SweptInv, [Next]_vars
  PROVE  SweptInv'
<1> USE InputAssumption
<1>0. PICK a \in Pointers, b \in Pointers :
        /\ swept = b - a
        /\ phase = "poll" /\ ~editor_mode => b = IF relative THEN Seen ELSE ms_x
  BY DEF SweptInv
<1>1. CASE UNCHANGED <<swept, ms_dx, ms_x, unseen, phase, editor_mode, relative>>
  BY <1>1 DEF SweptInv, Seen
<1>2. CASE User
  <2>1. PICK e : Post(e)
    BY <1>2 DEF User, Press, Release, MoveMouse, Click
  <2> QED
    BY <1>1, <2>1 DEF Post, programVars, modeVars, stateVars, history
<1>3. CASE UNCHANGED vars
  BY <1>1, <1>3 DEF vars, programVars, modeVars, stateVars, history
<1>4. CASE BeginInputFrame
  <2> DEFINE here == IF relative THEN Seen ELSE ms_x
  <2>1. here \in Pointers /\ here - here = 0
    BY SeenType DEF TypeOK, Pointers
  <2>2. ms_dx' = 0 /\ swept' = 0 /\ here = IF relative' THEN Seen' ELSE ms_x'
    BY <1>4 DEF BeginInputFrame, Seen, programVars
  <2> QED
    BY <2>1, <2>2 DEF SweptInv
<1>5. CASE PollEnds \/ DrawViewport \/ UpdateGame
  BY <1>0, <1>5 DEF SweptInv, PollEnds, DrawViewport, UpdateGame, stateVars, history
<1>6. CASE PollEvent
  <2> DEFINE e == events[1]
  <2>0. e \in Event
    BY <1>6, HeadEvent
  <2>1. phase = "poll" /\ UNCHANGED relative /\ (editor_mode => editor_mode')
    BY <1>6 DEF PollEvent, ReleaseControl, modeVars, programVars
  <2>2. CASE editor_mode' \/ e.type # "motion"
    <3>1. UNCHANGED <<swept, ms_dx>>
      BY <1>6, <2>2 DEF PollEvent, ProcessInput, Record, stateVars
    <3>2. ~editor_mode' => UNCHANGED <<ms_x, unseen>>
      BY <1>6, <2>2 DEF PollEvent, ProcessInput, Record, stateVars
    <3> QED
      BY <1>0, <2>1, <3>1, <3>2 DEF SweptInv, Seen
  <2>3. CASE ~editor_mode' /\ e.type = "motion"
    <3>1. /\ ms_x' = e.x
          /\ ms_dx' = ms_dx + (IF relative THEN e.by ELSE e.x - ms_x)
          /\ swept' = swept + e.by + (IF relative THEN 0 ELSE unseen)
          /\ unseen' = 0
      BY <1>6, <2>3 DEF PollEvent, ProcessInput, Record, Rel
    <3>2. /\ Seen \in Pointers /\ e.x \in Pointers
          /\ e.by = e.x - Seen
      BY <1>6, <2>3, HeadMotion
    <3>3. ms_x \in Pointers /\ unseen \in Int
      BY DEF TypeOK, Pointers, Delta
    <3>4. swept' = e.x - a /\ ms_dx' = swept'
      BY <1>0, <2>1, <2>3, <3>1, <3>2, <3>3 DEF SweptInv, Seen, Pointers
    <3>5. e.x = IF relative' THEN Seen' ELSE ms_x'
      BY <3>1, <3>2 DEF Seen, Pointers
    <3> QED
      BY <3>2, <3>4, <3>5 DEF SweptInv
  <2> QED
    BY <2>2, <2>3
<1> QED
  BY <1>2, <1>3, <1>4, <1>5, <1>6 DEF Next, Frame

\* Every step keeps the types.
LEMMA TypeStep ==
  ASSUME TypeOK, MotionInv, MotionInv', SweptInv', [Next]_vars
  PROVE  TypeOK'
<1> USE InputAssumption
<1>0. swept' \in Delta /\ ms_dx' \in Delta
  BY DEF SweptInv, Pointers, Delta
<1>1. CASE UNCHANGED vars
  BY <1>1
  DEF TypeOK, vars, programVars, userVars, modeVars, stateVars, cameraVars, history
<1>2. CASE User
  <2>1. PICK e \in Event : Post(e) /\ held' \in SUBSET Keys /\ pointer' \in 0 .. MaxX
    <3>1. CASE \E k \in Keys : Press(k) \/ Release(k)
      BY <3>1 DEF TypeOK, Press, Release, Event
    <3>2. ASSUME NEW x \in 0 .. MaxX, MoveMouse(x)
          PROVE  /\ [type |-> "motion", x |-> x, by |-> x - pointer] \in Event
                 /\ pointer' \in 0 .. MaxX /\ held' \in SUBSET Keys
      BY <3>2 DEF TypeOK, MoveMouse, Event, Delta
    <3>3. CASE Click
      BY <3>3 DEF TypeOK, Click, userVars, Event
    <3> QED
      BY <1>2, <3>1, <3>2, <3>3 DEF User, MoveMouse
  <2> QED
    BY <2>1 DEF TypeOK, Post, programVars, modeVars, stateVars, cameraVars, history
<1>3. CASE BeginInputFrame \/ PollEnds
  BY <1>0, <1>3
  DEF TypeOK, BeginInputFrame, PollEnds, programVars, userVars, modeVars, stateVars,
      cameraVars, history
<1>4. CASE DrawViewport \/ UpdateGame
  <2>1. moved' \in SUBSET MoveKeys /\ turned' \in Delta
    <3>1. 0 \in Delta
      BY DEF Delta
    <3> QED
      BY <1>4, <3>1 DEF TypeOK, DrawViewport, UpdateGame, UserControl
  <2>2. editor_mode' \in BOOLEAN /\ input_mode' \in {"Editor", "Client"} /\ grabbed' \in BOOLEAN
    BY <1>4 DEF TypeOK, DrawViewport, UpdateGame, TakeControl, modeVars
  <2> QED
    BY <1>4, <2>1, <2>2
    DEF TypeOK, DrawViewport, UpdateGame, programVars, userVars, stateVars, history
<1>5. CASE PollEvent
  <2> DEFINE e == events[1]
  <2>0. /\ e \in Event
        /\ e.type \in {"key_down", "key_up"} => e.key \in Keys
        /\ e.type = "motion" => e.x \in Pointers
    BY <1>5, HeadEvent, EventFields
  <2>1. events' \in Seq(Event) /\ Len(events') <= MaxEvents
    BY <1>5 DEF TypeOK, PollEvent
  <2>2. clicked' \in BOOLEAN
    BY <1>5, Zenon DEF TypeOK, PollEvent
  <2>3. editor_mode' \in BOOLEAN /\ input_mode' \in {"Editor", "Client"} /\ grabbed' \in BOOLEAN
    BY <1>5 DEF TypeOK, PollEvent, ReleaseControl, modeVars
  <2>4. down' \in SUBSET Keys /\ ms_x' \in 0 .. MaxX /\ lost' \in SUBSET Keys
    BY <1>5, <2>0 DEF TypeOK, PollEvent, ProcessInput, Record, stateVars, Pointers
  <2>5. unseen' \in Delta
    <3>1. unseen' \in Int
      BY <1>5, <2>0, HeadMotion DEF TypeOK, PollEvent, Record, Delta, Pointers
    <3>2. Seen' \in Pointers
      BY DEF MotionInv, Path
    <3> QED
      <4>1. ms_x' \in 0 .. MaxX /\ ms_x' + unseen' \in 0 .. MaxX
        BY <2>4, <3>2 DEF Seen, Pointers
      <4> QED
        BY <3>1, <4>1, DeltaType
  <2> QED
    BY <1>0, <1>5, <2>1, <2>2, <2>3, <2>4, <2>5
    DEF TypeOK, PollEvent, programVars, userVars, cameraVars
<1> QED
  BY <1>1, <1>2, <1>3, <1>4, <1>5 DEF Next, Frame

-----------------------------------------------------------------------------
(* Keys.                                                                   *)

\* A key that is pressed or released is queued, or lost to a full queue.
LEMMA KeysPosted ==
  ASSUME TypeOK, KeyInv, User
  PROVE  KeyInv'
<1>1. PICK e \in Event :
        /\ Post(e)
        /\ \A k \in Keys :
             (e.type \in {"key_down", "key_up"} /\ e.key = k)
               \/ (k \in held' <=> k \in held)
        /\ e.type = "key_down" => e.key \in held'
        /\ e.type = "key_up" => e.key \notin held'
  <2>1. ASSUME NEW k \in Keys, Press(k)
        PROVE  [type |-> "key_down", key |-> k] \in Event
    BY DEF Event
  <2>2. ASSUME NEW k \in Keys, Release(k)
        PROVE  [type |-> "key_up", key |-> k] \in Event
    BY DEF Event
  <2>3. ASSUME NEW x \in 0 .. MaxX, MoveMouse(x)
        PROVE  [type |-> "motion", x |-> x, by |-> x - pointer] \in Event
    BY InputAssumption DEF TypeOK, Event, Delta
  <2>4. [type |-> "click"] \in Event
    BY DEF Event
  <2> QED
    BY <2>1, <2>2, <2>3, <2>4
    DEF TypeOK, User, Press, Release, MoveMouse, Click, userVars
<1>2. /\ Len(events) \in Nat
      /\ DOMAIN events = 1 .. Len(events)
      /\ DOMAIN events' = 1 .. Len(events) + 1
      /\ \A i \in 1 .. Len(events) : events'[i] = events[i]
      /\ events'[Len(events) + 1] = e
  BY <1>1, PostedEvent DEF TypeOK, Post
<1>3. UNCHANGED <<down, lost>>
  BY <1>1 DEF Post, stateVars, history
<1>4. ASSUME NEW k \in Keys, e.type \in {"key_down", "key_up"}, e.key = k,
             NEW n, n = Len(events) + 1
      PROVE  KeyEvent(n, k)'
  BY <1>2, <1>4 DEF KeyEvent
<1>5. ASSUME NEW k \in Keys, NEW i \in DOMAIN events', KeyEvent(i, k)',
             \A j \in DOMAIN events' : KeyEvent(j, k)' => j <= i
      PROVE  events'[i].type = "key_down" <=> k \in held'
  <2>1. CASE i = Len(events) + 1
    BY <1>1, <1>2, <1>5, <2>1 DEF KeyEvent
  <2>2. CASE i # Len(events) + 1
    <3>1. i \in DOMAIN events /\ KeyEvent(i, k) /\ events'[i] = events[i]
      BY <1>2, <1>5, <2>2 DEF KeyEvent
    <3>2. \A j \in DOMAIN events : KeyEvent(j, k) => j <= i
      BY <1>2, <1>5 DEF KeyEvent
    <3>3. ~(e.type \in {"key_down", "key_up"} /\ e.key = k)
      <4>1. PICK n : n = Len(events) + 1
        OBVIOUS
      <4> QED
        BY <1>2, <1>4, <1>5, <3>1, <4>1
    <3> QED
      BY <1>1, <3>1, <3>2, <3>3 DEF KeyInv
  <2> QED
    BY <2>1, <2>2
<1>6. KeysFollowKeyboard'
  <2> SUFFICES ASSUME NEW k \in Keys \ lost',
                      \A i \in DOMAIN events' :
                        events'[i].type \in {"key_down", "key_up"} => events'[i].key # k
               PROVE  k \in down' <=> k \in held'
    BY DEF KeysFollowKeyboard
  <2>1. \A i \in DOMAIN events :
          events[i].type \in {"key_down", "key_up"} => events[i].key # k
    BY <1>2
  <2>2. k \in held' <=> k \in held
    BY <1>1, <1>2
  <2> QED
    BY <1>3, <2>1, <2>2 DEF KeyInv, KeysFollowKeyboard
<1> QED
  BY <1>5, <1>6 DEF KeyInv

\* A key event that is polled updates the table of keys held.
LEMMA KeysPolled ==
  ASSUME TypeOK, KeyInv, PollEvent
  PROVE  KeyInv'
<1> DEFINE e == events[1]
<1>1. /\ e \in Event
      /\ Len(events) \in Nat \ {0}
      /\ DOMAIN events = 1 .. Len(events)
      /\ DOMAIN events' = 1 .. Len(events) - 1
      /\ \A i \in 1 .. Len(events) - 1 : events'[i] = events[i + 1]
  BY HeadEvent DEF TypeOK, PollEvent
<1>2. UNCHANGED held
  BY DEF PollEvent, userVars
<1>3. ASSUME NEW k \in Keys, NEW i \in DOMAIN events', KeyEvent(i, k)',
             \A j \in DOMAIN events' : KeyEvent(j, k)' => j <= i
      PROVE  events'[i].type = "key_down" <=> k \in held'
  <2>1. i + 1 \in DOMAIN events /\ KeyEvent(i + 1, k)
    BY <1>1, <1>3 DEF KeyEvent
  <2>2. ASSUME NEW j \in DOMAIN events, KeyEvent(j, k)
        PROVE  j <= i + 1
    <3>1. CASE j = 1
      BY <1>1, <1>3, <3>1
    <3>2. CASE j # 1
      <4>1. j - 1 \in DOMAIN events' /\ events'[j - 1] = events[j]
        BY <1>1, <3>2
      <4> QED
        BY <1>1, <1>3, <2>2, <4>1 DEF KeyEvent
    <3> QED
      BY <3>1, <3>2
  <2> QED
    BY <1>1, <1>2, <2>1, <2>2 DEF KeyInv
<1>4. KeysFollowKeyboard'
  <2> SUFFICES ASSUME NEW k \in Keys \ lost',
                      \A i \in DOMAIN events' :
                        events'[i].type \in {"key_down", "key_up"} => events'[i].key # k
               PROVE  k \in down' <=> k \in held'
    BY DEF KeysFollowKeyboard
  <2>1. \A i \in DOMAIN events : KeyEvent(i, k) => i = 1
    <3> SUFFICES ASSUME NEW i \in DOMAIN events, KeyEvent(i, k), i # 1
                 PROVE  FALSE
      OBVIOUS
    <3>1. i - 1 \in DOMAIN events' /\ events'[i - 1] = events[i]
      BY <1>1
    <3> QED
      BY <3>1 DEF KeyEvent
  <2>2. CASE KeyEvent(1, k)
    <3>1. e.type = "key_down" <=> k \in held
      BY <1>1, <2>1, <2>2 DEF KeyInv
    <3>2. ~editor_mode'
      BY <2>2 DEF PollEvent, Record, KeyEvent
    <3> QED
      BY <1>1, <1>2, <2>2, <3>1, <3>2 DEF TypeOK, PollEvent, ProcessInput, KeyEvent
  <2>3. CASE ~KeyEvent(1, k)
    <3>1. \A i \in DOMAIN events :
            events[i].type \in {"key_down", "key_up"} => events[i].key # k
      BY <2>1, <2>3 DEF KeyEvent
    <3>2. k \notin lost /\ (k \in down' <=> k \in down)
      BY <1>1, <2>3 DEF PollEvent, ProcessInput, Record, KeyEvent, stateVars
    <3> QED
      BY <1>2, <3>1, <3>2 DEF KeyInv, KeysFollowKeyboard
  <2> QED
    BY <2>2, <2>3
<1> QED
  BY <1>3, <1>4 DEF KeyInv

\* The table of keys and the queued key events give the keyboard.
LEMMA KeyStep ==
  ASSUME TypeOK, KeyInv, [Next]_vars
  PROVE  KeyInv'
<1>1. CASE UNCHANGED <<events, held, down, lost>>
  BY <1>1 DEF KeyInv, KeyEvent, KeysFollowKeyboard
<1>2. CASE BeginInputFrame \/ PollEnds \/ DrawViewport \/ UpdateGame
  BY <1>1, <1>2
  DEF BeginInputFrame, PollEnds, DrawViewport, UpdateGame, userVars, stateVars, history
<1>3. CASE UNCHANGED vars
  BY <1>1, <1>3 DEF vars, userVars, stateVars, history
<1> QED
  BY <1>2, <1>3, KeysPosted, KeysPolled DEF Next, Frame

-----------------------------------------------------------------------------

\* The inductive invariant of the editor's input, of which the theorems below
\* are parts.
THEOREM Invariance == Spec => []InputInv
<1>1. InputInv /\ [Next]_vars => InputInv'
  <2> SUFFICES ASSUME InputInv, [Next]_vars
               PROVE  InputInv'
    OBVIOUS
  <2> USE DEF InputInv
  <2>1. MotionInv' /\ SweptInv'
    BY MotionStep, SweptStep
  <2>2. TypeOK'
    BY <2>1, TypeStep
  <2> QED
    BY <2>1, <2>2, GrabStep, KeyStep
<1> QED
  BY <1>1, Initial, PTL DEF Spec

\* No frame ever turns the camera by more than the pointer's range, and every
\* event, mode and key state keeps its type.
THEOREM InputTypeCorrect == Spec => []TypeOK
<1>1. InputInv => TypeOK
  BY DEF InputInv
<1> QED
  BY <1>1, Invariance, PTL

\* Whatever falls between a click and an escape, the mouse grab, the runtime's
\* mode and the client's never contradict each other.
THEOREM GrabAgrees == Spec => []GrabMatchesMode
<1>1. InputInv => GrabMatchesMode
  BY DEF InputInv, GrabInv
<1> QED
  BY <1>1, Invariance, PTL

\* process_input_event() hands the camera exactly the motion of the frame, also
\* where it has to work the distance out from positions.
THEOREM LookAgrees == Spec => []LookMatchesMotion
<1>1. InputInv => LookMatchesMotion
  BY DEF InputInv, SweptInv, LookMatchesMotion
<1> QED
  BY <1>1, Invariance, PTL

\* No key sticks, and none is missed, unless its latest event went to the
\* editor.
THEOREM KeysAgree == Spec => []KeysFollowKeyboard
<1>1. InputInv => KeysFollowKeyboard
  BY DEF InputInv, KeyInv
<1> QED
  BY <1>1, Invariance, PTL
=============================================================================
