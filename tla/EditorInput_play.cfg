SPECIFICATION Spec
CONSTANTS
  escape = escape
  w = w
  Keys <- mcKeys
  Escape = escape
  MoveKeys <- mcMoveKeys
  MaxX = 2
  MaxEvents = 3
INVARIANTS   KeysFollowKeyboard
