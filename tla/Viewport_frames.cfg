SPECIFICATION Spec
CONSTANTS
  small = small
  large = large
  hd = hd
  hidden = hidden
  ObjectNames <- mcNames
  Sizes <- mcSizes
  Hidden = hidden
  ScreenshotSize = hd
INVARIANTS ShownIsCurrent NothingLeaks
