SPECIFICATION Spec
CONSTANTS
  Screens = {s1, s2, s3}
  List = List
  Nav = Nav
  Root = Root
  Names = {ann}
  Texts = {hi}
  Default = Jan
  Empty = Empty
  None = None
  MaxSent = 4
SYMMETRY Symmetry
INVARIANTS
  SentScreenGone
  EveryTapSends
PROPERTY OnlyDisplayedDismissed
CHECK_DEADLOCK FALSE
