SPECIFICATION Spec
CONSTANTS
  Procs = {1, 2}
  Base <- Mapped
  DataPages <- Sized
  Pages <- PagesOf
  MaxLevel = 4
  PageSize = 4
  HeadSize = 1
  Sizes = {3, 4, 8}
INVARIANTS Tiling ListsExact
PROPERTY Implements
CHECK_DEADLOCK FALSE
