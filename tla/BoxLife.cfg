\* The life of a machine: three commands, a session beside them, one failure and one cut-off.
SPECIFICATION Spec
CONSTANTS
  Boxes = {1, 2}
  Kinds = {"on demand", "spot"}
  Before = {"nothing", "old box", "image"}
  Troubles = 1
  Interrupts = 1
  Given = 3
  Modes = {"plain", "force", "no-push", "all"}
INVARIANTS
  OneBox
PROPERTIES
  NothingLostUnasked
  NothingLetGo
CHECK_DEADLOCK FALSE
