SPECIFICATION Spec
CONSTANTS
  Pages = {p1}
  Bundles = {b1, b2}
  NoMaterial = NoMaterial
  Lines = {"a"}
  Requested = {"paused", "work"}
  StoreCap = 2
  SnapLimit = 1
  ScreenCap = 2
  MaxChanges = 3
  MaxOutages = 1
  MaxDisturbed = 2
INVARIANTS
  TypeOK
  ScreenShowsStore
  LogsAreTheNewest
