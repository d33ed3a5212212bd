SPECIFICATION Spec
CONSTANTS
  Keys = {"a", "b"}
  Types = {"string", "int", "bool"}
  Contents = {"x", "y"}
  Nothing = "nothing"
  Root = "root"
  Others <- OtherValues
  MaxItems = 2
INVARIANTS
  TypeOK
  PointerLive
  EmptyHoldsNothing
  ReadsBack
