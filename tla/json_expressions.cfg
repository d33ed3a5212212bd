SPECIFICATION Spec
CONSTANTS
  Keys = {"a", "b"}
  Contents = {"x", "y"}
  Nothing = "nothing"
  Others <- OtherDocuments
  Uses = {}
  MaxDepth = 2
INVARIANTS
  TypeOK
  CursorAtExpression
  NullOnlyAtCursor
PROPERTIES
  TypesStay
  ImplementsJsonDocument
