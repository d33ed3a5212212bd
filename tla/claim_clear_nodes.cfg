SPECIFICATION Spec
CONSTANTS
  Keys = {"a", "b"}
  Contents = {"x"}
  Nothing = "nothing"
  Others <- OtherDocuments
  Uses = {"copy"}
  MaxDepth = 2
INVARIANT AssignmentClearsNodes
