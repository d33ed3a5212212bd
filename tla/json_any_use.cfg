SPECIFICATION Spec
CONSTANTS
  Keys = {"a", "b"}
  Contents = {"x"}
  Nothing = "nothing"
  Others <- OtherDocuments
  Uses = {"reference", "unfinished", "copy"}
  MaxDepth = 2
INVARIANTS
  PointersLive
  CachedTypeTrue
