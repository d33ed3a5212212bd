SPECIFICATION Spec
CONSTANTS
  Text <- Strings
  Registrars = {r1}
  Workers = {w1}
  Templates <- FewValid
  ValidTemplates <- FewValid
  Requests <- ExactRequests
  ParamTexts <- Texts
  Handlers = {h1, null}
  NullHandler = null
  HashOf <- FewHash
  Discipline = "anytime"
  MaxRegistrations = 1
  Free = free
INVARIANT NoDataRace
