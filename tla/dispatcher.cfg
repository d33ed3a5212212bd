SPECIFICATION FairSpec
CONSTANTS
  Text <- Strings
  Registrars = {r1, r2, r3}
  Workers = {w1}
  Templates <- MixedTemplates
  ValidTemplates <- MixedValid
  Requests <- MixedRequests
  ParamTexts <- Texts
  Handlers = {h1, null}
  NullHandler = null
  HashOf <- MixedHash
  Discipline = "in_handler"
  MaxRegistrations = 1
  Free = free
INVARIANTS
  TypeOK
  TreeWellFormed
  TreeAndRoutesAgree
  DispatchSound
  NoDataRace
PROPERTIES
  RegisteredNeverThrows
  ExactPathWins
  ImplementsRouteTable
  RegistrationEnds
  CallbackEnds
