SPECIFICATION Spec
CONSTANTS
  Tokens = {t1, t2, t3}
  Statuses = {200, 404}
  NoToken = none
  User = user
  MaxMiddlewares = 3
  MaxHeaders = 1
INVARIANTS
  TypeOK
  AnsweredOnce
  PostStopsAtCsrf
  TokenOnAnswers
