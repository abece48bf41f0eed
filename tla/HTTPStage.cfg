\* Two origins, one redirect, a deadline that may hit twice.
SPECIFICATION FairSpec
CONSTANTS
  example = example  EXAMPLE = EXAMPLE  com = com  app = app  old = old
  internal = internal  star = star  empty = empty  a1 = a1  a2 = a2  lo = lo
  Labels <- MCLabels
  Fold <- MCFold
  Empty = empty
  Forbidden = {star}
  Addresses = {a1, a2, lo}
  Unsafe = {lo}
  Getters <- MCGetters
  Scopes <- MCScopes
  Locations <- MCLocations
  Answers <- MCAnswers
  Follows <- MCGetters
  ForeignErrors = TRUE
  MaxRedirects = 1
  MaxConcurrent = 1
  Budget = 3
  Target <- MCTarget
  Enforced = TRUE
  MaxCancels = 2
INVARIANTS
  OnlyAuthorizedContacts IdentityKept AnswersKept
PROPERTIES
  RequestsEnd
CHECK_DEADLOCK FALSE
