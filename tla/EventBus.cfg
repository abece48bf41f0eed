\* Three events over any number of runs under two scopes, with the event loop's
\* fairness.
SPECIFICATION FairSpec
CONSTANTS
  Events = {1, 2, 3}
  MaxAttempts = 2
  root = root  leaf = leaf  url = url  tech = tech
  wide = wide  narrow = narrow
  Assets <- MCAssets
  Technologies <- MCTechnologies
  Scopes <- MCScopes
  Allows <- MCAllows
  Shape <- MCShape
  Origin <- MCOrigin
  Claims <- MCClaims
INVARIANTS
  TypeOK Accounted NothingForgotten RetriesBounded EvidenceFirst GraphClosed StageBarrier
PROPERTIES
  ScopeGate CompletedIsEarned SettledStays DeliversDurably SeenByTheRun DrainEnds
