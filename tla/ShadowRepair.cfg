SPECIFICATION RepairSpec
CONSTANTS
  Requests = {r1, r2}
  Actors = {a1, a2}
  Nobody = Nobody
  Attempts = {x1, x2}
  NoAttempt = NoAttempt
  NoRequest = NoRequest
  Cooldown = 1
  Sla = 1
  LastTick = 2
  RejectBound = 1
SYMMETRY Symmetry
INVARIANTS
  ApprovalsAreCool
  EscalationsAreDue
  TrailAccountsForAll
  RequestsAreEarned
  OutcomesAreKnown
PROPERTIES
  DecisionsStand
