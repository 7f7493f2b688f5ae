\* Two workers, a message with two attempts; without symmetry for the liveness property.
CONSTANTS
  w1 = w1
  w2 = w2
  m1 = m1
  m2 = m2
  owner = owner
  Workers = {w1, w2}
  Messages = {m1}
  Recipients = {owner}
  RecipientOf <- OneRecipient
  EventTypes = {"delivered", "soft_bounce", "complaint"}
  MaxAttempts = 2
  CrashBound = 1
SPECIFICATION FairSpec
INVARIANTS
  OneSender
  AttemptsWithBody
  EvidenceForStatus
PROPERTIES
  DecisionsHold
  EveryMessageSettles
