SPECIFICATION FairSpec
CONSTANTS
  Reqs = {r1, r2, r3}
  Emails = {a, b}
  NoOne = NoOne
INVARIANTS
  TypeOK
  AnswersAreTrue
  AuditIsTrue
  OutcomeIsAudited
PROPERTY
  EveryRegistrationEnds
CHECK_DEADLOCK FALSE
