SPECIFICATION Spec
CONSTANTS
  c1 = c1
  Commands = {c1}
  op1 = op1
  op2 = op2
  Operators = {op1, op2}
  Cycle = cycle
  NoCommand = nocommand
  Intents <- MixedIntents
  MaxRetries = 1
  AuditMayFail = TRUE
  StoreMayFail = TRUE
INVARIANTS
  TypeOK SendAuthorised DecisionAgreement SentIsAudited AuditTellsTheTruth
PROPERTIES ImplementsContract
SYMMETRY OperatorSymmetry
