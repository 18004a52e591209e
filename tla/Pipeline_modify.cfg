SPECIFICATION Spec
CONSTANTS
  c1 = c1
  Commands = {c1}
  op1 = op1
  Operators = {op1}
  Cycle = cycle
  NoCommand = nocommand
  Intents <- CleanIntents
  MaxRetries = 0
  AuditMayFail = FALSE
  StoreMayFail = FALSE
INVARIANTS OverLimitsNeverSent
