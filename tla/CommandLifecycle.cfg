SPECIFICATION Spec
INVARIANTS TypeOK NoGateSkipped
PROPERTIES TerminalIsFinal ForwardOnly
