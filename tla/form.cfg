CONSTANT MaxEdits = 1
SPECIFICATION InboundSpec
INVARIANTS DialogTypeOK KeptSettings FlowCarried SecurityFits RealityKeyed LinkCarries OutboundKept
CHECK_DEADLOCK FALSE
