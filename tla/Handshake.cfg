CONSTANT MaxMsgs = 3
SPECIFICATION HandshakeSpec
INVARIANTS FramingKept CleanEndIsComplete
CHECK_DEADLOCK FALSE
