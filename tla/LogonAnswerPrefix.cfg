CONSTANTS
    Block = 3
    Received = {"client logon", "client other"}
    MaxGarbage = 2
SPECIFICATION Spec
CHECK_DEADLOCK FALSE
INVARIANTS AnswerIsTestMessage
