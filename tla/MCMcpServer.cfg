SPECIFICATION McpSpec
CONSTANTS
    Messages <- MCMessages
    MAX_FRAME = 2
    MaxMessages = 3
INVARIANT OneAnswerEach
PROPERTIES EveryFrameHandled
CHECK_DEADLOCK FALSE
