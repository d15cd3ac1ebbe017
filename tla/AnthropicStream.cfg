\* Every order of the frames of a response, with and without tools declared.
CONSTANTS
    Declared = {TRUE, FALSE}
    ThinkingTexts <- Reasoning
    AnswerTexts <- Answers
    MaxFrames <- Frames
    MaxCalls = 2
SPECIFICATION Spec
INVARIANTS BlockProtocol StopReasonTruthful  OnlyCitationsCross
PROPERTIES HandlerReturns
\* The handler returns when the response ends.
CHECK_DEADLOCK FALSE
