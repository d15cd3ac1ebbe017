\* With and without tools; a response of up to four frames.  The end of the body
\* is the end of the behaviour.
SPECIFICATION ChatSpec
CONSTANTS
    Declared = {TRUE, FALSE}
    ThinkingTexts <- Reasoning_
    EditThinking <- Retold
    AnswerTexts <- Answers
    MaxFrames <- Frames
    MaxCalls = 2
INVARIANTS
    ModesAgree
    ReasoningAgrees
    FinishTruthful
CHECK_DEADLOCK FALSE
