\* Two answers that each bring a whole call in the text.
SPECIFICATION ChatSpec
CONSTANTS
    Declared = {TRUE}
    ThinkingTexts <- Reasoning_
    EditThinking <- Retold
    AnswerTexts <- Answers
    MaxFrames <- Frames
    MaxCalls = 1
INVARIANT CallsSequential
CHECK_DEADLOCK FALSE
