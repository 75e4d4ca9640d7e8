SPECIFICATION FairSpec
CONSTANTS
    r1 = r1
    r2 = r2
    Requests = {r1, r2}
    Projects = {1}
    Scenes <- AllScenes
    MaxInputs = 3
    FrameMin = 1
    FrameMax = 2
    RefMax = 2
    Retries = 3
    Sends = 2
    Uploads = 5
    ShortUploads = 2
    UpTries = 3
    Polls = 3
    UpFactor = 3
    PollErrors = 3
    UpPolls = 6
    UpErrors = 5
INVARIANTS TypeOK AnsweredOnce TaskTellsAnswer ProductDelivered JobsOrderedOnce SessionsFinished
PROPERTIES CooldownHeeded RequestsEnd
CHECK_DEADLOCK FALSE
