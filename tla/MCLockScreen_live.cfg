CONSTANTS
    Fds = {2, 3, 4, 5, 6, 7}
    MaxBatch = 2
    Actions = {"suspend"}
    Keys = {"text", "enter"}
    Repeating = {"text"}
    MaxInputs = 3
SPECIFICATION FairSpec
PROPERTIES
    GoesIdle
    QuestionEnds
