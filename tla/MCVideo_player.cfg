\* Two videos of different shape, two events waiting, and two results on the same queue.
SPECIFICATION FairSpec
CONSTANTS
    Threads = {"mpv", "pam"}
    Closures = {"processEvents", "result"}
    Widths = {1, 2}
    Heights = {1, 2}
    MaxEvents = 2
    MaxResults = 2
INVARIANTS
    TypeOK
    WakeupOwed
    EventsOwed
    FrameFits
PROPERTY EventsGetRead
