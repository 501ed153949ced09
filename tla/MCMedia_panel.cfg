CONSTANTS
    Order <- MCOrder
    Priority = {"firefox", "mpv"}
    Volumed = {"mpv"}
    LastTrack = 2
    MaxVolume = 1
    MaxChanges = 1
    MaxInputs = 2
SPECIFICATION FairSpec
INVARIANTS
    TypeOK
    RefreshAccurate
PROPERTY PanelCatchesUp
