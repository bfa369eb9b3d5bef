\* Sessions of both kinds of store, with a worker at hand or behind HTTP.
CONSTANTS
    gate = "gate"
    hall = "hall"
    tower = "tower"
    calm = "calm"
    grim = "grim"
    smiling = "smiling"
    frowning = "frowning"
    map = "map"
    portrait = "portrait"
    plan = "plan"
    Start = "gate"
    Exits <- StoryExits
    Media <- StoryMedia
    Adapted <- StoryAdapted
    Mood = "calm"
    Effect <- StoryEffect
    Basename <- Labels
    Sync = {"map"}
    Fallback = {"smiling"}
    Keeps = {TRUE, FALSE}
    MaxSteps = 3
    MaxJobs = 3
CHECK_DEADLOCK FALSE
SPECIFICATION Spec
INVARIANTS
    TypeOK
    OneJob
    ClaimedForGood
    PictureFits
PROPERTIES
    ResultsCollected
