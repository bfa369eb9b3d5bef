\* Sessions that are loaded anew for every request.
CONSTANTS
    gate = "gate"
    hall = "hall"
    tower = "tower"
    calm = "calm"
    grim = "grim"
    smiling = "smiling"
    frowning = "frowning"
    map = "map"
    portrait = "portrait"
    plan = "plan"
    Start = "gate"
    Exits <- StoryExits
    Media <- StoryMedia
    Adapted <- StoryAdapted
    Mood = "calm"
    Effect <- StoryEffect
    Basename <- Labels
    Sync = {"map"}
    Fallback = {"smiling"}
    Keeps = {FALSE}
    MaxSteps = 3
    MaxJobs = 3
CHECK_DEADLOCK FALSE
SPECIFICATION Spec
PROPERTIES
    EveryPassPolls
