CONSTANTS
    a = a
    b = b
    c = c
    start = start
    hall = hall
    yard = yard
    menu = menu
    stall = stall
    tent = tent
    deep = deep
    guard = guard
    keep = keep
    tag = tag
    Templates <- World
    StartsAt = 2
    KeepsFailed = FALSE
SPECIFICATION Spec
INVARIANTS TypeOK EpisodesInPlace WiredWhole ShownIsTaken Settled
CHECK_DEADLOCK FALSE
