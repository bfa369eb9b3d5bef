CONSTANTS
    road = road
    cave = cave
    hall = hall
    lamp = lamp
    keys = keys
    pouch = pouch
    sack = sack
    grate = grate
    chest = chest
    gnome = gnome
    ambush = ambush
    chat = chat
    pit = pit
    Worlds <- Sandboxes
SPECIFICATION Spec
INVARIANTS TypeOK OffersSound
PROPERTIES ThingsKept OnceOnly
