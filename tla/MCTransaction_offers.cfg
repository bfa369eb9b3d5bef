CONSTANTS
  Purses = {"customer", "shop"}
  Pools = {"stock", "health", "mood"}
  Lists = {"chest", "worn"}
  Dicts = {"pack", "shop"}
  Slots = {"rack", "body", "over"}
  Offers = {"twice", "buy", "repair", "stow", "fetch", "return", "dress", "layer", "change", "hang"}
  Tokens <- SomeTokens
  KeyOf <- SomeKeys
  NoToken = NoToken
  Absent = Absent
  Capacity <- SomeCapacity
  Selects <- SomeSelects
  Prerequisites <- SomePrerequisites
  Affordable <- SomeAffordable
  GroupMax = 2
  Legs <- SomeLegs
  Opening <- SomeOpening
  Reuse = FALSE
SPECIFICATION Spec
INVARIANTS
  TypeOK
  NothingSurvives
  NothingLost
  SlotsFit
  PlanIsEnough
CHECK_DEADLOCK FALSE
