SPECIFICATION FleetSpec
CONSTANTS
    Casts <- MCCasts
    Mine = c1
    Theirs = c2
    Typed <- MCTyped
    MaxOthers = 2
    None = None
    Text = Text
INVARIANT FleetIsRight
PROPERTIES StepsAreRight SavingEnds
CHECK_DEADLOCK FALSE
