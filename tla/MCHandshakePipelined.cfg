SPECIFICATION Spec
CONSTANTS
    Menu <- SafetyMenu
    MaxUnits = 3
INVARIANT NothingLost
