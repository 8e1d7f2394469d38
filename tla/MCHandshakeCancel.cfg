SPECIFICATION Spec
CONSTANTS
    Menu <- TlsMenu
    MaxUnits = 4
INVARIANT CancelNeverRefused
