\* The documented meaning of Invalid.
SPECIFICATION RpkiSpec
CONSTANTS
    Width = 2
    Mode = "Strict"
    ASes = {1, 2}
    MaxRoas = 2
INVARIANTS
    InvalidAsDocumented
