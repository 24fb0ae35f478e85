\* Both engines, every order of display commands.
CONSTANTS
    FifoDepth = 4
    Rects <- TwoRects
    Playing = FALSE
    MaxCommands = 5
SPECIFICATION FairSpec
INVARIANTS TypeOK LiveBuffers Framed OneDrawer 
PROPERTY CommandsReturn
CHECK_DEADLOCK FALSE
