\* Closing the buffers right after a background merge was posted.
CONSTANTS
    FifoDepth = 4
    Rects <- TwoRects
    Playing = FALSE
    MaxCommands = 4
SPECIFICATION Spec
INVARIANT AbortStops
CHECK_DEADLOCK FALSE
