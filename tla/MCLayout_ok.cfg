SPECIFICATION Spec
CONSTANTS
    Den = 4
    NULL = NULL
    NoArg <- NULL
    Root = Root
    F = F
    C = C
    MCBorderArgs = {NULL}
    MCFArgs <- MCFArgsInWindow
    W <- MCW
    Kids <- MCKids
    WinSize <- MCWinSize
    TextSize <- MCTextSize
    Border0 <- MCBorder0
    Req0 <- MCReq0
    Args <- MCArgs
    ConfArgs <- MCConfArgs
    FCls = "frame"
    CCls = "button"
    Cls <- MCCls
    TopReq <- MCTopReq
    TitleH <- MCTitleH
INVARIANTS PlacedAsClippedReference ContentInset
PROPERTIES MoveInvalidated PlaceIdempotent
