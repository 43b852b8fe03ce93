SPECIFICATION Spec
CONSTANTS
    Den = 4
    NULL = NULL
    NoArg <- NULL
    Root = Root
    F = F
    C = C
    MCBorderArgs = {NULL}
    MCFArgs <- MCFArgsTrail
    W <- MCW
    Kids <- MCKids
    WinSize <- MCWinSize
    TextSize <- MCTextSize
    Border0 <- MCBorder0
    Req0 <- MCReq0
    Args <- MCArgs
    ConfArgs <- MCConfArgs
    FCls = "toplevel"
    CCls = "frame"
    Cls <- MCCls
    TopReq <- MCTopReq
    TitleH <- MCTitleH
PROPERTY MoveInvalidated
