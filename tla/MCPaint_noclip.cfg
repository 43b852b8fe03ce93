SPECIFICATION Spec
CONSTANTS
    Win <- MCWin
    Root = 0
    Kids <- MCKids
    Cls <- MCCls
    Screen <- MCScreen
    Content <- MCContent
    DrawRect <- MCDrawRect
    Border <- MCBorder
    NoClip <- MCNoClip
    Text <- MCText
    TextAnchor <- MCTextAnchor
    TitleSize <- MCTitleSize
    TitleX = 1
    Pressable = {3, 6, 7, 8, 9}
    Relief0 <- MCRelief0
    NoText = NoText
    NIL = NIL
INVARIANT DrawnAsFullRedraw
