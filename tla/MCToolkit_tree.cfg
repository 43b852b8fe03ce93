CONSTANTS
    MaxWidgets <- MCMaxWidgets
    MaxBindNodes <- MCMaxBindNodes
    ClientCalls <- MCCallsTree
    Buttons = {"left"}
    UserCallbacks = {"UserTrue"}
    NIL = NIL
SPECIFICATION Spec
INVARIANTS TypeOK TreeSound ResizeHandleLast
CHECK_DEADLOCK FALSE
