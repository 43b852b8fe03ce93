CONSTANTS
    MaxWidgets <- MCMaxWidgets
    MaxBindNodes <- MCMaxBindNodes
    ClientCalls <- MCCallsBind
    Buttons = {"left", "right"}
    UserCallbacks = {"UserTrue"}
    NIL = NIL
SPECIFICATION Spec
INVARIANTS PressedLooksPressed
PROPERTIES UpEndsDrag
