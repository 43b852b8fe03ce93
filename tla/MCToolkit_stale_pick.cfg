CONSTANTS
    MaxWidgets <- MCMaxWidgets
    MaxBindNodes <- MCMaxBindNodes
    ClientCalls <- MCCallsDestroy
    Buttons = {"left"}
    UserCallbacks = {"UserTrue"}
    NIL = NIL
SPECIFICATION Spec
PROPERTY UpEndsDrag
