CONSTANTS
    MaxWidgets <- MCMaxWidgets
    MaxBindNodes <- MCMaxBindNodes
    ClientCalls <- MCCallsToplevel
    Buttons = {"left"}
    UserCallbacks = {"UserTrue"}
    NIL = NIL
SPECIFICATION Spec
INVARIANT BindingsTargetLive
