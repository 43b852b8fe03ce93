SPECIFICATION Spec
CONSTANTS
    n1 = n1
    n2 = n2
    n3 = n3
    n4 = n4
    n5 = n5
    frame = frame
    button = button
    toplevel = toplevel
    placer = placer
    NIL = NIL
    Nodes <- MCNodes
    ClassNames <- MCClassNames
    ManagerNames <- MCManagerNames
INVARIANTS RegistriesSound
PROPERTIES RegistriesRefineAbstract
