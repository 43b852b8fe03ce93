CONSTANTS
    Nodes = {n1, n2, n3}
    Events = {evDown, evUp}
    Widgets = {w1, w2}
    Tags = {tagAll}
    Callbacks = {cb1}
    NIL = NIL
SPECIFICATION BSpec
INVARIANT BindListSound
