------------------------------ MODULE Toolkit ------------------------------
(***************************************************************************)
(* The runtime core of the widget library as one single-threaded program: *)
(* the widget tree of src/src/ei_widget.c at the level of its pointers     *)
(* (parent, children_head, children_tail, next_sibling), the binding list  *)
(* of src/src/ei_event.c (module Bindings), the dispatch loop of           *)
(* ei_app_run, the built-in handlers of the button press animation         *)
(* (ei_buttonclass.c) and of toplevel move, resize and close               *)
(* (ei_toplevelclass.c), and the calls an application makes between two   *)
(* events: create a toplevel or a button, destroy a widget, reconfigure a  *)
(* toplevel's close and resize handles, bind a callback.                   *)
(*                                                                         *)
(* Geometry is abstracted to whether the layout changed (moved).  The pick *)
(* surface is abstracted to the widget whose colour lies under the         *)
(* pointer (pixel): a pointer move may bring any drawn widget under it,    *)
(* and after a redraw that follows a layout change any drawn widget may be *)
(* under the unmoved pointer.  Freed memory keeps its last contents: a     *)
(* widget or binding node leaves live or alloc but its fields stay.        *)
(***************************************************************************)
EXTENDS Naturals, Sequences, FiniteSets, Functions

CONSTANTS
    MaxWidgets,    \* widget ids (pick ids) are 0 .. MaxWidgets - 1
    MaxBindNodes,  \* binding nodes malloc can hand out
    ClientCalls,   \* the library calls the application makes between events
    Buttons,       \* the mouse buttons the user presses
    UserCallbacks, \* application callbacks: "UserTrue" and/or "UserFalse"
    NIL            \* the NULL pointer

ASSUME MaxWidgets \in Nat \ {0} /\ MaxBindNodes \in Nat \ {0}

Ids == 0 .. MaxWidgets - 1
Root == 0
BindNodes == 1 .. MaxBindNodes

ASSUME NIL \notin Ids /\ Buttons \subseteq {"left", "right"}
ASSUME UserCallbacks \subseteq {"UserFalse", "UserTrue"}

Classes == {"frame", "button", "toplevel"}
Roles == {"plain", "quit", "resize"}    \* is_quit_button, is_resize_button
Reliefs == {"none", "raised", "sunken"}
Axes == {"none", "both"}               \* ei_axis_none, ei_axis_both

EventTypes == {"down", "up", "move"}   \* ei_ev_mouse_buttondown/up/move
TagNames == {"all", "button"}
CallbackNames ==
    {"ButtonDown", "ButtonUp", "ButtonMove", "EndResize", "Resize",
     "EndMove", "Move", "BegResize", "BegMove", "Quit", "UserFalse", "UserTrue"}

MouseEvents ==
    [type : {"down", "up"}, button : Buttons]
        \cup {[type |-> "move", button |-> "none"]}

(* The event record before the first event and between two events. *)
NoEvent == [type |-> "move", button |-> "none"]

VARIABLES
    nextId,     \* wid_id
    live,       \* widgets allocated and not yet freed
    cls,        \* wclass
    parent, head, tail, sib,   \* parent, children_head, children_tail, next_sibling
    mapped,     \* widgets whose geom_params is not NULL
    role,       \* button flags is_quit_button / is_resize_button
    relief,     \* *relief of a button
    closable, resizable,       \* *closable, *resizable of a toplevel
    btop, bnext, bnode, balloc,   \* the binding list (module Bindings)
    pressed, pressingOver,     \* button_pressed, pressing_over
    moving, resizing,          \* moving_toplevel, resizing_toplevel
    pc,         \* "wait": in hw_event_wait_next; "dispatch": scanning bindings
    ev,         \* the event being dispatched
    cursor,     \* current_bind
    processed,  \* processed
    pixel,      \* the pick colour under the pointer, as a widget id
    moved,      \* the layout changed during this iteration
    crashed,    \* the process dereferenced NULL
    held        \* the mouse buttons down, as the hardware reports them

treeVars == <<nextId, live, cls, parent, head, tail, sib, mapped, role,
              relief, closable, resizable>>
bindVars == <<btop, bnext, bnode, balloc>>
animVars == <<pressed, pressingOver>>
dragVars == <<moving, resizing>>
loopVars == <<pc, ev, cursor, processed, pixel, moved>>
vars == <<treeVars, bindVars, animVars, dragVars, loopVars, crashed, held>>

B == INSTANCE Bindings WITH Nodes <- BindNodes, Events <- EventTypes,
        Widgets <- Ids, Tags <- TagNames, Callbacks <- CallbackNames,
        top <- btop, next <- bnext, bnode <- bnode, alloc <- balloc

-----------------------------------------------------------------------------
(* The tree as the pointers give it. *)

Fuel == MaxWidgets + 1

RECURSIVE SibChain(_, _, _)
SibChain(n, sb, fuel) ==
    IF n = NIL \/ fuel = 0 THEN <<>> ELSE <<n>> \o SibChain(sb[n], sb, fuel - 1)

Children(p, hd, sb) == SibChain(hd[p], sb, Fuel)

(* Every node ei_widget_destroy_recurs frees below n. *)
RECURSIVE Below(_, _, _, _)
Below(n, hd, sb, fuel) ==
    IF fuel = 0 THEN {}
    ELSE LET kids == Range(Children(n, hd, sb))
         IN kids \cup UNION {Below(k, hd, sb, fuel - 1) : k \in kids}

(* The nodes the depth-first searches from the root can reach. *)
InTree == {Root} \cup Below(Root, head, sib, Fuel)

(* Drawn by ei_draw_widget_children: the root, and every child with        *)
(* geometry parameters whose parent is drawn.                              *)
RECURSIVE DrawnBelow(_, _, _, _, _)
DrawnBelow(n, hd, sb, mp, fuel) ==
    IF fuel = 0 THEN {}
    ELSE LET kids == {k \in Range(Children(n, hd, sb)) : k \in mp}
         IN kids \cup UNION {DrawnBelow(k, hd, sb, mp, fuel - 1) : k \in kids}

DrawnIn(hd, sb, mp) == {Root} \cup DrawnBelow(Root, hd, sb, mp, Fuel)

Drawn == DrawnIn(head, sib, mapped)

(* ei_widget_pick: the widget of the tree whose colour is under the pointer. *)
Pick == IF pixel \in InTree THEN pixel ELSE NIL

IsResizeButton(w) == cls[w] = "button" /\ role[w] = "resize"

LowestFree(al) == CHOOSE n \in BindNodes \ al : \A m \in BindNodes \ al : n <= m

MkBinding(e, w, t, c) == [ev |-> e, widget |-> w, tag |-> t, cb |-> c]

-----------------------------------------------------------------------------
(* The insertion without the resize-button rule: always after the tail. *)
InsertAtTail(p, wid, t) ==
    [t EXCEPT !.sib = IF t.tail[p] # NIL
                      THEN [@ EXCEPT ![t.tail[p]] = wid, ![wid] = NIL]
                      ELSE [@ EXCEPT ![wid] = NIL],
              !.tail = [@ EXCEPT ![p] = wid],
              !.head = [@ EXCEPT ![p] = IF @ = NIL THEN wid ELSE @]]

(* ei_widget_create, linking wid into p's children: a child of a resizable *)
(* toplevel goes before the resize button, which must stay last; when the  *)
(* toplevel has one child it goes in front of it.  The search for the      *)
(* resize button dereferences NULL when there is none.                     *)
Insert(p, wid, t) ==
    LET s == Children(p, t.head, t.sib)
        tl == t.tail[p]
        atTail == [t EXCEPT
                     !.sib = IF tl # NIL THEN [@ EXCEPT ![tl] = wid, ![wid] = NIL]
                                         ELSE [@ EXCEPT ![wid] = NIL],
                     !.tail = [@ EXCEPT ![p] = wid],
                     !.head = [@ EXCEPT ![p] = IF @ = NIL THEN wid ELSE @]]
    IN IF t.cls[p] = "toplevel" /\ t.resizable[p] # "none" /\ t.head[p] # NIL
       THEN IF Len(s) = 1
            THEN [t EXCEPT !.head = [@ EXCEPT ![p] = wid],
                           !.sib = [@ EXCEPT ![wid] = s[1]]]
            ELSE LET hits == {i \in 2 .. Len(s) : t.cls[s[i]] = "button"
                                                  /\ t.role[s[i]] = "resize"}
                 IN IF hits = {} THEN [t EXCEPT !.crash = TRUE]
                    ELSE LET i == CHOOSE j \in hits : \A k \in hits : j <= k
                         IN IF i = Len(s) /\ tl = s[i]
                            THEN [t EXCEPT !.sib = [@ EXCEPT ![s[i - 1]] = wid,
                                                             ![wid] = tl]]
                            ELSE atTail
       ELSE atTail

(* The tree variables as a record, so that one call can chain steps. *)
TState == [nextId |-> nextId, live |-> live, cls |-> cls, parent |-> parent,
           head |-> head, tail |-> tail, sib |-> sib, mapped |-> mapped,
           role |-> role, relief |-> relief, closable |-> closable,
           resizable |-> resizable, crash |-> FALSE]

(* Commit the tree record t and the binding record st.  A call that      *)
(* dereferences NULL stops the process: what it wrote before is moot.    *)
Commit(t, st) ==
    IF t.crash
    THEN /\ crashed' = TRUE
         /\ UNCHANGED <<treeVars, bindVars>>
    ELSE /\ nextId' = t.nextId
         /\ live' = t.live
         /\ cls' = t.cls
         /\ parent' = t.parent
         /\ head' = t.head
         /\ tail' = t.tail
         /\ sib' = t.sib
         /\ mapped' = t.mapped
         /\ role' = t.role
         /\ relief' = t.relief
         /\ closable' = t.closable
         /\ resizable' = t.resizable
         /\ B!SetBState(st)
         /\ UNCHANGED crashed

(* The creation with pick_id = ++wid_id instead of wid_id++. *)
CreatePreIncrement(c, p, rl, t) ==
    LET wid == t.nextId + 1
        t1 == [t EXCEPT !.nextId = @ + 1, !.live = @ \cup {wid},
                        !.cls = [@ EXCEPT ![wid] = c],
                        !.parent = [@ EXCEPT ![wid] = p],
                        !.head = [@ EXCEPT ![wid] = NIL],
                        !.tail = [@ EXCEPT ![wid] = NIL],
                        !.role = [@ EXCEPT ![wid] = rl],
                        !.relief = [@ EXCEPT ![wid] = "raised"]]
    IN Insert(p, wid, t1)

(* ei_widget_create(c, p) with the class's setdefaultsfunc, for a frame or *)
(* button: allocate, take the next pick id, link, set defaults.            *)
Create(c, p, rl, t) ==
    LET wid == t.nextId
        t1 == [t EXCEPT !.nextId = @ + 1, !.live = @ \cup {wid},
                        !.cls = [@ EXCEPT ![wid] = c],
                        !.parent = [@ EXCEPT ![wid] = p],
                        !.head = [@ EXCEPT ![wid] = NIL],
                        !.tail = [@ EXCEPT ![wid] = NIL],
                        !.role = [@ EXCEPT ![wid] = rl],
                        !.relief = [@ EXCEPT ![wid] = "raised"]]
    IN Insert(p, wid, t1)

(* The destruction whose unlink of the last child clears last_child->next *)
(* but leaves children_tail on the freed widget.                          *)
DestroyTreeNoTail(w, t) ==
    LET p == t.parent[w]
        dead == {w} \cup Below(w, t.head, t.sib, Fuel)
        s == Children(p, t.head, t.sib)
        pos == IF \E i \in 1 .. Len(s) : s[i] = w
               THEN CHOOSE i \in 1 .. Len(s) : s[i] = w ELSE 0
        curr == IF pos = 0 THEN NIL ELSE w
        last == CASE pos > 1 -> s[pos - 1]
                  [] pos = 0 /\ s # <<>> -> s[Len(s)]
                  [] OTHER -> NIL
        t1 == [t EXCEPT !.live = @ \ dead, !.mapped = @ \ dead]
    IN IF p = NIL THEN t1
       ELSE CASE last = NIL /\ t.tail[p] = curr ->
                   [t1 EXCEPT !.head = [@ EXCEPT ![p] = NIL],
                              !.tail = [@ EXCEPT ![p] = NIL]]
              [] last = NIL ->
                   [t1 EXCEPT !.head = [@ EXCEPT ![p] = t.sib[w]]]
              [] curr = t.tail[p] ->
                   [t1 EXCEPT !.sib = [@ EXCEPT ![last] = NIL]]
              [] curr = NIL -> [t1 EXCEPT !.crash = TRUE]
              [] OTHER ->
                   [t1 EXCEPT !.sib = [@ EXCEPT ![last] = t.sib[curr]]]

(* ei_widget_destroy(w) on the tree: free w and every node below it, then  *)
(* search w in its parent's list and unlink it by the four cases of the    *)
(* code; the last case dereferences NULL when w was not found.             *)
DestroyTree(w, t) ==
    LET p == t.parent[w]
        dead == {w} \cup Below(w, t.head, t.sib, Fuel)
        s == Children(p, t.head, t.sib)
        pos == IF \E i \in 1 .. Len(s) : s[i] = w
               THEN CHOOSE i \in 1 .. Len(s) : s[i] = w ELSE 0
        curr == IF pos = 0 THEN NIL ELSE w
        last == CASE pos > 1 -> s[pos - 1]
                  [] pos = 0 /\ s # <<>> -> s[Len(s)]
                  [] OTHER -> NIL
        t1 == [t EXCEPT !.live = @ \ dead, !.mapped = @ \ dead]
    IN IF p = NIL THEN t1
       ELSE CASE last = NIL /\ t.tail[p] = curr ->
                   [t1 EXCEPT !.head = [@ EXCEPT ![p] = NIL],
                              !.tail = [@ EXCEPT ![p] = NIL]]
              [] last = NIL ->
                   [t1 EXCEPT !.head = [@ EXCEPT ![p] = t.sib[w]]]
              [] curr = t.tail[p] ->
                   [t1 EXCEPT !.sib = [@ EXCEPT ![last] = NIL],
                              !.tail = [@ EXCEPT ![p] = last]]
              [] curr = NIL -> [t1 EXCEPT !.crash = TRUE]
              [] OTHER ->
                   [t1 EXCEPT !.sib = [@ EXCEPT ![last] = t.sib[curr]]]
(* ei_widget_destroy(w): the tree part, then destroy_event_binded_to_widget *)
(* for w alone; the bindings of the nodes freed below w stay in the list.  *)
DestroyWidget(w, t) ==
    Commit(DestroyTree(w, t), B!DestroyBindingsIn(w, B!BState))

(* setdefaultstoplevel and the application's ei_place of the new toplevel: *)
(* the resize button (placed, bound to beg_resize), beg_move bound to the  *)
(* toplevel, the close button (placed, bound to quit_toplevel_event).      *)
CreateToplevel ==
    LET tl == nextId
        rb == nextId + 1
        qb == nextId + 2
        t1 == Create("toplevel", Root, "plain", TState)
        t2 == [t1 EXCEPT !.resizable = [@ EXCEPT ![tl] = "both"],
                         !.closable = [@ EXCEPT ![tl] = TRUE]]
        t3 == Create("button", tl, "resize", t2)
        t4 == Create("button", tl, "quit",
                     [t3 EXCEPT !.relief = [@ EXCEPT ![rb] = "none"],
                                !.mapped = @ \cup {rb}])
        t5 == [t4 EXCEPT !.mapped = @ \cup {qb, tl}]
        n1 == LowestFree(balloc)
        s1 == B!BindInto(MkBinding("down", rb, NIL, "BegResize"), n1, B!BState)
        n2 == LowestFree(s1.alloc)
        s2 == B!BindInto(MkBinding("down", tl, NIL, "BegMove"), n2, s1)
        n3 == LowestFree(s2.alloc)
        s3 == B!BindInto(MkBinding("down", qb, NIL, "Quit"), n3, s2)
    IN /\ nextId + 3 <= MaxWidgets
       /\ Cardinality(BindNodes \ balloc) >= 3
       /\ Commit(t5, s3)

(* ei_widget_create("button", p) followed by ei_place of the button. *)
CreateButton(p) ==
    LET t1 == Create("button", p, "plain", TState)
    IN /\ nextId < MaxWidgets
       /\ Commit([t1 EXCEPT !.mapped = @ \cup {nextId}], B!BState)

(* ei_toplevel_configure(t, ..., &closable = FALSE, ...): find the close   *)
(* button, unlink it from t's children by hand, then ei_widget_destroy it, *)
(* which searches it in the list once more.                                *)
(* ei_toplevel_configure(t, ..., &resizable = ei_axis_none, ...) does the  *)
(* same for the resize button.  Both dereference the head of the list      *)
(* without checking it.                                                    *)
RemoveHandle(t, rl, t0) ==
    LET s == Children(t, t0.head, t0.sib)
        isH(w) == t0.cls[w] = "button" /\ t0.role[w] = rl
        hits == {i \in 2 .. Len(s) : isH(s[i])}
    IN IF s = <<>> THEN [t0 EXCEPT !.crash = TRUE]
       ELSE IF isH(s[1])
       THEN DestroyTree(s[1],
              [t0 EXCEPT !.head = [@ EXCEPT ![t] = t0.sib[s[1]]],
                         !.tail = [@ EXCEPT ![t] = IF @ = s[1] THEN NIL ELSE @]])
       ELSE IF hits = {} THEN t0
       ELSE LET i == CHOOSE j \in hits : \A k \in hits : j <= k
                h == s[i]
            IN DestroyTree(h,
                 IF t0.sib[h] # NIL
                 THEN [t0 EXCEPT !.sib = [@ EXCEPT ![s[i - 1]] = t0.sib[h]]]
                 ELSE [t0 EXCEPT !.tail = [@ EXCEPT ![t] = s[i - 1]]])

(* The handle RemoveHandle destroys, if any: its bindings go too. *)
HandleOf(t, rl) ==
    LET s == Children(t, head, sib)
        hs == {i \in 1 .. Len(s) : cls[s[i]] = "button" /\ role[s[i]] = rl}
    IN IF s = <<>> \/ hs = {} THEN NIL
       ELSE s[CHOOSE j \in hs : \A k \in hs : j <= k]

SetUnclosable(t) ==
    LET h == HandleOf(t, "quit")
    IN Commit(RemoveHandle(t, "quit",
                 [TState EXCEPT !.closable = [@ EXCEPT ![t] = FALSE]]),
              IF h = NIL THEN B!BState ELSE B!DestroyBindingsIn(h, B!BState))

SetUnresizable(t) ==
    LET h == HandleOf(t, "resize")
    IN Commit(RemoveHandle(t, "resize",
                 [TState EXCEPT !.resizable = [@ EXCEPT ![t] = "none"]]),
              IF h = NIL THEN B!BState ELSE B!DestroyBindingsIn(h, B!BState))

(* ei_toplevel_configure(t, ..., &resizable = ei_axis_both, ...): only the *)
(* flag changes; no resize button is created again.                        *)
SetResizable(t) ==
    /\ resizable[t] = "none"
    /\ resizable' = [resizable EXCEPT ![t] = "both"]
    /\ UNCHANGED <<nextId, live, cls, parent, head, tail, sib, mapped, role,
                   relief, closable, bindVars, crashed>>

(* ei_bind of an application callback on a widget or a tag. *)
UserBind(b) ==
    /\ balloc # BindNodes
    /\ B!SetBState(B!BindInto(b, LowestFree(balloc), B!BState))
    /\ UNCHANGED <<treeVars, crashed>>

HasBinding(w) == \E i \in 1 .. Len(B!BindList) : bnode[B!BindList[i]].widget = w

(* ei_widget_destroy invalidates the screen_location of the widget, which *)
(* for a toplevel leaves out its border and title bar (draw_rect): after   *)
(* the application destroys a toplevel, the pick surface may keep its      *)
(* colour under the pointer until something else is drawn there.          *)
StalePick == {pixel} \cap {w \in Ids : cls[w] = "toplevel" /\ w \notin live'}

(* One iteration of ei_app_run on an event handled by an application       *)
(* callback that makes one library call; the redraw that ends the          *)
(* iteration may bring another widget under the unmoved pointer.           *)
ClientCall ==
    /\ pc = "wait"
    /\ ~crashed
    /\ \/ "toplevel" \in ClientCalls /\ CreateToplevel
       \/ "button" \in ClientCalls
            /\ \E p \in live : cls[p] # "button" /\ CreateButton(p)
       \/ "destroy" \in ClientCalls
            /\ \E w \in live \ {Root} : role[w] = "plain"
                                       /\ DestroyWidget(w, TState)
       \/ "unclosable" \in ClientCalls
            /\ \E t \in live : cls[t] = "toplevel" /\ closable[t]
                              /\ SetUnclosable(t)
       \/ "unresizable" \in ClientCalls
            /\ \E t \in live : cls[t] = "toplevel" /\ resizable[t] = "both"
                              /\ SetUnresizable(t)
       \/ "resizable" \in ClientCalls
            /\ \E t \in live : cls[t] = "toplevel" /\ SetResizable(t)
       \/ "bind" \in ClientCalls
            /\ \E w \in live, c \in UserCallbacks :
                  /\ cls[w] = "button" /\ role[w] = "plain" /\ ~HasBinding(w)
                  /\ UserBind(MkBinding("down", w, NIL, c))
       \/ "bindtag" \in ClientCalls
            /\ \E e \in EventTypes, g \in TagNames, c \in UserCallbacks :
                  UserBind(MkBinding(e, NIL, g, c))
    /\ UNCHANGED <<animVars, dragVars, pc, ev, cursor, processed, moved>>
    /\ pixel' \in DrawnIn(head', sib', mapped') \cup StalePick
-----------------------------------------------------------------------------
(* ei_app_create: the root frame (pick id 0), then the seven built-in      *)
(* bindings in the order of the code, in binding nodes 1 .. 7.             *)
BuiltIn ==
    << MkBinding("down", NIL, "button", "ButtonDown"),
       MkBinding("up", NIL, "all", "ButtonUp"),
       MkBinding("move", NIL, "all", "ButtonMove"),
       MkBinding("up", NIL, "all", "EndResize"),
       MkBinding("move", NIL, "all", "Resize"),
       MkBinding("up", NIL, "all", "EndMove"),
       MkBinding("move", NIL, "all", "Move") >>

ASSUME MaxBindNodes >= Len(BuiltIn)

Init ==
    /\ nextId = 1
    /\ live = {Root}
    /\ cls = [w \in Ids |-> "frame"]
    /\ parent = [w \in Ids |-> NIL]
    /\ head = [w \in Ids |-> NIL]
    /\ tail = [w \in Ids |-> NIL]
    /\ sib = [w \in Ids |-> NIL]
    /\ mapped = {}
    /\ role = [w \in Ids |-> "plain"]
    /\ relief = [w \in Ids |-> "none"]
    /\ closable = [w \in Ids |-> TRUE]
    /\ resizable = [w \in Ids |-> "both"]
    /\ btop = 1
    /\ bnext = [n \in BindNodes |-> IF n < Len(BuiltIn) THEN n + 1 ELSE NIL]
    /\ bnode = [n \in BindNodes |->
                  IF n <= Len(BuiltIn) THEN BuiltIn[n] ELSE BuiltIn[1]]
    /\ balloc = 1 .. Len(BuiltIn)
    /\ pressed = NIL /\ pressingOver = FALSE
    /\ moving = NIL /\ resizing = NIL
    /\ pc = "wait"
    /\ ev = NoEvent
    /\ cursor = NIL /\ processed = FALSE
    /\ pixel = Root /\ moved = FALSE
    /\ crashed = FALSE
    /\ held = {}

-----------------------------------------------------------------------------
(* The dispatch loop of ei_app_run. *)

(* hw_event_wait_next, then current_bind = get_top_event_bind().  A move   *)
(* may bring any drawn widget under the pointer.  The hardware reports a   *)
(* button down only when it is up, and up only when it is down.            *)
WaitEvent ==
    /\ pc = "wait"
    /\ ~crashed
    /\ \E e \in MouseEvents :
          /\ e.type = "down" => e.button \notin held
          /\ e.type = "up" => e.button \in held
          /\ held' = CASE e.type = "down" -> held \cup {e.button}
                        [] e.type = "up" -> held \ {e.button}
                        [] OTHER -> held
          /\ ev' = e
          /\ pixel' \in IF e.type = "move" THEN Drawn ELSE {pixel}
    /\ pc' = "dispatch"
    /\ cursor' = btop
    /\ processed' = FALSE
    /\ moved' = FALSE
    /\ UNCHANGED <<treeVars, bindVars, animVars, dragVars, crashed>>

(* The tag match without the "all" case of find_picked_tagged_widget. *)
FiresNoAll(b) ==
    /\ b.ev = ev.type
    /\ IF b.widget # NIL THEN pixel = b.widget
       ELSE /\ b.tag # NIL
            /\ Pick # NIL
            /\ cls[Pick] = b.tag

(* Whether the binding b runs for the current event: a widget binding when *)
(* the pick colour under the pointer is the widget's (is_under_mouse), a   *)
(* tag binding when the widget found in the tree under the pointer has the *)
(* tag (find_picked_tagged_widget).  All mouse bindings are pickable.      *)
Fires(b) ==
    /\ b.ev = ev.type
    /\ IF b.widget # NIL THEN pixel = b.widget
       ELSE /\ b.tag # NIL
            /\ Pick # NIL
            /\ b.tag = "all" \/ cls[Pick] = b.tag

IsLeft(type) == ev.type = type /\ ev.button = "left"

(* The handlers: each returns processed' and leaves alone what it does not *)
(* write.  A handler that cannot act returns EI_FALSE.                     *)
Refuse ==
    /\ processed' = FALSE
    /\ UNCHANGED <<treeVars, bindVars, animVars, dragVars, moved, crashed>>

ButtonDown ==
    IF ~IsLeft("down") \/ Pick = NIL THEN Refuse
    ELSE /\ pressingOver' = TRUE
         /\ pressed' = Pick
         /\ relief' = [relief EXCEPT ![Pick] = "sunken"]
         /\ processed' = FALSE
         /\ UNCHANGED <<nextId, live, cls, parent, head, tail, sib, mapped,
                        role, closable, resizable, bindVars, dragVars, moved,
                        crashed>>

(* ei_handle_button_up.  The button's own callback (set by                 *)
(* ei_button_configure, called at the end) is left out: no button of this  *)
(* model is configured with one, as CreateButton passes no callback.       *)
ButtonUp ==
    IF ~IsLeft("up") THEN Refuse
    ELSE /\ pressed' = NIL
         /\ IF Pick = NIL \/ pressed # Pick
            THEN UNCHANGED <<pressingOver, relief>>
            ELSE /\ pressingOver' = FALSE
                 /\ relief' = [relief EXCEPT ![Pick] = "raised"]
         /\ processed' = FALSE
         /\ UNCHANGED <<nextId, live, cls, parent, head, tail, sib, mapped,
                        role, closable, resizable, bindVars, dragVars, moved,
                        crashed>>

(* ei_handle_button_move raising the button without clearing pressing_over. *)
ButtonMoveNoOver ==
    IF pressed = NIL \/ ev.type # "move" THEN Refuse
    ELSE IF Pick # pressed /\ relief[pressed] = "sunken"
    THEN /\ relief' = [relief EXCEPT ![pressed] = "raised"]
         /\ processed' = FALSE
         /\ UNCHANGED <<nextId, live, cls, parent, head, tail, sib, mapped,
                        role, closable, resizable, pressed, pressingOver,
                        bindVars, dragVars, moved, crashed>>
    ELSE IF Pick = pressed /\ relief[pressed] = "raised"
    THEN /\ relief' = [relief EXCEPT ![pressed] = "sunken"]
         /\ pressingOver' = TRUE
         /\ processed' = FALSE
         /\ UNCHANGED <<nextId, live, cls, parent, head, tail, sib, mapped,
                        role, closable, resizable, pressed, bindVars, dragVars,
                        moved, crashed>>
    ELSE Refuse

ButtonMove ==
    IF pressed = NIL \/ ev.type # "move" THEN Refuse
    ELSE IF Pick # pressed /\ relief[pressed] = "sunken"
    THEN /\ relief' = [relief EXCEPT ![pressed] = "raised"]
         /\ pressingOver' = FALSE
         /\ processed' = FALSE
         /\ UNCHANGED <<nextId, live, cls, parent, head, tail, sib, mapped,
                        role, closable, resizable, pressed, bindVars, dragVars,
                        moved, crashed>>
    ELSE IF Pick = pressed /\ relief[pressed] = "raised"
    THEN /\ relief' = [relief EXCEPT ![pressed] = "sunken"]
         /\ pressingOver' = TRUE
         /\ processed' = FALSE
         /\ UNCHANGED <<nextId, live, cls, parent, head, tail, sib, mapped,
                        role, closable, resizable, pressed, bindVars, dragVars,
                        moved, crashed>>
    ELSE Refuse

(* A step that only changes the drag globals and returns ret. *)
SetDrag(mv, rs, ret) ==
    /\ moving' = mv
    /\ resizing' = rs
    /\ processed' = ret
    /\ UNCHANGED <<treeVars, bindVars, animVars, moved, crashed>>

EndResize == SetDrag(moving, NIL, FALSE)

(* end_move returning before it clears moving_toplevel. *)
EndMoveKeep == Refuse

EndMove == IF moving = NIL THEN Refuse ELSE SetDrag(NIL, resizing, FALSE)

(* resize and move: ei_place of the dragged toplevel; whether its geometry *)
(* changes depends on coordinates the model does not keep.                 *)
Resize ==
    IF resizing = NIL \/ resizable[resizing] = "none" THEN Refuse
    ELSE /\ \E changed \in BOOLEAN : moved' = (moved \/ changed)
         /\ processed' = FALSE
         /\ UNCHANGED <<treeVars, bindVars, animVars, dragVars, crashed>>

Move ==
    IF moving = NIL THEN Refuse
    ELSE /\ \E changed \in BOOLEAN : moved' = (moved \/ changed)
         /\ processed' = FALSE
         /\ UNCHANGED <<treeVars, bindVars, animVars, dragVars, crashed>>

(* beg_resize, bound to the resize button w. *)
BegResize(w) ==
    IF ~IsLeft("down") \/ resizable[parent[w]] = "none" THEN Refuse
    ELSE SetDrag(moving, parent[w], TRUE)

(* beg_move, bound to the toplevel w: acts on any button when the pointer  *)
(* is on the title bar.                                                    *)
BegMove(w) ==
    \/ Refuse
    \/ SetDrag(w, resizing, FALSE)

(* quit_toplevel_event, bound to the close button w. *)
Quit(w) ==
    IF ~closable[parent[w]] THEN Refuse
    ELSE /\ DestroyWidget(parent[w], TState)
         /\ processed' = TRUE
         /\ moved' = TRUE
         /\ UNCHANGED <<animVars, dragVars>>

(* An application callback bound by UserBind returns ret and makes no     *)
(* library call: during a walk only quit_toplevel_event changes the list.  *)
UserCallback(ret) ==
    /\ processed' = ret
    /\ UNCHANGED <<treeVars, bindVars, animVars, dragVars, moved, crashed>>

Handler(b) ==
    CASE b.cb = "ButtonDown" -> ButtonDown
      [] b.cb = "ButtonUp"   -> ButtonUp
      [] b.cb = "ButtonMove" -> ButtonMove
      [] b.cb = "EndResize"  -> EndResize
      [] b.cb = "Resize"     -> Resize
      [] b.cb = "EndMove"    -> EndMove
      [] b.cb = "Move"       -> Move
      [] b.cb = "BegResize"  -> BegResize(b.widget)
      [] b.cb = "BegMove"    -> BegMove(b.widget)
      [] b.cb = "Quit"       -> Quit(b.widget)
      [] b.cb = "UserFalse"  -> UserCallback(FALSE)
      [] b.cb = "UserTrue"   -> UserCallback(TRUE)

(* One turn of the inner while loop: the binding under current_bind runs   *)
(* or not, then current_bind = current_bind->next, read after the callback. *)
SkipBinding ==
    /\ pc = "dispatch" /\ cursor # NIL /\ ~processed
    /\ ~Fires(bnode[cursor])
    /\ cursor' = bnext[cursor]
    /\ UNCHANGED <<treeVars, bindVars, animVars, dragVars, pc, ev, processed,
                   pixel, moved, crashed>>

Fire ==
    /\ pc = "dispatch" /\ cursor # NIL /\ ~processed
    /\ Fires(bnode[cursor])
    /\ Handler(bnode[cursor])
    /\ cursor' = bnext'[cursor]
    /\ UNCHANGED <<pc, ev, pixel>>

(* The loop ends; the invalidated rectangles are redrawn, on screen and in *)
(* the pick surface, so after a layout change another widget may be under  *)
(* the pointer.  The event, current_bind, processed and the layout flag    *)
(* are dead until the next event and are cleared.                          *)
EndDispatch ==
    /\ pc = "dispatch" /\ (cursor = NIL \/ processed)
    /\ pc' = "wait"
    /\ pixel' \in IF moved THEN Drawn ELSE {pixel}
    /\ cursor' = NIL /\ processed' = FALSE /\ moved' = FALSE
    /\ ev' = NoEvent
    /\ UNCHANGED <<treeVars, bindVars, animVars, dragVars, crashed>>

(* Only hw_event_wait_next reads the mouse buttons. *)
Next ==
    \/ WaitEvent
    \/ (SkipBinding \/ Fire \/ EndDispatch \/ ClientCall) /\ UNCHANGED held

Spec == Init /\ [][Next]_vars

-----------------------------------------------------------------------------
(* Properties. *)

TypeOK ==
    /\ nextId \in 1 .. MaxWidgets
    /\ live \subseteq 0 .. nextId - 1 /\ Root \in live
    /\ cls \in [Ids -> Classes]
    /\ parent \in [Ids -> Ids \cup {NIL}]
    /\ head \in [Ids -> Ids \cup {NIL}] /\ tail \in [Ids -> Ids \cup {NIL}]
    /\ sib \in [Ids -> Ids \cup {NIL}]
    /\ mapped \subseteq Ids
    /\ role \in [Ids -> Roles] /\ relief \in [Ids -> Reliefs]
    /\ closable \in [Ids -> BOOLEAN] /\ resizable \in [Ids -> Axes]
    /\ B!BTypeOK
    /\ pressed \in Ids \cup {NIL} /\ pressingOver \in BOOLEAN
    /\ moving \in Ids \cup {NIL} /\ resizing \in Ids \cup {NIL}
    /\ pc \in {"wait", "dispatch"} /\ ev \in MouseEvents
    /\ cursor \in BindNodes \cup {NIL} /\ processed \in BOOLEAN
    /\ pixel \in Ids /\ moved \in BOOLEAN /\ crashed \in BOOLEAN
    /\ held \subseteq Buttons

(* The widget tree stays well formed through every sequence of creations,  *)
(* destructions and handle removals (ei_widget_create's insertion before   *)
(* the resize button, ei_widget_destroy's four unlink cases, the manual    *)
(* unlink of ei_toplevel_configure): every child list of a live widget is  *)
(* finite, without repetition, ends at children_tail and holds live        *)
(* widgets whose parent it is, and every live widget but the root is in    *)
(* its parent's list.                                                      *)
TreeSound ==
    /\ \A p \in live :
          LET s == Children(p, head, sib)
          IN /\ Len(s) < Fuel
             /\ IsInjective(s)
             /\ tail[p] = IF s = <<>> THEN NIL ELSE s[Len(s)]
             /\ \A i \in 1 .. Len(s) : s[i] \in live /\ parent[s[i]] = p
    /\ \A w \in live \ {Root} :
          parent[w] \in live /\ w \in Range(Children(parent[w], head, sib))

(* The resize button of a toplevel stays its last child, so it is drawn on *)
(* top of the content (the insertion policy of ei_widget_create).          *)
ResizeHandleLast ==
    \A t \in live :
        /\ cls[t] = "toplevel"
        /\ \E c \in Range(Children(t, head, sib)) : IsResizeButton(c)
        => IsResizeButton(tail[t])

(* Between events, a pressed button is drawn sunken exactly when the       *)
(* pointer is over it (pressing_over), as ei_handle_button_down,           *)
(* ei_handle_button_move and ei_handle_button_up keep the two in step.     *)
PressedLooksPressed ==
    pc = "wait" /\ pressed # NIL => (pressingOver <=> relief[pressed] = "sunken")

(* A button release ends every drag: once the bindings have run on a       *)
(* button-up, neither moving_toplevel nor resizing_toplevel is set         *)
(* (end_move and end_resize are bound to "all").                           *)
UpEndsDrag ==
    [][pc = "dispatch" /\ pc' = "wait" /\ ev.type = "up"
         => moving' = NIL /\ resizing' = NIL]_vars

(* Every binding in the list targets a live widget or a tag; ei_app_run    *)
(* reads the pick colour of the target of every widget binding.            *)
BindingsTargetLive ==
    \A i \in 1 .. Len(B!BindList) : bnode[B!BindList[i]].widget \in live \cup {NIL}

(* No library call dereferences NULL. *)
NoCrash == ~crashed
=============================================================================
