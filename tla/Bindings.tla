------------------------------ MODULE Bindings ------------------------------
(***************************************************************************)
(* The event-binding registry of src/src/ei_event.c at the level of its    *)
(* heap: a singly linked list of malloc'd nodes reached from               *)
(* top_event_bind.  A node address is a member of Nodes; free() removes    *)
(* it from alloc but leaves its fields as they were (freed memory keeps    *)
(* its last contents), and malloc may hand out any address not in alloc,   *)
(* a freed one included.  user_param is NULL in every call of the          *)
(* repository and is left out.                                             *)
(***************************************************************************)
EXTENDS Naturals, Sequences, FiniteSets, Functions

CONSTANTS
    Nodes,       \* addresses malloc can return for a binding node
    Events,      \* event types
    Widgets,     \* widget pointers that can be binding targets
    Tags,        \* tag strings
    Callbacks,   \* callback function pointers
    NIL          \* the NULL pointer

ASSUME NIL \notin Nodes \cup Widgets \cup Tags

VARIABLES
    top,    \* top_event_bind
    next,   \* next field of every node
    bnode,  \* eventtype, widget, tag, callback fields of every node
    alloc   \* nodes currently allocated

bvars == <<top, next, bnode, alloc>>

Binding == [ev : Events, widget : Widgets \cup {NIL},
            tag : Tags \cup {NIL}, cb : Callbacks]

(* The nodes met by following next from n; a walk on a cycle is cut after  *)
(* one lap more than there are nodes, so its length gives the cycle away.  *)
RECURSIVE ChainFrom(_, _, _)
ChainFrom(n, nxt, fuel) ==
    IF n = NIL \/ fuel = 0 THEN <<>>
    ELSE <<n>> \o ChainFrom(nxt[n], nxt, fuel - 1)

Fuel == Cardinality(Nodes) + 1

BindList == ChainFrom(top, next, Fuel)

(* The contents of the list as the dispatch loop reads it. *)
BindContents == [i \in 1 .. Len(BindList) |-> bnode[BindList[i]]]

BInit ==
    /\ top = NIL
    /\ next = [n \in Nodes |-> NIL]
    /\ bnode = [n \in Nodes |-> CHOOSE b \in Binding : TRUE]
    /\ alloc = {}

(* The registry as one record, so that a handler making several calls can  *)
(* chain them.                                                             *)
BState == [top |-> top, next |-> next, bnode |-> bnode, alloc |-> alloc]

SetBState(st) ==
    /\ top' = st.top
    /\ next' = st.next
    /\ bnode' = st.bnode
    /\ alloc' = st.alloc

(* The same call without new->next = NULL: a reused node keeps the next   *)
(* pointer it had before it was freed.                                     *)
BindIntoNoNull(b, n, st) ==
    IF (b.widget # NIL) = (b.tag # NIL) THEN st
    ELSE LET L == ChainFrom(st.top, st.next, Fuel)
         IN [top   |-> IF st.top = NIL THEN n ELSE st.top,
             next  |-> IF st.top = NIL THEN st.next
                      ELSE [st.next EXCEPT ![L[Len(L)]] = n],
             bnode |-> [st.bnode EXCEPT ![n] = b],
             alloc |-> st.alloc \cup {n}]

(* The same call linking the node in front of top_event_bind. *)
BindIntoFront(b, n, st) ==
    IF (b.widget # NIL) = (b.tag # NIL) THEN st
    ELSE [top   |-> n,
          next  |-> [st.next EXCEPT ![n] = st.top],
          bnode |-> [st.bnode EXCEPT ![n] = b],
          alloc |-> st.alloc \cup {n}]

(* ei_bind into node n returned by malloc: reject a target that is both or *)
(* neither widget and tag, else fill n and link it after the node whose    *)
(* next is NULL.                                                           *)
BindInto(b, n, st) ==
    IF (b.widget # NIL) = (b.tag # NIL) THEN st
    ELSE LET L == ChainFrom(st.top, st.next, Fuel)
         IN [top   |-> IF st.top = NIL THEN n ELSE st.top,
             next  |-> IF st.top = NIL THEN [st.next EXCEPT ![n] = NIL]
                      ELSE [st.next EXCEPT ![L[Len(L)]] = n, ![n] = NIL],
             bnode |-> [st.bnode EXCEPT ![n] = b],
             alloc |-> st.alloc \cup {n}]

Bind(b) == \E n \in Nodes \ alloc : SetBState(BindInto(b, n, BState))

(* ei_unbind: unlink and free the first node equal to b in every field. *)
UnbindFrom(b, st) ==
    LET L == ChainFrom(st.top, st.next, Fuel)
        hits == {i \in 1 .. Len(L) : st.bnode[L[i]] = b}
    IN IF hits = {} THEN st
       ELSE LET i == CHOOSE j \in hits : \A k \in hits : j <= k
                n == L[i]
            IN [st EXCEPT !.top = IF i = 1 THEN st.next[n] ELSE @,
                          !.next = IF i = 1 THEN @
                                   ELSE [@ EXCEPT ![L[i - 1]] = st.next[n]],
                          !.alloc = @ \ {n}]

Unbind(b) == SetBState(UnbindFrom(b, BState))

(* The loop of destroy_event_binded_to_widget, one iteration per call.     *)
(* last_bind is set to the current node even when that node was just       *)
(* freed, as the code does.                                                *)
RECURSIVE DestroyWalk(_, _, _, _, _)
DestroyWalk(curr, last, st, w, fuel) ==
    IF curr = NIL \/ fuel = 0 THEN st
    ELSE IF st.bnode[curr].widget = w
         THEN DestroyWalk(st.next[curr], curr,
                 [st EXCEPT !.top = IF last = NIL THEN st.next[curr] ELSE @,
                            !.next = IF last = NIL THEN @
                                     ELSE [@ EXCEPT ![last] = st.next[curr]],
                            !.alloc = @ \ {curr}],
                 w, fuel - 1)
         ELSE DestroyWalk(st.next[curr], curr, st, w, fuel - 1)

(* destroy_event_binded_to_widget(w), as ei_widget_destroy calls it. *)
DestroyBindingsIn(w, st) == DestroyWalk(st.top, NIL, st, w, Fuel)

DestroyBindingsOf(w) == SetBState(DestroyBindingsIn(w, BState))

BNext ==
    \/ \E b \in Binding : Bind(b) \/ Unbind(b)
    \/ \E w \in Widgets : DestroyBindingsOf(w)

BSpec == BInit /\ [][BNext]_bvars

(* The heap read as a list, mapped onto the abstract registry. *)
Abs == INSTANCE AbstractBindings WITH bindings <- BindContents

-----------------------------------------------------------------------------
BTypeOK ==
    /\ top \in Nodes \cup {NIL}
    /\ next \in [Nodes -> Nodes \cup {NIL}]
    /\ bnode \in [Nodes -> Binding]
    /\ alloc \subseteq Nodes

(* The list reached from top_event_bind is finite, runs only through       *)
(* allocated nodes, and holds every allocated node: no node is leaked,     *)
(* freed while still linked, or linked twice.  Broken by an unlink that    *)
(* writes through a pointer to a node it has already freed.                *)
BindListSound ==
    /\ Len(BindList) <= Cardinality(Nodes)
    /\ Range(BindList) = alloc

(* bind, unbind and widget destruction act on the list exactly as the      *)
(* ordered registry of spec section 4.5: append, remove the first equal    *)
(* binding, drop every binding of the destroyed widget.                    *)
BindingsRefineAbstract == Abs!ASpec
=============================================================================
