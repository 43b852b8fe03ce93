----------------------------- MODULE Registries -----------------------------
(***************************************************************************)
(* The widget class registry of ei_widgetclass.c (widclss_top) and the     *)
(* geometry manager registry of ei_geometrymanager.c (geommanager_top):    *)
(* calloc'd records linked through next, one heap for both.  register      *)
(* frees the record when from_name finds its name, else pushes it in       *)
(* front; from_name walks from the top with strcmp.                        *)
(***************************************************************************)
EXTENDS Naturals, FiniteSets, Sequences, SequencesExt

CONSTANTS
    Nodes,         \* heap addresses of the records
    ClassNames,    \* "frame", "button", "toplevel"
    ManagerNames,  \* "placer"
    NIL

ASSUME NIL \notin Nodes

VARIABLES
    widclss_top,      \* head of the class list
    geommanager_top,  \* head of the manager list
    next,             \* the next field of every record
    name,             \* the name field of every record
    alloc             \* the allocated records

vars == <<widclss_top, geommanager_top, next, name, alloc>>

Fuel == Cardinality(Nodes)

\* The records of the list from n, in order.
RECURSIVE ListFrom(_, _, _)
ListFrom(n, h, fuel) ==
    IF n = NIL \/ fuel = 0 THEN <<>> ELSE <<n>> \o ListFrom(h.next[n], h, fuel - 1)

\* ei_widgetclass_from_name / ei_geometrymanager_from_name: the first
\* record from top whose name is nm, or NULL.
RECURSIVE FindFrom(_, _, _, _)
FindFrom(n, nm, h, fuel) ==
    IF n = NIL \/ fuel = 0 THEN NIL
    ELSE IF h.name[n] = nm THEN n
    ELSE FindFrom(h.next[n], nm, h, fuel - 1)

from_name(top, nm, h) == FindFrom(top, nm, h, Fuel)

Heap == [alloc |-> alloc, next |-> next, name |-> name]

\* calloc of a record at a free address n, then the strcpy of its name:
\* next is NULL.
Calloc(h, n, nm) ==
    [alloc |-> h.alloc \cup {n},
     next  |-> [h.next EXCEPT ![n] = NIL],
     name  |-> [h.name EXCEPT ![n] = nm]]

\* register that sets top without linking the old list behind the record.
RegisterNoLink(top, n, h) ==
    IF from_name(top, h.name[n], h) # NIL
    THEN [top |-> top, heap |-> [h EXCEPT !.alloc = @ \ {n}]]
    ELSE [top |-> n, heap |-> h]

\* register that, on a known name, frees the registered record it found.
RegisterFreeFound(top, n, h) ==
    IF from_name(top, h.name[n], h) # NIL
    THEN [top |-> top, heap |-> [h EXCEPT !.alloc = @ \ {from_name(top, h.name[n], h)}]]
    ELSE [top |-> n,
          heap |-> IF top # NIL THEN [h EXCEPT !.next[n] = top] ELSE h]

\* ei_widgetclass_register / ei_geometrymanager_register of record n: free
\* it when its name is registered, else push it in front (its next stays
\* NULL from calloc when the list is empty).
Register(top, n, h) ==
    IF from_name(top, h.name[n], h) # NIL
    THEN [top |-> top, heap |-> [h EXCEPT !.alloc = @ \ {n}]]
    ELSE [top |-> n,
          heap |-> IF top # NIL THEN [h EXCEPT !.next[n] = top] ELSE h]

SetHeap(h) == alloc' = h.alloc /\ next' = h.next /\ name' = h.name

\* ei_frame_register_class, ei_button_register_class,
\* ei_toplevel_register_class: calloc, fill, register.
RegisterClass(nm) ==
    \E n \in Nodes \ alloc :
        LET st == Register(widclss_top, n, Calloc(Heap, n, nm))
        IN  /\ widclss_top' = st.top
            /\ SetHeap(st.heap)
            /\ UNCHANGED geommanager_top

\* ei_register_placer_manager: calloc, fill, register.
RegisterManager(nm) ==
    \E n \in Nodes \ alloc :
        LET st == Register(geommanager_top, n, Calloc(Heap, n, nm))
        IN  /\ geommanager_top' = st.top
            /\ SetHeap(st.heap)
            /\ UNCHANGED widclss_top

Init ==
    /\ widclss_top = NIL
    /\ geommanager_top = NIL
    /\ alloc = {}
    /\ next = [n \in Nodes |-> NIL]
    /\ name = [n \in Nodes |-> CHOOSE nm \in ClassNames : TRUE]

Next ==
    \/ \E nm \in ClassNames : RegisterClass(nm)
    \/ \E nm \in ManagerNames : RegisterManager(nm)

Spec == Init /\ [][Next]_vars

-----------------------------------------------------------------------------
(* Properties. *)

Classes == ListFrom(widclss_top, Heap, Fuel)
Managers == ListFrom(geommanager_top, Heap, Fuel)

NamesOf(l) == [i \in 1..Len(l) |-> name[l[i]]]

\* The two lists are NULL-terminated chains of allocated records, share no
\* record, and together hold every allocated record: a duplicate
\* registration frees exactly the record it was given, never a registered
\* one, and leaks nothing.
RegistriesSound ==
    LET all == Range(Classes) \cup Range(Managers)
    IN  /\ Len(Classes) + Len(Managers) = Cardinality(all)
        /\ all = alloc
        /\ \A l \in {Classes, Managers} :
              l # <<>> => next[l[Len(l)]] = NIL

AbsClasses == INSTANCE AbstractRegistry
    WITH Names <- ClassNames, registry <- NamesOf(Classes)
AbsManagers == INSTANCE AbstractRegistry
    WITH Names <- ManagerNames, registry <- NamesOf(Managers)

\* Every registration is a step of the abstract registry (section 3):
\* a known name leaves the list alone, a new one goes in front.
RegistriesRefineAbstract == AbsClasses!ASpec /\ AbsManagers!ASpec
=============================================================================
