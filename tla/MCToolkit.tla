----------------------------- MODULE MCToolkit -----------------------------
(* Model-checking instance of Toolkit.  Widget ids are not reused (wid_id *)
(* only grows), so MaxWidgets bounds the widgets of a whole run: the root *)
(* frame, one toplevel with its two handles, and one more button.  The    *)
(* binding nodes are the seven built-in bindings, the toplevel's three    *)
(* and one of the application.                                           *)
EXTENDS Toolkit

MCMaxWidgets == 5
MCMaxBindNodes == 11
(* Application calls: building and tearing down the tree, and           *)
(* reconfiguring the handles of a toplevel.                               *)
MCCallsTree == {"toplevel", "button", "destroy", "unclosable", "unresizable",
                "resizable"}
(* Application calls: a user binding on a button. *)
MCCallsBind == {"toplevel", "button", "bind"}
(* Application calls: only toplevels; the user does the rest. *)
MCCallsToplevel == {"toplevel"}
(* Application calls: a toplevel made unclosable. *)
MCCallsUnclosable == {"toplevel", "unclosable"}
(* Application calls: a toplevel destroyed by the application. *)
MCCallsDestroy == {"toplevel", "destroy"}
=============================================================================
