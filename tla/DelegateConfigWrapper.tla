------------------------- MODULE DelegateConfigWrapper -------------------------
(***************************************************************************)
(* DelegateConfigWrapper (PixmapDelegateFader.h, lines 108-203): the modal *)
(* dialog that wraps an account's configuration widget, with Ok, Cancel    *)
(* and optional "Delete Account" buttons.  Its owner builds it, may call   *)
(* setShowDelete, and runs exec(); the widget reports data errors through  *)
(* toggleOkButton and, on Mac, size changes through updateSizeHint.  The   *)
(* widget belongs to the account and must outlive the dialog.              *)
(*                                                                         *)
(* Buttons are "ok", "cancel" and the delete buttons, numbered in the      *)
(* order setShowDelete(true) added them: "delete1", "delete2", ...         *)
(***************************************************************************)
EXTENDS Naturals, Sequences, TLC

CONSTANTS
    AliasUninit,      \* the never-initialised m_deleteButton may hold the Cancel button's address
    OnMac,            \* built with Q_WS_MAC: updateSizeHint is connected
    MaxDeleteButtons  \* how many times the owner may call setShowDelete(true)

VARIABLES
    phase,          \* "setup" (constructed), "open" (in exec()), "closed" (exec() returned)
    deleteButtons,  \* delete buttons added by setShowDelete(true)
    deleteButton,   \* what m_deleteButton points to
    okEnabled,      \* m_okButton is enabled
    attached,       \* m_widget is in the dialog's layout, a child of the dialog
    deleted,        \* m_deleted
    result,         \* the dialog's result code: "rejected" (0) or "accepted"
    clicked         \* history: what ended exec()

vars == <<phase, deleteButtons, deleteButton, okEnabled, attached, deleted,
          result, clicked>>

\* The i-th button setShowDelete(true) added.
DeleteButton(i) == "delete" \o ToString(i)

DeleteButtons(n) == {DeleteButton(i) : i \in 1..n}

Buttons == {"ok", "cancel"} \cup DeleteButtons(deleteButtons)

TypeOK ==
    /\ phase \in {"setup", "open", "closed"}
    /\ deleteButtons \in 0..MaxDeleteButtons
    /\ deleteButton \in {"garbage", "cancel"} \cup DeleteButtons(MaxDeleteButtons)
    /\ okEnabled \in BOOLEAN
    /\ attached \in BOOLEAN
    /\ deleted \in BOOLEAN
    /\ result \in {"rejected", "accepted"}
    /\ clicked \in {"none", "ok", "cancel", "escape", "hide"} \cup DeleteButtons(MaxDeleteButtons)

\* The constructor: the widget in the layout, m_deleted false, and
\* m_deleteButton never assigned, so it holds whatever the memory held.
Init ==
    /\ phase = "setup"
    /\ deleteButtons = 0
    /\ deleteButton \in {"garbage"} \cup (IF AliasUninit THEN {"cancel"} ELSE {})
    /\ okEnabled = TRUE
    /\ attached = TRUE
    /\ deleted = FALSE
    /\ result = "rejected"
    /\ clicked = "none"

-----------------------------------------------------------------------------

\* setShowDelete(true): a new destructive button, remembered in
\* m_deleteButton.  setShowDelete(false) does nothing.
SetShowDelete ==
    /\ phase = "setup"
    /\ deleteButtons < MaxDeleteButtons
    /\ deleteButtons' = deleteButtons + 1
    /\ deleteButton' = DeleteButton(deleteButtons + 1)
    /\ UNCHANGED <<phase, okEnabled, attached, deleted, result, clicked>>

Exec ==
    /\ phase = "setup"
    /\ phase' = "open"
    /\ UNCHANGED <<deleteButtons, deleteButton, okEnabled, attached, deleted,
                   result, clicked>>

\* toggleOkButton(dataError): Ok is enabled exactly without a data error.
ToggleOkButton(dataError) ==
    /\ phase = "open"
    /\ okEnabled' = ~dataError
    /\ UNCHANGED <<phase, deleteButtons, deleteButton, attached, deleted,
                   result, clicked>>

\* closed(b), the slot of the button box's clicked signal: the widget is
\* taken out of the dialog, then Ok accepts, m_deleteButton sets m_deleted,
\* emits closedWithDelete and rejects, and any other button rejects.  A
\* rejection emits rejected(), whose slot detaches the widget again.
Closed(b) ==
    /\ phase = "open"
    /\ b = "ok" => okEnabled
    /\ attached' = FALSE
    /\ deleted' = (b # "ok" /\ b = deleteButton)
    /\ result' = IF b = "ok" THEN "accepted" ELSE "rejected"
    /\ phase' = "closed"
    /\ clicked' = b
    /\ UNCHANGED <<deleteButtons, deleteButton, okEnabled>>

\* Escape or the window's close button: reject(), then the rejected() slot.
Reject ==
    /\ phase = "open"
    /\ attached' = FALSE
    /\ result' = "rejected"
    /\ phase' = "closed"
    /\ clicked' = "escape"
    /\ UNCHANGED <<deleteButtons, deleteButton, okEnabled, deleted>>

\* updateSizeHint on Mac: hide() ends the exec() loop with the current
\* result and no rejected(); show() makes the dialog visible again.
UpdateSizeHint ==
    /\ OnMac
    /\ phase = "open"
    /\ phase' = "closed"
    /\ clicked' = "hide"
    /\ UNCHANGED <<deleteButtons, deleteButton, okEnabled, attached, deleted,
                   result>>

Next ==
    \/ SetShowDelete
    \/ Exec
    \/ \E e \in BOOLEAN : ToggleOkButton(e)
    \/ \E b \in Buttons : Closed(b)
    \/ Reject
    \/ UpdateSizeHint

\* After exec() returns the owner deletes the dialog; nothing is left to do.
Spec == Init /\ [][Next]_vars

-----------------------------------------------------------------------------
(* Properties.                                                             *)

\* Once exec() has returned, the dialog did what its buttons say and kept
\* the widget alive ("let the config widget live to see another day"):
\* the widget is no longer the dialog's child, the account is deleted
\* exactly when a "Delete Account" button was clicked, and the dialog is
\* accepted exactly when Ok was clicked.
CloseOutcomeFaithful ==
    phase = "closed" =>
        /\ ~attached
        /\ deleted <=> clicked \in DeleteButtons(MaxDeleteButtons)
        /\ result = "accepted" <=> clicked = "ok"

=============================================================================
