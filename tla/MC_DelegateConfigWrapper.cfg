\* The uninitialised m_deleteButton may alias the Cancel button, the Mac
\* build connects updateSizeHint, and the owner may call setShowDelete(true)
\* twice: each is a way for the dialog's outcome to differ from the button.
CONSTANTS
    AliasUninit = TRUE
    OnMac = TRUE
    MaxDeleteButtons = 2
SPECIFICATION Spec
\* Once exec() has returned the dialog is deleted: nothing is left to do.
CHECK_DEADLOCK FALSE
INVARIANT CloseOutcomeFaithful
