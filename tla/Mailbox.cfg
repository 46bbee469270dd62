\* Two messages to the model and one of the protocol; one sender dies.
CONSTANTS
    Nobody = Nobody
    Messages = {a, b, c}
    Structured = {c}
    MaxDeaths = 1
SPECIFICATION FairMailboxSpec
INVARIANTS
    LostOnlyInTheWindow
PROPERTIES
    NothingIsOverwritten
    ArrivesAtLast
CHECK_DEADLOCK FALSE
