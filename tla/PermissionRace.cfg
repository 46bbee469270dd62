\* Two prompts of one turn: a Bash call with every racer but the channel, and
\* a call that is only sent to the channel.
CONSTANTS
    None = None
    Prompts = {a, b}
    Bridged = {a}
    Channelled = {b}
    Hooked = {a}
    Classified = {a}
SPECIFICATION FairSpec
INVARIANTS
    OneSource
    LosersWithdrawn
PROPERTIES
    AnsweredUnlessDropped
CHECK_DEADLOCK FALSE
