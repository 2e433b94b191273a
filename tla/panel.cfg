SPECIFICATION FairSpec
CONSTANTS
    MaxSends = 3
    MaxEvents = 4
    MaxAsks = 2
    MaxTroubles = 2
INVARIANTS PanelTypeOK ShownInOrder ConversationContinues
PROPERTY SendEnds
CHECK_DEADLOCK FALSE
