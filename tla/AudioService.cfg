SPECIFICATION Spec
CONSTANTS
    SenderModes <- MCModes
    ListenerModes <- MCModes
    Custom <- MCCustom
    Signatures <- MCSignatures
    Scenes <- MCScenes
    Messages <- MCMessages
    Block = 2304
INVARIANTS
    MarksDecoded
    StartsInItsMode
CHECK_DEADLOCK FALSE
