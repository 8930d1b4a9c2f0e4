SPECIFICATION SessionSpec
CONSTANTS
    Devices = {d1}
    Calls = {c1, c2}
    Limit = 2
    MaxTokens = 3
    MaxPasswords = 2
    MaxInvitations = 2
    None = none
INVARIANTS
    SessionTypeOK
    OneSuccessor
    RevokedDeviceHasNoSession
    DisabledAccountHasNoSession
    OldPasswordHasNoSession
    CalmClientStaysSignedIn
PROPERTIES
    VoidInvitationNeverActivates
    AccessIsOfActiveDevice
SYMMETRY
    Symmetry
