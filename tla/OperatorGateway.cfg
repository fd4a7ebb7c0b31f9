CONSTANTS
    Chats = {owner, stranger}
    Nobody = Nobody
    Words = {"/halt", "/resume"}
    Requesters = {loop}
    MaxUpdates = 2
    MaxRequests = 2
    MaxCrashes = 1
SPECIFICATION FairSpec
INVARIANTS
    EachUpdateHandledOnce
    LastWordStands
    ApprovalsDoNotCross
PROPERTIES
    EverythingSettles
