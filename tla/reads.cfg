SPECIFICATION ReadsSpec
CHECK_DEADLOCK FALSE
CONSTANTS
    SegmentChunks = 16
    Files <- MCFiles
    Documents <- MCDocuments
    Texts <- MCTexts
    Decoded <- MCDecoded
    Pages <- MCPages
    Lists <- MCLists
    SpecRoot <- MCSpecRoot
    Width <- MCWidth
    Retries <- MCRetries
    Requests <- PageRequests
    CallsOf <- MCCallsOf
    Limit = 2
INVARIANTS
    CallsAreBounded
    OnlyProvedIsShown
    OneFetchPerDocument
PROPERTIES
    HonestAnswersAreTaken
