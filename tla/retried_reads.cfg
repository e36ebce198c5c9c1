SPECIFICATION LiveReadsSpec
CHECK_DEADLOCK FALSE
CONSTANTS
    SegmentChunks = 16
    Files <- MCDocuments
    Documents <- MCDocuments
    Texts <- MCDocuments
    Decoded <- OneDecoded
    Pages <- OnePage
    Lists = {}
    SpecRoot <- OneSpecRoot
    Width <- OneWidth
    Retries <- OneRetries
    Requests <- PageRequests
    CallsOf <- MCCallsOf
    Limit = 1
PROPERTIES
    EveryPageIsAnswered
