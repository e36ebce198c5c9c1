SPECIFICATION Spec
CONSTANTS
    MaxBytes = 2
    MaxValueChars = 2
    NotANumber <- MCNotANumber
    Values <- MCValues
    Specs <- MCSpecs
    Responses <- MCResponses
    Replies <- MCReplies
    Members = 3
    Providers <- MCProviders
INVARIANTS
    CitationsWereRead
    ArithmeticIsRight
    SidesHaveBacking
