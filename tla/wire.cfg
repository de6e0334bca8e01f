SPECIFICATION Spec
CONSTANTS
    None = None
    Words <- MCWords
    Urls <- MCUrls
    Etags = {"e"}
    Payloads <- MCPayloads
    Eols = {"lf", "crlf"}
    MaxJunk = 3
    MaxResponse = 9
    MaxRequests = 2
    MaxNoise = 1
CHECK_DEADLOCK FALSE
INVARIANT WholeAnswer
INVARIANT AnswerIsMine
INVARIANT NothingSwallowed
