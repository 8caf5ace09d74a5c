SPECIFICATION Spec
CONSTANTS
    Lines <- MCLines
    MaxLines = 3
    MaxCalls = 1
INVARIANTS TypeOK ScanFindsChunk DraftIsKept QueryArrives
PROPERTIES RunAgainIsSame
