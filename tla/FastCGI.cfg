SPECIFICATION Spec
CONSTANTS
    BufSize = 8
    MaxContent = 5
    MaxRequests = 2
    Requests <- MCRequests
    Responses <- MCResponses
INVARIANTS
    TypeOK
    BytesInOrder
    RequestAsSent
    RecordsFilled
    ResponseAsBuilt
PROPERTY
    Returns
