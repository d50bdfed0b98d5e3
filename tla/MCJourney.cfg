CONSTANTS
    None = None
    Decls <- MCDecls
    Olders <- MCOlders
    MaxCalls = 2
    MaxSends = 3
    Absent = Absent
    JsonNull = JsonNull
    RowKeys = {k1, k2}
    NoValue = NoValue
    Slots = {s1, s2}
    Lines <- MCLines
    Messages <- MCMessages
    Policies <- MCPolicies
    CaptureMax = 4
    MaskBytes = 2
    MessageMax = 11
    MaxLines = 3
    I64Max = 7
    U64Max = 15
    F64Max = 17
    LastTime = 5
    Unset = Unset
    Ids = {i1, i2, i3}
    LastKey = 3
    DefaultLimit = 1
    MaxListLimit = 2
    MaxChanges = 2
SPECIFICATION Spec
CHECK_DEADLOCK FALSE
INVARIANTS
    AuthoredJobRuns
    RowsRoundTrip
    FailuresReported
    PagesFaithful
