SPECIFICATION Spec
CONSTANTS
    a = a
    None = None
    Garbled = Garbled
    Unread = Unread
    Junk = Junk
    Names <- NamesV
    MaxMint = 1
    Numbers = {1}
    Forms = {"plain"}
    Exact = 2
    Clients = {c1}
    AnyCalls <- AnyCallsV
    LocalCalls <- LocalCallsV
    ForeignRequests <- ForeignRequestsV
    Unescaped <- UnescapedV
    Intermediary <- IntermediaryV
    MaxLate = 1
    MaxOutcomes = 2
INVARIANTS
    ProblemSurvives
    ErrorsChangeNothing
PROPERTIES
    KeepsPromise
