SPECIFICATION Spec
CONSTANTS
    None = None
    Garbled = Garbled
    Names = {a}
    MaxMint = 1
    Numbers = {1, 3}
    plain = plain
    spaced = spaced
    jws1 = jws1
    jws2 = jws2
    Forms <- FormsV
    Exact = 2
    SETs <- SETsV
    MaxQueue = 2
    MaxSaid = 4
SYMMETRY Symmetry
INVARIANTS
    MapsAgree
    StatusFollows
    ContentsFollow
