SPECIFICATION Spec
CONSTANTS
    push = push
    ext = ext
    url = url
    a = a
    nowhere = None
    None = None
    Garbled = Garbled
    Names <- NamesV
    MaxMint = 2
    Numbers = {1}
    Forms = {plain}
    Exact = 2
    Builtin = {push}
    Extension = {ext}
    Endpoints = {url}
    Docs <- DocsV
    Hands = {h1}
INVARIANTS
    NoForeignStreams
    AudiencePrivate
    WireKept
PROPERTIES
    OnlyNamedReplaced
