SPECIFICATION Spec
CONSTANTS
    a = a
    b = b
    safety = safety
    verify = verify
    e1 = e1
    e2 = e2
    civitai = civitai
    unknown = unknown
    NoTask = NoTask
    Task = {a, b, safety, verify}
    Host = {civitai, unknown}
    HostOf <- MCHostOf
    Exclusive = {verify}
    ImageModel = {a, b}
    Retryable = {a, b}
    Executor = {e1, e2}
    MaxDownloadAttempts = 1
    Limits <- AnyLimits
    MaxMessages = 1
INVARIANTS
    TypeOK
    CountersExact
    OneFetchPerTask
    ExclusiveAlone
    SlotHeldToFetch
    ReloadAlone
