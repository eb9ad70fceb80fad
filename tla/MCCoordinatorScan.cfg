SPECIFICATION SystemFairSpec
CONSTANTS
    a = a
    Safety = safety
    e1 = e1
    civitai = civitai
    unknown = unknown
    NoTask = NoTask
    NoReport = NoReport
    Task = {a, safety}
    Host = {civitai, unknown}
    HostOf <- MCHostOf
    Exclusive = {}
    ImageModel = {a}
    Retryable = {a}
    Executor = {e1}
    MaxDownloadAttempts = 1
    Limits <- OnePerHost
    MaxMessages = 0
    Alchemist = TRUE
    Disks <- OneMissing
    MaxChanges = 1
    MaxUnread = 2
    MaxOvertaken = 1
CHECK_DEADLOCK FALSE
INVARIANTS
    ScanIsTold
