SPECIFICATION SystemFairSpec
CONSTANTS
    a = a
    Safety = safety
    e1 = e1
    civitai = civitai
    unknown = unknown
    NoTask = NoTask
    NoReport = NoReport
    Task = {a, safety}
    Host = {civitai, unknown}
    HostOf <- MCHostOf
    Exclusive = {}
    ImageModel = {a}
    Retryable = {a}
    Executor = {e1}
    MaxDownloadAttempts = 1
    Limits <- OnePerHost
    MaxMessages = 0
    Alchemist = TRUE
    Disks <- OneMissing
    MaxChanges = 2
    MaxUnread = 1
    MaxOvertaken = 0
CHECK_DEADLOCK FALSE
PROPERTIES
    AskedAgainArrives
