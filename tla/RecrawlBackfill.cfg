SPECIFICATION Spec
CONSTANTS
    Host = {h1}
    Source = {s1}
    NoSource = NoSource
    Class <- MCClassDistinct
    Rule = {"scheduled"}
    MaxAttempts = 1
    InitKinds = {"legacy"}
    Commands = {"recrawl", "ingest", "backfill", "sync", "edit"}
    ExplicitRunId = TRUE
    MaxVersion = 2
    MaxDay = 1
    MaxCrashes = 0
PROPERTIES
    NoBlindReindex
