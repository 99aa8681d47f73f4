SPECIFICATION Spec
CONSTANTS
    Host = {h1, h2}
    Source = {s1}
    NoSource = NoSource
    Class <- MCClassDistinct
    Rule = {"scheduled"}
    MaxAttempts = 1
    InitKinds = {"new"}
    Commands = {"recrawl", "dry_run", "ingest"}
    ExplicitRunId = FALSE
    MaxVersion = 2
    MaxDay = 0
    MaxCrashes = 0
SYMMETRY Symmetry
INVARIANTS
    BaselineIsIndexed
PROPERTIES
    DryRunWritesNothing
