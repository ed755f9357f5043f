\* Two good commits, one that fails its tests, one that does not start and one
\* that starts and is not healthy; four pushes, cutovers or kills.
SPECIFICATION Spec
CONSTANTS
    Commits = {good1, good2, untested, broken, unhealthy}
    Sound = {good1, good2, broken, unhealthy}
    Starts = {good1, good2, untested, unhealthy}
    Healthy = {good1, good2}
    MaxEvents = 4
    Faults = {}
    NoCommit = NoCommit
INVARIANTS TypeOK HostWorks
PROPERTIES GoodCommitGoesLive
