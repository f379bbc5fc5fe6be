SPECIFICATION Spec
CONSTANTS
    Nothing = Nothing
    Contents <- MCContents
    Runs = {"r1", "r2"}
    Seconds = {1}
    Requests <- MCRequests
    Manifests = {"committed", "other", "linked", "nested"}
    Samples <- MCSamples
    Cache = {"z2"}
    Findings <- MCFindings
    MaxFaults = 1
    MaxKills = 1
    MaxReruns = 1
INVARIANTS
    LeavesNothing
    ComparesWhatItNamed
    PassMeansKept
    StoredAreVerified
    LeftoversHarmless
PROPERTIES
    OthersVmKept
