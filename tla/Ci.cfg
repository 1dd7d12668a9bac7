CONSTANTS
    NONE = NONE
    Malformed = Malformed
    Torn = Torn
    Placeholder = Placeholder
    Policies <- MCPolicies
    Destinations <- MCDestinations
    Identities <- MCIdentities
    Manifests <- MCManifestSet
    AllGates <- MCGates
    Matrices <- MCMatrices
    Documents <- MCDocuments
    CiMatrices <- MCCiMatrices
    Contents <- MCContents
    Built <- MCBuilt
    PublisherIdentity <- ReleaseId
    Imports = {"o1"}
    MaxRuns = 2
SPECIFICATION CiSpec
INVARIANTS RunsAreTrusted NoMixedWorkflows
VIEW StillRead
CHECK_DEADLOCK FALSE
