CONSTANTS
    NONE = NONE
    Malformed = Malformed
    Placeholder = Placeholder
    Policies <- MCPolicies
    Destinations <- MCDestinations
    Identities <- MCIdentities
    Manifests <- MCManifestSet
    AllGates <- MCGates
    Matrices <- MCMatrices
    Documents <- MCDocuments
    Claims <- MCClaims
    Now <- MCNow
    LocalStores <- MCLocalStores
    Declarations <- MCDeclarations
    ProducerManifests <- MCProducerManifests
    Requirements <- MCRequirements
    Archives <- MCArchives
    Dists <- MCDists
    PullPolicies <- MCPullPolicies
    Declared <- MCDeclared
    Texts <- MCTexts
    Holdings <- MCHoldings
    Sites <- MCSites
    BundleShapes <- MCBundleShapes
    Runtimes <- MCRuntimes
    Sessions <- MCSessions
    GoldenCases <- MCGoldenCases
    Pieces <- MCPieces
    MAX_WORKSPACE_MEMBER_DEPTH = 2
    WORKSPACE_SCAN_EXCLUDED <- MCExcluded
    Generated <- MCGenerated
    Trees <- MCTrees
    PatternLists <- MCPatternLists
    WorkspaceFamilies <- MCWorkspaceFamilies
    Letters <- MCLetters
    Lower <- MCLower
    Digits <- MCDigits
    FileOrder <- MCFileOrder
    RunNames <- MCRunNames
    RendererOf <- MCRendererOf
    Reports <- MCReports
    PartialReports <- MCPartialReports
    MergeCases <- MCMergeCases
    Adoptions <- MCAdoptions
    AdoptionTrees <- MCAdoptionTrees
    StandardChecks <- MCStandardChecks
    Views <- MCViews
    Launches <- MCLaunches
    HydraProjects <- MCHydraProjects
    HydraRuntimes <- MCHydraRuntimes
    MaxCommands = 3
    BundlePlaces <- MCBundlePlaces
    LibraryManifests <- MCLibraryManifests
    ToolManifests <- MCToolManifests
    HeaderPatterns <- MCHeaderPatterns
    HeaderPaths <- MCHeaderPaths
    Consumers <- MCConsumers
    LibraryIds <- MCLibraryIds
    LibraryRequirements <- MCRequires
    Worked <- MCWorked
    MaxLibraryCommands = 3
SPECIFICATION MemberSpec
INVARIANTS
    TrustDecisions
    WorkflowDecisions
    ManifestDecisions
    RegistryDecisions
    RungDecisions
    WorkspaceDecisions
    RendererDecisions
    LibraryDecisions
CHECK_DEADLOCK FALSE
