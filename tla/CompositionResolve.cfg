CONSTANTS
    Pinnable <- MCDigests
    Ids = {1, 2, 3}
    Capabilities = {1, 2, 3}
    Usd = 1
    Targets = {"linux", "macos"}
    Compositions <- MCManifests
    Inputs <- MCInputs
    Layouts <- MCLayouts
    Fold <- MCFold
SPECIFICATION MCSpec
INVARIANTS ResolutionIsSound LayoutIsSound
PROPERTIES Terminates
CHECK_DEADLOCK FALSE
