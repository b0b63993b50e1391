SPECIFICATION Spec
CONSTANTS
    home = home  left = left  right = right  deep = deep  deeper = deeper
    image = image  other = other  hidden = hidden
    Pages <- MCPages
    Home = home
    Refused <- MCRefused
    Disallowed <- MCRefused
    Unmatched = {}
    Assets <- MCAssets
    Externals <- MCExternals
    LinkSets <- MCLinkSets
    ImageSets <- MCImageSets
    Moves <- MCMoves
    Sitemaps <- MCSitemaps
    Configs <- MCConfigs
    SeedMultiple = 1
    MaxSkipRecords = 9
    MaxProbes = 2
INVARIANTS
    NeverBoth
CHECK_DEADLOCK FALSE
