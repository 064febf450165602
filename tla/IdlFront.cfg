SPECIFICATION FrontSpec
CONSTANTS
    a = a
    b = b
    b_link = b_link
    c = c
    d = d
    x = x
    gone = gone
    dot_b = dot_b
    fa = fa
    fb = fb
    fc = fc
    fd = fd
    fx = fx
    None = None
    Root = a
    Refs <- MCRefs
    Paths <- MCPaths
    Normal <- MCNormal
    Files <- MCFiles
    FileOf <- MCFileOf
    Externs = {fx}
    Broken = {fd}
    Projects <- MCProjects
    Names <- MCNames
    Lower <- MCLower
    Stems <- MCStems
    Helper <- MCHelper
    Base <- MCBase
    Configs <- MCConfigs
INVARIANTS
    FrontTypeOK
    ReadOnce
    ImportsLeftFirst
    ParsedIsReachable
    NoFileLost
PROPERTY
    Ends
