SPECIFICATION MCSpec
CONSTANTS
    n1 = n1
    n2 = n2
    n3 = n3
    s1 = s1
    s2 = s2
    i1 = i1
    i2 = i2
    r1 = r1
    None = None
    ConnectorIds = {c1, c2}
    Names = {n1, n2, n3}
    Slugs = {s1, s2}
    SlugOf <- MCSlugOf
    Images = {i1, i2}
    Exts = {"png", "svg"}
    ExtOf <- MCExtOf
    Large = {i2}
    Defaults <- MCDefaults
    Requests = {r1, r2}
INVARIANTS
    TypeOK
    AliveUnique
    LogoShown
PROPERTIES
    AnsweredUnlessLoopHangs
    CommitLeavesNoOrphan
    ReferencedFileKept
