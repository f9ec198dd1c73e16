SPECIFICATION Spec
CONSTANTS
    own = own
    sib = sib
    pkg = pkg
    low = low
    high = high
    Projects <- MCProjects
    Locales = {"en", "ru"}
    Foreign = "xx"
    Packages = {pkg}
    Overrides = {""}
    MaxRenders = 3
    MayFail = {"CLAUDE", pkg}
    None = None
INVARIANTS
    PublishedIsFresh
    RerunChangesNothing
PROPERTIES
    AuthoredSurvives
    
    OthersStayFresh
