SPECIFICATION Spec
CONSTANTS
    Threads = {t1, t2}
    Offers <- MCOffers
    MaxSets = 2
    MaxCalls = 3
    Null = Null
SYMMETRY Symmetry
INVARIANTS DefaultsUsable FooterTrue
PROPERTIES ImplicitFormat
CHECK_DEADLOCK FALSE
