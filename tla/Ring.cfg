SPECIFICATION FairSpec
CONSTANTS
    Reqs = {r1, r2, r3, r4}
    Null = Null
    Capacity = 2
    Modulus = 6
INVARIANTS NeverOverwritten
PROPERTIES IsBoundedFIFO Consumed
