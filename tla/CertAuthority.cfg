\* Three launches that overlap, crash and are refused file operations, on every
\* combination of the files an earlier session may have left.
SPECIFICATION Spec
CONSTANTS
    Launches = {l1, l2, l3}
    Fresh = Fresh
    Aged = Aged
    Blank = Blank
    MaxStarting = 2
SYMMETRY MCSymmetry
INVARIANTS
    ServesMatchingPair
    TrustIsKept
    AgentTrustsItsProxy
