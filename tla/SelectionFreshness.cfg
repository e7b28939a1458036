SPECIFICATION Spec
CONSTANTS
    old = old
    new = new
    again = again
    note = note
    cloud = cloud
    onprem = onprem
    dead = dead
    NoConcept = NoConcept
    NoInstant = NoInstant
    Memories = {old, new, again, note, cloud, onprem, dead}
    Concept <- MCConcept
    Words <- MCWords
    State <- MCState
    Trust <- MCTrust
    Stale = {cloud}
    Instant <- MCInstant
    Lexical <- MCLexical
    ConflictsWith <- MCConflicts
    MaxRecalled = 3
INVARIANTS
    FresherWins
