SPECIFICATION Spec
CONSTANTS
    style = style
    naming = naming
    once = once
    again = again
    Documents <- TwoDocuments
    Deletes <- TwoDeletes
    Faults <- SlowQdrant
SYMMETRY Symmetry
INVARIANTS
    SearchNeverUnlisted
