\* Three requests, crashes and profile edits on one family.
SPECIFICATION FamilySpec
CONSTANTS
    Member = {m1, m2, m3}
    Request = {r1, r2, r3}
    Typed = {0, 2}
    MaxChanges = 5
SYMMETRY Symmetry
INVARIANTS
    DriftHasCause
