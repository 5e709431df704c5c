\* Two syncs against each other and a user who edits and removes accounts.
SPECIFICATION Spec
CONSTANTS
    Id = {a1, a2, a3, a4}
    Ref <- TwoRefs
    NoRef = no_ref
    Fetched <- InOrder
    Sync = {s1, s2}
    Editor = {e1}
    Sandbox = TRUE
SYMMETRY Symmetry
INVARIANTS
    DuplicatesBounded
    CompletedSyncIsComplete
    ConsentFirst
