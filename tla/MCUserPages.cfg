SPECIFICATION FairSpec
CONSTANTS
    None = None
    Cover = {"", "1cr"}
    CardSets <- MCCardSets
    Tiers = {"premium", "family_cfo"}
    MaxActs = 3
    MaxCalls = 2
    Slot = {s1, s2}
INVARIANTS
    NoUnnoticedDouble
    ChatAlternates
    SettledPageIsTrue
PROPERTIES
    FormsComeBack
