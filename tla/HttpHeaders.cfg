SPECIFICATION Spec
CONSTANTS
    Objects = {o1, o2}
    Allocs = {al1, al2}
    Blocks = {1, 2, 3, 4}
    MaxFields = 3
    Names <- NamesMC
    Values <- ValuesMC
    Texts <- TextsMC
    Most = 4
    Traits <- TraitsMC
INVARIANTS ContainersAgree GrammarAgrees CallsAreTrue
PROPERTY RefinesSequences
