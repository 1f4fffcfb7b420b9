CONSTANTS
    Names = {n1, n2, n3}
    RuleSets <- AllRules
    MaxLen = 4
SPECIFICATION Spec
SYMMETRY Symmetry
INVARIANTS OneRuleKept NoDuplicates
PROPERTIES AddKeepsOrder
