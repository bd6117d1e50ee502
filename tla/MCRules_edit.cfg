SPECIFICATION FormSpec
CONSTANTS
    None = None
    sale = sale
    Word = {sale}
    RuleId = {r1}
    Save = {w1}
    Text = {sale}
    Types = {"sender", "subject_keyword"}
    MaxConditions = 2
SYMMETRY FormSymmetry
INVARIANTS EditIsSaved
