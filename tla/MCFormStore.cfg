SPECIFICATION FormSpec
CONSTANTS
    email = email
    name = name
    Fields <- MCFields
    Values = {"a", "b"}
    MaxRevision = 1
    MaxGeneration = 2
SYMMETRY Symmetry
INVARIANTS
    ErrorsFitValue
    ValidationCanFinish
    SubmissionMatchesData
