SPECIFICATION FairSpec
CONSTANTS
    TaskFields = {"title"}
    ProjectFields = {"title"}
    Required = {"title"}
    Values = {"v", "w"}
    People = {"w"}
    Reqs = {r1, r2}
    r1 = r1
    r2 = r2
    Null = Null
    Unset = Unset
    Gone = Gone
INVARIANT TypeOK
INVARIANT AssigneeTold
PROPERTY OnlyAskedFields
PROPERTY SuccessIsStored
PROPERTY Answered
