\* Three entries, so that a page of two leaves one out.
SPECIFICATION Spec
CONSTANTS
    Actions = {"Login", "Deposit"}
    Outcomes = {"Success"}
    Targets = {"account:1"}
    Times = {1, 2}
    MaxAuditId = 4
    DefaultLimit = 2
    MaxLimit = 2
    MaxEntries = 3
    MaxLoaded = 2
INVARIANTS
    IdsStayUnique
    PagesAreExact
