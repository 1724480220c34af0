\* Two users may want the same of two names; customers come and link.
SPECIFICATION Spec
CONSTANTS
    CustomerIds = {1, 2}
    UserIds = {1, 2}
    Spellings <- MCSpellings
    Normalized <- MCNormalized
INVARIANTS
    NamesIndexed
    RecordsReload
PROPERTIES
    LoginsStable
