\* Two processes with the file open, one of which may overtake the other; ids
\* up to four fit into a column.
SPECIFICATION Spec
SYMMETRY MCSymmetry
CONSTANTS
    Connections = {c1, c2}
    States <- MCStates
    NoState = NoState
    MaxInteger = 4
    IndexCount = 2
INVARIANTS
    TypeOK
    TablesMatchSnapshot
    MigrationsResume
    LoadsWhatIsStored
PROPERTIES
    SavesAreAtomic
