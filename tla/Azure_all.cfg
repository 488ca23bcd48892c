\* One machine, its id spelled in two ways; one of the two clients puts back what
\* it got.
SPECIFICATION Spec
CONSTANTS
    VMs = {v}
    Spellings = {lower, upper}
    NoName = NoName
    Clients = {c1, c2}
    Readers = {c1}
INVARIANTS
    Matched
