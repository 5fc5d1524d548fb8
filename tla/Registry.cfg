CONSTANTS
    Users = {u1, u2, u3}
    Services = {s1, s2}
    Addrs = {a1, a2}
    Endpoints = {e1}
    NoKey = NoKey
SYMMETRY UserSymmetry
SPECIFICATION Spec
INVARIANTS
    HandlersReachable
    OnePoolPerAddress
CHECK_DEADLOCK FALSE
