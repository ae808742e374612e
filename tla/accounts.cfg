SPECIFICATION Spec
CONSTANTS
    Req = {r1, r2}
    User = {u1, u2, u3}
    Kid = {k1, k2}
    Phone = {f1, f2}
    None = None
    Ops <- AllKinds
    Solo <- ReadThenSync
SYMMETRY Symmetry
INVARIANTS
    TypeOK
    OneActivePerPhone
    IndexFollowsAccounts
PROPERTY ParentKeepsLogin
