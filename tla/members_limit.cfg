\* Two requests, each inviting or adding, count the seats before either of them writes.
SPECIFICATION Spec
CONSTANTS
    Clients = {c1, c2}
    Users = {u1, u2, u3}
    Invites = {i1, i2}
    MaxUsers = 2
    NoMember = NoMember
SYMMETRY Symmetry
INVARIANT SeatsWithinLimit
