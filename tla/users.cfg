SPECIFICATION UsersSpec
CONSTANTS
    Clients = {c1, c2}
    Users = {u1, u2}
    Invites = {i1}
    MaxUsers = 3
    NoMember = NoMember
    Dates = {1125, 1154, 1230}
    Units = {"DAY", "WEEK", "MONTH", "QUARTER", "SEMESTER", "YEAR"}
    Intervals = {1, 5}
    MaxOccurrences = 100
    Months = {24, 29, 33, 34, 35, 36, 37, 38, 39, 40, 41, 42, 47, 48, 49, 61, 85}
    Editors = {e1, e2}
    Cards = {k1, k2, k3}
    Amounts = {a1, a2}
    Currencies = {cop, usd}
    NoPrice = NoPrice
SYMMETRY Symmetry
INVARIANTS OneOwner ChargesAreShown WalletIsKept
PROPERTIES JoinedByInvitation
