CONSTANTS
    MAX_ACCOUNT = 3
    Users = {admin, u1, u2, u3}
    Admin = admin
    Passwords = {p0, p1}
    FIRST = p0
    NULL = NULL
    Connections = {c1, c2}
    NOBODY = NOBODY
    Orders = {cozy, eco}
    NONE = NONE
    Salts = {salt1, salt2}
    Size <- MCSize
    MAX_ITERATIONS = 5
    NO_PASSWORD = NO_PASSWORD
    admin = admin
    u1 = u1
    u2 = u2
    u3 = u3
    p0 = p0
    p1 = p1
    c1 = c1
    c2 = c2
    cozy = cozy
    eco = eco
    salt1 = salt1
    salt2 = salt2

SPECIFICATION AccessSpec
SYMMETRY Symmetric

INVARIANT TypeOK
INVARIANT AccessTypeOK
INVARIANT BootFits
INVARIANT AdminKept
INVARIANT OverrideDurable
INVARIANT AccountsHashed
INVARIANT AccountsOpen
PROPERTY ImplementsBook
PROPERTY ChangesAuthorised
