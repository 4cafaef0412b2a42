SPECIFICATION Spec
CONSTANTS
    x = x
    y = y
    u = u
    v = v
    r1 = r1
    r2 = r2
    Procs = {p1, p2, p3}
    Names = {x, y}
    Users = {u, v}
    Refs = {r1, r2}
    None = None
    Commands <- MCCommands
    MaxFaults = 2
    MaxCrashes = 1
INVARIANTS
    TypeOK
    PublishedProfilesHavePasswords
    LoginUsesOwnPassword
    SecretsAccountedFor
PROPERTIES
    UpdatesAreAtomic
