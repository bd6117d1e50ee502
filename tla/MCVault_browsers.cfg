SPECIFICATION Spec
CONSTANTS
    None = None
    User = {u1, u2}
    Identity = {g1, g2}
    Browser = {b1, b2}
    Sid = {s1, s2}
    Key = {k1, k2}
    Minutes = {1}
    IdleCap = 2
    Account = {a1}
    Slot = {p1}
    Secret = {x1}
    Device = {}
    Request = {r1, r2}
    PerBrowser = 1
    DefaultMinutes = 1
    Ops <- BrowserOps
    Events = {}
SYMMETRY ConcurrentSymmetry
INVARIANTS AllReadable UnlockedSessionOwnsKey OneVaultPerIdentity
