SPECIFICATION Spec
CONSTANTS
    None = None
    User = {u1, u2}
    Identity = {g1, g2}
    Browser = {b1}
    Sid = {s1, s2}
    Key = {k1, k2, k3}
    Minutes = {1, 2}
    IdleCap = 3
    Account = {}
    Slot = {}
    Secret = {}
    Device = {}
    Request = {r1}
    PerBrowser = 1
    DefaultMinutes = 1
    Ops <- SettingOps
    Events = {"restart", "tick", "saveLost"}
SYMMETRY KeySymmetry
INVARIANTS UnlockedSessionOwnsKey AdmittedKeyOpensVault SettingReachesSession
PROPERTIES IdleSessionsAreLocked
