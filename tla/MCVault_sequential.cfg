SPECIFICATION Spec
CONSTANTS
    None = None
    User = {u1}
    Identity = {g1}
    Browser = {b1}
    Sid = {s1, s2}
    Key = {k1, k2, k3}
    Minutes = {1}
    IdleCap = 2
    Account = {a1, a2}
    Slot = {p1, p2}
    Secret = {x1, x2}
    Device = {d1}
    Request = {r1}
    PerBrowser = 1
    DefaultMinutes = 1
    Ops <- VaultOps
    Events = {"restart", "saveLost"}
SYMMETRY SequentialSymmetry
INVARIANTS TypeOK AllReadable KeysCommitted PasskeysHoldCurrentPassword
PROPERTIES RotationPreservesPlaintext PromisesSecretBook
