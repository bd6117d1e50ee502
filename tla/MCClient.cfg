SPECIFICATION ClientSpec
CONSTANTS
    None = None
    Typo = Typo
    User = {u1}
    Identity = {g1}
    Browser = {b1}
    Sid = {s1}
    Key = {k1, k2}
    Minutes = {1}
    IdleCap = 2
    Account = {}
    Slot = {}
    Secret = {}
    Device = {d1, d2}
    Request = {r1}
    PerBrowser = 1
    DefaultMinutes = 1
    Ops = {"googleStart", "googleCallback", "setup", "unlock", "me", "lock", "logout", "authenticateOptions", "authenticate", "change", "settings", "registerOptions", "register", "removeDevice"}
    Events = {"restart", "tick"}
 
PROPERTIES TypingOpens
