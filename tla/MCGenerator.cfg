SPECIFICATION GeneratorSpec
CONSTANTS
    Class = {upper, lower, digit}
    MinLength = 3
    MaxLength = 5
    DefaultLength = 4
    Requested = {0, 2, 3, 5, 6}
    Unset = Unset
INVARIANTS LengthWithinLimits ExactlyTheChosenClasses
