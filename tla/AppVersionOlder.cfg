\* Words of four values, two positive and two negative as signed numbers, so that
\* every combination of the orders of the two words occurs.
SPECIFICATION VersionSpec
CONSTANT
    UIntRange = 4
INVARIANT
    OlderVersionsRefused
