SPECIFICATION Spec
CONSTANTS
    ch0 = ch0
    ch1 = ch1
    plain = plain
    p = p
    q = q
    rest = rest
    Register = {ch0, ch1, plain}
    Param = {p, q}
    Rest = rest
    ParamsOf <- MCParamsOf
    Modulus <- MCModulus
    DefaultVal <- MCDefaultVal
    ResetVal <- MCResetVal
    Configs <- MCConfigs
    RecursionLimit = 1
    Absent = Absent
    None = None
    TooWide = TooWide
INVARIANT
    ConfigureTakesEffect
