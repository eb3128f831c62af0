SPECIFICATION Spec
CONSTANTS
    ControlFlags <- MCControlFlags
    UseFlags <- MCUseFlags
    FlagValue <- MCFlagValue
    Files <- MCFiles
    Now <- MCNow
    Starts <- MCStarts
    Late <- MCLate
    HqcKeys <- MCHqcKeys
    CurveValues <- MCCurveValues
    MinimumOf <- MCMinimumOf
    MaxOutside = 1
    MaxInfos = 4
INVARIANT SensorsNotMixed
