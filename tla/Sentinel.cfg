CONSTANTS Part = {"audit", "registry", "monitor"}
MaxEntries = 3  MaxAltered = 2  Stamp = {1}  Actor <- MCActor  SAFE_MODE_ACTIVE = FALSE
Agent = {a1, a2}  BadAgent = bad  MaxNow = 2  Interval = {0, 30}
Watched = {a1}  Thread = {t1, t2}
Configs <- MCConfigs  Observations <- MCObservations  Injected <- MCInjected
SPECIFICATION SentinelSpec
INVARIANTS VerifyFindsFirstAltered ProbesLogged NoResponseWithoutCause
PROPERTY NoReset
SYMMETRY ThreadSymmetry
CHECK_DEADLOCK FALSE
