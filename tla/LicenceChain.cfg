CONSTANTS
  c1 = c1
  c2 = c2
  Callers <- MCCallers
  Calls <- MCCalls
SPECIFICATION Spec
INVARIANTS GuardIsPutBack OrderIsKept NoSecondRewrite
PROPERTIES OnlyLicensedRewrites GuardIsLifted
CHECK_DEADLOCK FALSE
