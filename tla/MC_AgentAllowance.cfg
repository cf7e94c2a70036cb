SPECIFICATION Spec
CONSTANTS
  l1 = l1
  owner = owner
  agent = agent
  guardian = guardian
  zero = zero
  seller = seller
  r1 = r1
  r2 = r2
  r3 = r3
  noref = noref
  Limiters <- MCLimiters
  Owner = owner
  Agent = agent
  Guardian = guardian
  ZeroAddress = zero
  Others <- MCOthers
  Refs <- MCRefs
  ZeroRef = noref
  Caps <- MCCaps
  MaxAmount = 3
  DayLength = 2
  MaxTime = 5
INVARIANTS
  DailyCapHolds
  QuoteIsExact
  RefPaysOnce
  TwoCapsInAnyDayLong
PROPERTIES
  StopIsFinal
  ImplementsBudget
