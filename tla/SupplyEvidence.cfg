SPECIFICATION Spec
CONSTANTS
  Scopes = {r1, r2}
  TargetScope = r1
  MaxAge = 1
  MaxReviewAge = 1
  MaxDelay = 1
  MaxTime = 2
  MaxCollections = 2
  FreshRoles = 1
  MaxDefects = 1
  Versions = {v1, v2}
  MinimumHours = 1
  MaxExceptionHours = 1
  MaxCooldownTime = 3
  MaxExceptions = 1
  MaxAuthorization = 1
  MaxResponseTime = 2
  MaxSlips = 1
  Products = {p1, p2}
  MaxPortfolioAge = 1
  MaxIncidentHours = 2
  ExceptionFiles = {f1, f2}
  MaxExceptionLife = 1
  MaxRegisterAge = 1
  MaxRegisterTime = 2
  MaxEdits = 2
  Environments = {e1, e2}
  MaxInventoryAge = 1
  MaxRiskAge = 1
  Deadline = 1
  MaxRefreshTime = 2
  Hostnames = {n1}
  MaxObservationAge = 1
  MaxAssetListAge = 1
  MaxReviewDays = 1
  MaxSurfaceTime = 2
  MaxChanges = 2
INVARIANTS
  PassIsFounded
  ReceiptBacksBundle
  InstalledIsAged
  ReadyIsContained
  NothingAffectedIsClean
  PassedExceptionsAreBounded
  RemediatedEverywhere
  PassedSurfaceIsOwned
CHECK_DEADLOCK FALSE
