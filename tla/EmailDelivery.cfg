SPECIFICATION SmallSpec
CONSTANTS
  goodLicense = goodLicense
  badLicense1 = badLicense1
  badLicense2 = badLicense2
  onlyJob = onlyJob
  Licenses <- SmallLicenses
  Jobs <- SmallJobs
  Undeliverable <- SmallUndeliverable
  RecoveryDispatchers = {r1}
  LicenseDispatchers = {k1, k2}
  RetryDelay = 2
  Margin = 1
  RequestLifetime = 5
  TokenLifetime = 7
  KeyLifetime = 6
  PassLimit = 1
  MaxChanges = 2
  Nothing = Nothing
INVARIANTS
  TypeOK
  ClaimsExclusive
PROPERTIES
  NothingIsLost
  EmailArrives
  RequestReachesAll
  CopiesAreCleared
