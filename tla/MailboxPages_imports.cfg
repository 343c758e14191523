SPECIFICATION Spec
CONSTANTS
  Microsoft = {m1}
  Temp = {t1}
  Generic = {}
  Managers = {manager}
  Homes = {}
  Refreshes = {}
  MaxChanges = 2
  MaxSyncs = 2
  Files <- MCFiles
  None = None
  Addresses <- MCAddresses
  Urls <- MCUrls
  Jwts <- MCJwts
  ClientIds <- MCClientIds
  Tokens <- MCTokens
  Long <- MCLong
  Digits <- MCDigits
  Masked <- MCMasked
  Dashed <- MCDashed
  Legacy <- MCLegacy
  Fields <- MCFields
  Cut <- MCCut
  Dash <- MCDash
  ModeOf <- MCModeOf
  WorkerUrl <- MCWorkerUrl
  NoRow = NoRow
  TempApi <- MCTempApi
  SitePassword <- MCSitePassword
  TempDomains <- MCTempDomains
INVARIANTS TypeOK ImportedIsShown
PROPERTIES SnapshotsInOrder
