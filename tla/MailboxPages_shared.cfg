SPECIFICATION Spec
CONSTANTS
  Microsoft = {}
  Temp = {t1}
  Generic = {}
  Managers = {manager}
  Homes = {home}
  Refreshes = {}
  MaxChanges = 2
  MaxSyncs = 1
  Files <- MCFiles
  None = None
PROPERTIES RealSecretsKept 
