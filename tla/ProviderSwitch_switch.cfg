SPECIFICATION FairSpec
CONSTANTS
  Providers = {litellm, lmstudio}
  Models = {m1}
  Urls = {u1}
  Secrets = {s1}
  NoModel = none
  NoUrl = nourl
  NoSecret = nosecret
  Gateway = litellm
  FirstProvider = lmstudio
  DefaultProvider = litellm
  DefaultModel = m1
  Turns = {t1}
  CanProtect = TRUE
  MaxRequests = 2
  MaxCalls = 2
  MaxCrashes = 1
INVARIANTS
  TypeOK
  ExecutorFollowsCatalog
  ReplacedWorkersStop
PROPERTIES
  CallsUseChoice
  RestartKeepsChoice
  NobodyHangs
CHECK_DEADLOCK FALSE
