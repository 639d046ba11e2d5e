\* The daemon where seccomp is unavailable; metrics clients may stay silent.
SPECIFICATION FairSpec
CONSTANTS
  Modules <- FilesOnly
  Plugins = {plug}
  Modes = {"daemon"}
  StrictSeccomp = FALSE
PROPERTIES
  StopCarriedOut
  LogCallsReturn
