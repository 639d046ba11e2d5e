\* Every mode and environment.  A process whose main thread the kernel killed
\* inside nulleye_log may come to a standstill: no deadlock check.
SPECIFICATION Spec
CONSTANTS
  Modules <- AIAndFiles
  Plugins = {plug}
  Modes = {"daemon", "ncurses", "fallback"}
  StrictSeccomp = TRUE
INVARIANTS
  DaemonInv
  JoinsPrepared
PROPERTY ScopesKept
CHECK_DEADLOCK FALSE
