CONSTANTS
  Threads = {t1, t2, t3}
  NoValue = NoValue
  Uses = {{"get_or_try_init"}}
  Outcomes = {"ok"}
  Builds = {FALSE}
SPECIFICATION FairSpec
INVARIANTS InitializesOnce
CHECK_DEADLOCK FALSE
