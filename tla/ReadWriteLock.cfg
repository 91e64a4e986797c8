CONSTANTS
  Threads = {t1, t2, t3}
  Handles = {h1, h2, h3}
SPECIFICATION Spec
INVARIANTS
  Exclusion
  NeverWaitsForItself
  NeverFatal
  NothingLeaks
