CONSTANTS
  Threads = {t1, t2}
  Engines = {e1, e2}
  Codes = {c1, c2}
  NumPages = 3
  PageSize = 2
  Sizes = {0, 2, 3}
  None = None
SYMMETRY JitSymmetry
SPECIFICATION Spec
INVARIANTS
  CodeStaysExecutable
  RegionHeldOnce
  EnginesFreeTheirMemory
