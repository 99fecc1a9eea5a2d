SPECIFICATION Spec
CONSTANTS
  Key = {k1}
  None = None
  Config <- FixedKeys
  max_write = 2
  max_wire = 2
INVARIANTS TypeOK ServedCopyIsCurrent NoStaleFlush
PROPERTIES RestartIsAtomic
