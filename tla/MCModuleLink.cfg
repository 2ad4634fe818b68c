SPECIFICATION Spec
CONSTANTS
  None = None
  e = e
  fa = fa
  fb = fb
  fc = fc
  gone = gone
  f = f
  x = x
  y = y
  q = q
  Entry = e
  Path <- MCPath
  Disks <- MCDisks
INVARIANTS LinkKeepsMeaning
PROPERTIES Implements
