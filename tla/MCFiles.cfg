CONSTANTS
  Procs = {p1, p2}
  Tabs = {t1, t2}
  Files = {f1, f2, f3}
  NFd = 3
  Nil = Nil
  MaxRefs = 3
SPECIFICATION FilesSpec
INVARIANTS CountCovers NoUseAfterFree CopiesExact ListingSound
SYMMETRY Symmetry
