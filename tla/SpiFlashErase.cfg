CONSTANTS
  Sectors = {s1, s2}
  Slots = {p1}
  Data = {d1}
  Die <- MCDie
  Blank = Blank
  Junk = Junk
  Faulty = FALSE
SPECIFICATION Spec
INVARIANTS
  EraseSuccessMeansErased
