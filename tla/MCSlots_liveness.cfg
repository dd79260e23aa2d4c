SPECIFICATION FairSpec
CONSTANTS
  a = a
  b = b
  c = c
  q1 = q1
  q2 = q2
  q3 = q3
  s1 = s1
  s2 = s2
  NoSel = NoSel
  DefaultSel = DefaultSel
  Refs = {a, b}
  Sels = {s1}
  Reqs = {q1, q2, q3}
  RefOf <- MCRefOf
  K = 1
  Faults = {"start_abandoned"}
  Reuse = FALSE
PROPERTY EveryRequestReturns
