SPECIFICATION Spec
CONSTANTS
  a = a
  b = b
  c = c
  q1 = q1
  q2 = q2
  q3 = q3
  s1 = s1
  s2 = s2
  NoSel = NoSel
  DefaultSel = DefaultSel
  Refs = {a}
  Sels = {s1, s2}
  Reqs = {q1, q2}
  RefOf <- MCRefOf
  K = 1
  Faults = {"pod_fails", "start_abandoned", "wait_abandoned", "api_refuses", "stop_cut_short", "pod_lost"}
  Reuse = TRUE
INVARIANT SavedSelectionServed
