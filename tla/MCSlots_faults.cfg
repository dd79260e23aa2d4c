SPECIFICATION Spec
CONSTANTS
  a = a
  b = b
  c = c
  q1 = q1
  q2 = q2
  q3 = q3
  s1 = s1
  s2 = s2
  NoSel = NoSel
  DefaultSel = DefaultSel
  Refs = {a, b}
  Sels = {}
  Reqs = {q1, q3}
  RefOf <- MCRefOf
  K = 1
  Faults = {"start_abandoned", "api_refuses", "stop_cut_short", "cleanup_fails", "pod_lost", "stale_list", "restart"}
  Reuse = FALSE
INVARIANT OneOperationPerAgent
PROPERTY SlotsGrowWithinK
