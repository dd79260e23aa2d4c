SPECIFICATION Spec
CONSTANTS
  t1 = t1
  t2 = t2
  t3 = t3
  t4 = t4
  c1 = c1
  c2 = c2
  p = p
  q = q
  None = None
  Turns = {t1, t4}
  Interactive = {t1, t4}
  Chats = {c1, c2}
  ChatOf <- MCChatOf
  Prompts = {p, q}
  Bodies <- MCBodies
  Methods = 2
  MaxAsks = 1
  MaxRestarts = 1
INVARIANT RequestsNameTheirCall
CHECK_DEADLOCK FALSE
