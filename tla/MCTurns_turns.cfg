SPECIFICATION FairSpec
CONSTANTS
  t1 = t1
  t2 = t2
  t3 = t3
  t4 = t4
  c1 = c1
  c2 = c2
  p = p
  q = q
  None = None
  Turns = {t1, t2, t3}
  Interactive = {t1, t2}
  Chats = {c1, c2}
  ChatOf <- MCChatOf
  Prompts = {p, q}
  Bodies <- MCBodies
  Methods = 2
  MaxAsks = 1
  MaxRestarts = 1
INVARIANT TypeOK
INVARIANT OneTurnPerChat
INVARIANT LineMoves
INVARIANT NeverReplays
INVARIANT OnlyApproved
INVARIANT AckedDecides
INVARIANT AskedWhileOpen
PROPERTY QueuePromise
PROPERTY EveryTurnEnds
CHECK_DEADLOCK FALSE
