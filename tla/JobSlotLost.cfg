CONSTANTS
  JobIds = {j1, j2, j3, j4}
  MaxConcurrent = 2
  MaxQueued = 2
  MaxRetained = 2
  m1 = m1
  m2 = m2
  c1 = c1
  Msgs = {m1, m2}
  NoMsg = NoMsg
  ChatOf <- MCChat
  ChunksOf <- MCChunks
  Proactive = {m2}
  Routed = {m2}
  MaxAttempts = 2
  MaxEntries = 1
  MaxChunks = 2
  MaxCrashes = 1
  MaxLate = 1
  MaxPutOffs = 2
  r1 = r1
  r2 = r2
  r3 = r3
  r4 = r4
  s1 = s1
  ka = ka
  kb = kb
  kc = kc
  ke = ke
  Keys = {ka, kb, kc, ke}
  Adhoc = {ka, kb, kc}
  AlwaysAlive = {}
  Ephemeral = {ke}
  SurvivesKill = {ke}
  Reqs = {r1, r2, r3, r4}
  Sends = {s1}
  KeyOf <- MCKey
  Casts <- MCCasts
  MaxPtys = 1
  MaxRetries = 1
  RespawnRetries = 2
SPECIFICATION WorkSpec
INVARIANTS
  NoSlotLost
CHECK_DEADLOCK FALSE
