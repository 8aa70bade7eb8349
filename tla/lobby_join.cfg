CONSTANTS
  ann = ann bob = bob cat = cat r1 = r1 r2 = r2 s1 = s1 s2 = s2 easy = easy None = None
  Users = {ann, bob, cat}
  RoomIds = {r1, r2}
  Slots = {s1, s2}
  MinPlayers = 2
  Inputs <- OpenOrPrivate
  Settings <- OneLargerNoAI
  Difficulties = {easy}
  Faults = {}
SPECIFICATION MCSpec
PROPERTY JoinKept
