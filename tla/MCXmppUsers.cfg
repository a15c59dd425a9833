\* Two users with one resource each, a channel of the real size.
SPECIFICATION MCSpec
CONSTANTS
  u1 = u1
  u2 = u2
  j1 = j1
  j2 = j2
  Users = {u1, u2}
  Jids = {j1, j2}
  Bare <- OwnResources
  NoUser = NoUser
  Commands = {"never", "recap", "always"}
  JabberCap = 1
SYMMETRY Swap
INVARIANTS
  TypeOK
  ToldOnlyByPassword
  LastWishHolds
  OnlineUserIsOnline
