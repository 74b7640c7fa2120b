SPECIFICATION Spec
CONSTANTS
  None = None
  top = top  reply = reply  other = other  dm = dm  deny = deny  noise = noise
  Msg = {top, reply, other}
  Info <- FollowUp
  AllowedDM = {"U1"}
  AllowedChannels = {"C1"}
  RequireMention = TRUE
  TTL = 1
  MaxTime = 1
INVARIANTS FollowUpsNeedNoMention
