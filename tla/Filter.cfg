SPECIFICATION Spec
CONSTANTS
  None = None
  top = top  reply = reply  other = other  dm = dm  deny = deny  noise = noise
  Msg = {top, other, dm, deny, noise}
  Info <- Mixed
  AllowedDM = {"U1"}
  AllowedChannels = {"C1"}
  RequireMention = FALSE
  TTL = 1
  MaxTime = 3
INVARIANTS TypeOK AcceptedOncePerWindow DuplicatesWereJudged SessionsStayInPolicy
