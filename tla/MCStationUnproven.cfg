SPECIFICATION Spec
CONSTANTS
  home = home
  wrong = wrong
  open = open
  Cred = {home, wrong, open}
  NoCred = none
  Accepted = {home}
  Open = {open}
  Stripped <- MCStripped
  FastAttempts = 2
  MaxBackoff = 1
  MaxTrouble = 0
INVARIANT UnprovenDoNotSurvive
