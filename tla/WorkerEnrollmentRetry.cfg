\* A token whose completion failed.
CONSTANTS
  Token = {t1, t2}
  NoToken = NoToken
  Attempt = {a1, a2}
  NoAttempt = NoAttempt
  Rotation = {r1}
  MaxVersion = 3
SPECIFICATION Spec
INVARIANT UsedTokenHasAttempt
