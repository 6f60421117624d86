\* Liveness; no symmetry.
CONSTANTS
  Token = {t1}
  NoToken = NoToken
  Attempt = {a1, a2}
  NoAttempt = NoAttempt
  Rotation = {r1}
  MaxVersion = 2
SPECIFICATION Spec
PROPERTY RedeemedIsStored
