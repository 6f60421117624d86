\* Two tokens and three attempts, revocations and two rotations at any moment.
CONSTANTS
  Token = {t1, t2}
  NoToken = NoToken
  Attempt = {a1, a2, a3}
  NoAttempt = NoAttempt
  Rotation = {r1, r2}
  MaxVersion = 3
SPECIFICATION Spec
INVARIANTS
  TypeOK
  SameAttemptSameVersion
  OneActiveCredential
  StoredCredentialWorks
PROPERTY RevokedKeyStaysRevoked
SYMMETRY Symmetry
