SPECIFICATION Spec
CONSTANTS
  Users = {admin, u1}
  Admin = admin
  Passwords = {w1, w2}
  Codes = {c1}
  Creds = {d1}
  Requests = {q1, q2}
  Postgres = TRUE
  MaxTokens = 6
  MaxBoots = 2
SYMMETRY RequestSymmetry
INVARIANTS ChallengeOnce PasswordChangeRevokes
PROPERTIES SecondFactor AdminKept
CHECK_DEADLOCK FALSE
