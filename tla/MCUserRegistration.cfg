CONSTANTS
  Emails = {"a", "b"}
  Passwords = {"p", "q"}
  Requests = {r1, r2, r3}
  Storage = "prisma"
  MaxUsers = 3
  MaxFaults = 1
SPECIFICATION Spec
INVARIANTS
  TypeOK
  TokensNameTheirUser
PROPERTY AccountsKept
CHECK_DEADLOCK FALSE
