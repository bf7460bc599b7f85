CONSTANTS
  Emails = {"a", "b"}
  Passwords = {"p", "q"}
  Requests = {r1, r2, r3}
  Storage = "memory"
  MaxUsers = 3
  MaxFaults = 1
SPECIFICATION Spec
INVARIANT OneUserPerAddress
CHECK_DEADLOCK FALSE
