CONSTANTS
  Environments <- MCEnvironments
  Addresses <- MCAddresses
  ListedIn <- MCListedIn
  LocalAddresses = {"local"}
  Users = {"user", "admin"}
  Admins = {"admin"}
  MaxJobs = 2
SPECIFICATION Spec
INVARIANTS
  TypeOK
  RoutesAnswerTheirPaths
  HandlersHaveWhatTheyUse
  WorksForItsUser
  MappedAddressesPass
  CreatorsReadTheirJobs
