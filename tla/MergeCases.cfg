SPECIFICATION CaseSpec
CONSTANTS
  None = None
  k1 = k1
  k2 = k2
  Hashes <- MCHashes
  Times <- MCTimes
  Now <- MCNow
  Bodies <- MCBodies
  Credentials <- MCCredentials
INVARIANTS LocalEditKept RemoteEditKept DeletionKept ResyncIsQuiet CredentialKept
CHECK_DEADLOCK FALSE
