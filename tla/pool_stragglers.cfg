SPECIFICATION Spec
CONSTANTS
  u1 = u1
  u2 = u2
  h1 = h1
  h2 = h2
  h3 = h3
  k1 = k1
  k2 = k2
  k3 = k3
  c1 = c1
  c2 = c2
  Users <- MCUsers
  Handles <- MCHandles
  Connections <- MCConnections
  Credentials <- MCCredentials
  Backends = {"postgres_self", "sqlite"}
  SelfHosted = {"postgres_self"}
  RemoteAccess = {"postgres_self"}
  CountModulus = 8
  AutoServerShutdown = TRUE
  Stragglers = TRUE
  NoHandle = NoHandle
  NoConnection = NoConnection
  NoCredential = NoCredential
  NoBackend = NoBackend
SYMMETRY Symmetry
INVARIANTS
  TypeOK
  CredentialsCurrent
  FinishedNeverNull
