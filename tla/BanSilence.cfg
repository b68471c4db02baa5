SPECIFICATION Spec
CONSTANTS
    g1 = g1  m1 = m1  m2 = m2  b1 = b1  u1 = u1  u2 = u2  k1 = k1  k2 = k2
    w1 = w1  w2 = w2  n1 = n1  n2 = n2  l1 = l1  l2 = l2  l3 = l3  p1 = p1  p2 = p2
    Nobody = Nobody  NoSocket = NoSocket
    Requests <- AllRequests
    KindOf <- Kinds
    MaxBan = 2
    DefaultBackoff = 1
    MaxAccidents = 1
    Supervisors <- AllSupervisors
    Sockets <- TwoSockets
    Wallets <- TwoWallets
    AllowedWallet = w1
    Nonces <- TwoNonces
    Logins <- AllLogins
    Patches <- AllPatches
    Fields <- Followed
    Standing <- OldLogin
    Scenarios <- OnlyBan
    BodiesOf <- SomeBodies
PROPERTY SilentWhileBanned
CHECK_DEADLOCK FALSE
