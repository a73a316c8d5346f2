CONSTANTS
    m1 = m1
    m2 = m2
    Emails <- MCEmails
    BadAddr <- MCBadAddr
    MaxAttempts = 3
    StoreResults <- MCStoringPeers
SPECIFICATION Spec
INVARIANT SentIsStored
