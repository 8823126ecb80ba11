CONSTANTS
    a = a  b = b  g1 = g1  g2 = g2  p1 = p1  c1 = c1  c2 = c2  bad = bad
    Users <- MCUsers
    Groups <- MCGroups
    Parents <- MCParents
    Commands <- MCCommands
    Plaintexts <- MCPlaintexts
    KeyStore <- MCKeyStore
    BadBytes = bad
    Overhead = 2
    MaxKeys = 2
    MaxSent = 2
SPECIFICATION Spec
INVARIANTS
    TypeOK
    
    DecryptUntampered
