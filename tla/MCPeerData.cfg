CONSTANTS
    p1 = p1
    p2 = p2
    p3 = p3
    p4 = p4
    p5 = p5
    Absent = Absent
    PeerOrder <- MCPeerOrder
    Hosts <- MCHosts
    NodeInfos <- MCNodeInfos
    ScoreRows <- MCScoreRows
    KNOWN_HUBS <- MCKnownHubs
    MIN_SEEN = 1
    MaxListed = 1
    MaxSuspects = 1

SPECIFICATION Spec

INVARIANTS
    TypeOK
    PeerAddressesFaithful
    ColocationGroups
    

CHECK_DEADLOCK FALSE
