SPECIFICATION FairSpec
CONSTANTS
    p1 = p1
    p2 = p2
    a = a
    b = b
    Ports = {p1, p2}
    Passwords = {a, b}
    Pids = {1, 2, 3}
    Nobody = nobody
    MaxCommands = 3
    MaxKills = 1
    Worlds <- MCWorlds
INVARIANTS
    
    
    SignalsItsOwn

    
