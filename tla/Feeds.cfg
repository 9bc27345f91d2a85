SPECIFICATION Spec
CONSTANTS
    Uuid = {u1, u2}
    Name = {n1, n2}
    Port = {p1}
    NoPort = NoPort
    MaxFaults = 1

 
PROPERTY ChangesTakeEffect
