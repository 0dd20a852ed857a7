--------------------------- MODULE MCIperfServer ---------------------------
(* Instances of IperfServer: who takes which id and which port.            *)
EXTENDS IperfServer

CONSTANTS c1, c2

DistinctIds == [c \in Clients |-> c]
SameId == [c \in Clients |-> c1]
OnePort == [c \in Clients |-> "port"]
OwnPort == [c \in Clients |-> c]
=============================================================================
