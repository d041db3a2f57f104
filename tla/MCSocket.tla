------------------------------ MODULE MCSocket -------------------------------
(* A client that connects twice and a server that opens two sockets. *)
EXTENDS Socket, TLC

CONSTANTS client, server

TwoHosts == {client, server}
OnlyServer == {server}
OnlyClient == {client}
ClientSends == [h \in TwoHosts |-> IF h = client THEN 3 ELSE 0]
ServerTwice == [h \in TwoHosts |-> IF h = client THEN 1 ELSE 2]
==============================================================================
