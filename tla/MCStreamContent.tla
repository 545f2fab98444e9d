-------------------------- MODULE MCStreamContent --------------------------
(***************************************************************************)
(* The Stream Content Reader for TLC.  The client's sequence numbers wrap  *)
(* in the middle of what it sends, in both of its connections.             *)
(***************************************************************************)
EXTENDS StreamContent

MCLength == [client |-> 3, server |-> 0]
MCMaxConnections == [client |-> 2, server |-> 1]
MCFirstSeq ==
    [client |-> [c \in Connections("client") |-> SeqSpace - c - 1],
     server |-> [c \in Connections("server") |-> 4 + c]]
=============================================================================
