----------------------------- MODULE MCPackets -----------------------------
(***************************************************************************)
(* A packet on its way to its line, for TLC: its dissection, the analysis  *)
(* of its TCP stream, and the pipeline's state for the whole capture, each *)
(* explored by itself.                                                     *)
(***************************************************************************)
EXTENDS PacketDissection, TcpAnalysis, PacketPipeline, TlsDecryption

CONSTANT Parts  \* the parts explored
VARIABLE part   \* the one explored

-----------------------------------------------------------------------------
(* Packets: each kind of header around each kind of contents, length fields *)
(* that are true, too small and too large, tunnels up to and past the limit. *)

H(is, size, says) == [is |-> is, size |-> size, says |-> says, later |-> FALSE, plain |-> TRUE]
SizeOf(s) == FoldLeft(LAMBDA a, x : a + x.size, 0, s)
Around(is, size, c, more) == <<H(is, size, IF more < 0 THEN 0 ELSE size + SizeOf(c) + more)>> \o c
Datas == {<<H("data", n, 0)>> : n \in {0, 2}}
Transports == UNION {{<<H("TCP", 2, 0)>> \o d, <<H("TCP", 3, 0)>> \o d, <<H("TCP", 1, 0)>> \o d,
                      Around("UDP", 2, d, 0), Around("UDP", 2, d, -1), Around("UDP", 2, d, 1)} : d \in Datas}
Ip0 == UNION {{Around(is, 2, t, 0), Around(is, 3, t, 0), Around(is, 2, t, -1), Around(is, 2, t, 1)} :
                is \in {"IPv4", "IPv6"}, t \in Transports}
Ip1 == {Around("IPv4", 2, t, 0) : t \in Transports}
Tcp1 == <<H("TCP", 2, 0), H("data", 2, 0)>>
Exts == {Around("IPv6", 2, <<H(e, n, 0)>> \o Tcp1, 0) : e \in {"extension", "fragment"}, n \in {0, 2}}
  \cup {Around("IPv6", 2, <<H("extension", 2, 0), H("extension", 2, 0), H("extension", 2, 0)>> \o Tcp1, 0)}
  \cup {Around("IPv6", 2, <<[H("fragment", 2, 0) EXCEPT !.later = TRUE], H("data", 2, 0)>>, 0)}
  \cup {<<[H("IPv4", 2, 4) EXCEPT !.later = TRUE], H("data", 2, 0)>>}
  \cup {Around("IPv4", 2, <<H("ICMP", 2, 0)>> \o i, 0) : i \in Ip1 \cup {<<H("data", 2, 0)>>}}
Wrap1(i) == {Around("IPv4", 2, i, 0), Around("IPv4", 2, <<H("GRE", 3, 0)>> \o i, 0),
             Around("IPv4", 2, Around("UDP", 2, <<H("VXLAN", 2, 0), H("ethernet", 2, 0)>> \o i, 0), 0)}
Few == {Around("IPv4", 2, Tcp1, 0)}
Tunnels == UNION {Wrap1(i) : i \in Ip1 \cup {<<H("ARP", 2, 0)>>, <<H("other", 2, 0)>>}}
  \cup UNION {Wrap1(x) : x \in UNION {Wrap1(y) : y \in UNION {Wrap1(i) : i \in Few}}}
Nets == Ip0 \cup Exts \cup Tunnels \cup {<<H("ARP", 2, 0)>>, <<H("other", 2, 0)>>, <<H("discovery", 2, 0), H("data", 2, 0)>>}
Pad == <<H("padding", 2, 0)>>
LinksOf(n) == {<<H(l, 2, 0)>> : l \in {"ethernet", "cooked", "loopback", "hdlc", "802.11"}}
  \cup {<<H("raw", 0, 0)>>, <<H("radiotap", 2, 0), H("802.11", 2, 0)>>,
        <<H("ethernet", 2, 0), H("vlan", 2, 0)>>,
        <<H("ethernet", 2, 0), H("vlan", 2, 0), H("vlan", 2, 0), H("vlan", 2, 0)>>,
        <<H("ppp", 2, 0)>>, <<[H("802.11", 2, 0) EXCEPT !.plain = FALSE]>>,
        <<H("ethernet", 2, 0), H("pppoe", 2, 2 + SizeOf(n))>>}
MCCaptured == {<<H("ethernet", 2, 0)>> \o n \o Pad : n \in Nets}
  \cup UNION {UNION {{l \o n \o Pad, l \o n} : l \in LinksOf(n)} : n \in Few \cup {<<H("ARP", 2, 0)>>}}

-----------------------------------------------------------------------------
(* A capture of a web server, of a call with its media, and of names.      *)

E(host, port) == [host |-> host, port |-> port]
From(a, b, isTcp) == [from |-> a, to |-> b, tcp |-> isTcp, opens |-> FALSE, says |-> "", calls |-> <<>>,
                      rtp |-> FALSE, answers |-> <<>>, len |-> 1, rtt |-> 0]
A1 == E("a", 1)
B1 == E("b", 1)
B2 == E("b", 2)
C1 == E("c", 1)
Call(o, ends, m) == [id |-> "call", origin |-> o, ends |-> ends, media |-> m]
\* The time goes on, or back a little.
MCMoves == {-1, 2}
MCKinds ==
    { [From(A1, B1, TRUE) EXCEPT !.opens = TRUE], [From(A1, B1, TRUE) EXCEPT !.says = "HTTP", !.rtt = 5],
      [From(B1, A1, TRUE) EXCEPT !.rtt = 6], [From(B1, A1, TRUE) EXCEPT !.says = "TLS"],
      [From(A1, B1, FALSE) EXCEPT !.says = "SIP", !.calls = <<Call("caller", FALSE, <<C1>>)>>],
      [From(B1, A1, FALSE) EXCEPT !.says = "SIP", !.calls = <<Call("callee", FALSE, <<B2>>)>>],
      [From(B1, A1, FALSE) EXCEPT !.says = "SIP", !.calls = <<Call("callee", TRUE, <<>>)>>],
      [From(C1, B2, FALSE) EXCEPT !.rtp = TRUE],
      [From(B1, C1, FALSE) EXCEPT !.says = "DNS", !.answers = <<[address |-> "b", name |-> "x"]>>],
      [From(B1, C1, FALSE) EXCEPT !.answers = <<[address |-> "a", name |-> "x"], [address |-> "b", name |-> "y"]>>] }

-----------------------------------------------------------------------------
(* TLS connections, each doing some of what it may.                        *)

K(v, alpn, does) == [version |-> v, alpn |-> alpn, does |-> does]
Plan(kinds, logged, ends, recs, n) == [kinds |-> kinds, logged |-> logged, ends |-> ends, records |-> recs, uncaptured |-> n]
MCPlans ==
    {Plan(<<K(13, TRUE, {"split", "KeyUpdate"})>>, TRUE, FALSE, 10, 2),
     Plan(<<K(13, FALSE, {"KeyUpdate", "Alert"})>>, TRUE, FALSE, 9, 1),
     Plan(<<K(13, TRUE, {"HelloRetryRequest"})>>, FALSE, FALSE, 8, 1),
     Plan(<<K(12, TRUE, {"Alert", "headers", "begin of headers"})>>, TRUE, TRUE, 9, 2),
     Plan(<<K(12, FALSE, {})>>, FALSE, FALSE, 8, 1),
     Plan(<<K(13, TRUE, {"headers"}), K(12, FALSE, {})>>, TRUE, TRUE, 6, 1),
     Plan(<<K(0, FALSE, {}), K(13, TRUE, {})>>, TRUE, TRUE, 6, 1)}

-----------------------------------------------------------------------------
allVars == <<part, dissectionVars, tcpVars, pipelineVars, tlsVars>>

\* A part that is not explored is in one of its initial states.
PartsInit ==
    /\ part \in Parts
    /\ DissectionInit /\ (part # "dissection" => snap = 0 /\ packet = <<H("ethernet", 2, 0), H("ARP", 2, 0)>>)
    /\ TcpInit /\ (part # "analysis" => sent[1] = 0)
    /\ PipelineInit
    /\ TlsInit /\ (part # "tls" => plan.records = 10)

PartsNext ==
    \/ part = "dissection" /\ DissectionNext /\ UNCHANGED <<part, tcpVars, pipelineVars, tlsVars>>
    \/ part = "analysis" /\ TcpNext /\ UNCHANGED <<part, dissectionVars, pipelineVars, tlsVars>>
    \/ part = "pipeline" /\ PipelineNext /\ UNCHANGED <<part, dissectionVars, tcpVars, tlsVars>>
    \/ part = "tls" /\ TlsNext /\ UNCHANGED <<part, dissectionVars, tcpVars, pipelineVars>>

PartsSpec == PartsInit /\ [][PartsNext]_allVars


=============================================================================
