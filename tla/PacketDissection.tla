-------------------------- MODULE PacketDissection --------------------------
(***************************************************************************)
(* The dissection of a packet (pcap_parser.cpp, link_layers.cpp): layer by *)
(* layer, tunnels unwrapped, within the captured bytes and within what the *)
(* length fields say; which header the packet's addresses, ports and       *)
(* payload come from.                                                      *)
(*                                                                         *)
(* A packet is a sequence of headers, then its data and padding.  Every    *)
(* header has FixedLen bytes it cannot do without.  It names what follows  *)
(* it.  Fields are known by the header they are read from, 0 if none.      *)
(***************************************************************************)
EXTENDS Integers, Sequences, FiniteSets, SequencesExt, FiniteSetsExt

CONSTANTS
    Packets,     \* the packets: sequences of Header
    FixedLen,    \* the bytes of a header that are always there
    MaxTunnels,  \* kMaxTunnels
    MaxTags,     \* the VLAN tags that are taken off
    MaxExts      \* the IPv6 extension headers that are walked

Links == {"ethernet", "cooked", "loopback", "raw", "ppp", "hdlc", "802.11", "radiotap"}
Ip == {"IPv4", "IPv6"}
Header == [is : Links \cup Ip \cup {"vlan", "pppoe", "discovery", "extension", "fragment", "ARP", "TCP",
                                    "UDP", "ICMP", "GRE", "VXLAN", "other", "data", "padding"},
           size : Nat,      \* its bytes
           says : Nat,      \* what its length field says it has with its contents, 0 if nothing
           later : BOOLEAN, \* a fragment after the first
           plain : BOOLEAN] \* not encrypted, fragmented or aggregated by the link

ASSUME PacketsAssumption == \A p \in Packets : p \in Seq(Header) /\ p # <<>>
ASSUME LimitsAssumption ==
    /\ FixedLen \in Nat \ {0} /\ MaxTunnels \in Nat /\ MaxTags \in Nat /\ MaxExts \in Nat

VARIABLES
    packet,  \* the packet
    snap,    \* the bytes of it that were captured
    layer,   \* the header that is read next
    end,     \* where the captured bytes of the layer end
    wire,    \* where they would end had all been captured
    steps,   \* the VLAN tags or extension headers so far
    pkt      \* PacketRecord

dissectionVars == <<packet, snap, layer, end, wire, steps, pkt>>

NoFields == [macs |-> 0, addresses |-> 0, protocol |-> 0, ports |-> 0, tunnels |-> <<>>,
             payloadLen |-> 0, payloadOffset |-> 0, payloadCaptured |-> 0, quoted |-> 0, shown |-> "none"]

StartOf(i) == FoldLeft(LAMBDA at, x : at + x.size, 0, SubSeq(packet, 1, i - 1))
At == StartOf(layer)
Remaining == end - At
h == packet[layer]
Named == packet[layer + 1].is

DissectionTypeOK ==
    /\ snap \in 0..StartOf(Len(packet) + 1)
    /\ layer \in 1..Len(packet) /\ end \in 0..snap /\ wire \in Nat
    /\ steps \in 0..Max({MaxTags, MaxExts})
    /\ DOMAIN pkt = DOMAIN NoFields
    /\ Len(pkt.tunnels) <= MaxTunnels
    /\ pkt.shown = "none" => At <= end

DissectionInit ==
    /\ packet \in Packets
    /\ snap \in 0..FoldLeft(LAMBDA at, x : at + x.size, 0, packet)
    /\ layer = 1 /\ end = snap /\ wire = snap /\ steps = 0
    /\ pkt = NoFields

Reading(kinds) == pkt.shown = "none" /\ h.is \in kinds

\* The packet is shown as what it was dissected to, and read no further.
Shown(as, fields) ==
    /\ pkt' = [fields EXCEPT !.shown = as]
    /\ UNCHANGED <<packet, snap, layer, end, wire, steps>>

\* What the header names is read, up to `to' of the captured bytes.
Enter(fields, to, onWire) ==
    /\ pkt' = fields
    /\ layer' = layer + 1
    /\ end' = to /\ wire' = onWire
    /\ UNCHANGED <<packet, snap>>

-----------------------------------------------------------------------------
(* The link layer.                                                         *)

\* dissectPacket(), the headers of one size; parseEthernet() in a tunnel.
parseLink ==
    /\ Reading({"ethernet", "cooked", "loopback", "raw"})
    /\ IF Remaining < (IF h.is = "raw" THEN 1 ELSE h.size)
       THEN Shown(IF layer = 1 THEN "unsupported" ELSE "truncated", pkt)
       ELSE /\ Enter(IF h.is = "ethernet" THEN [pkt EXCEPT !.macs = layer] ELSE pkt, end, wire)
            /\ steps' = 0

\* dissectPpp(), dissectPppSerial(), dissectCiscoHdlc(), dissectPppProtocol().
dissectPpp ==
    /\ Reading({"ppp", "hdlc"})
    /\ IF Remaining < h.size THEN Shown("truncated", pkt)
       ELSE IF Named \notin Ip /\ h.is = "ppp" THEN Shown("PPP", pkt)
       ELSE Enter(pkt, end, wire) /\ steps' = 0

\* dissectRadiotap(): a header of the length it says, at least the fixed one; a
\* frame check sequence at the end is only there if all was captured.
dissectRadiotap ==
    /\ Reading({"radiotap"})
    /\ IF Remaining < FixedLen \/ h.size > Remaining THEN Shown("invalid", pkt)
       ELSE Enter(pkt, IF snap = StartOf(Len(packet) + 1) /\ packet[Len(packet)].is = "padding"
                       THEN StartOf(Len(packet)) ELSE end, wire) /\ steps' = 0

\* dissectIeee80211(), dissectLlc(): addresses; what it carries if that can be read.
dissectIeee80211 ==
    /\ Reading({"802.11"})
    /\ IF Remaining < h.size THEN Shown("truncated", pkt)
       ELSE IF ~h.plain THEN Shown("802.11", [pkt EXCEPT !.macs = layer])
       ELSE Enter([pkt EXCEPT !.macs = layer], end, wire) /\ steps' = 0

-----------------------------------------------------------------------------
(* The network layer.                                                      *)

\* parseNetwork(): a VLAN tag is taken off.
parseVlan ==
    /\ Reading({"vlan"})
    /\ IF Remaining < h.size \/ steps = MaxTags THEN Shown("EtherType", pkt)
       ELSE Enter(pkt, end, wire) /\ steps' = steps + 1

\* dissectPppoe(): the length bounds what follows; a discovery message ends it.
dissectPppoe ==
    /\ Reading({"pppoe", "discovery"})
    /\ IF Remaining < h.size THEN Shown("truncated", pkt)
       ELSE IF h.is = "discovery" \/ Named \notin Ip THEN Shown("PPPoE", pkt)
       ELSE Enter(pkt, Min({end, At + h.says}), wire) /\ steps' = 0

\* Where the captured bytes of an IP packet end: its length field excludes the
\* link layer's padding; one that says nothing leaves the captured bytes.
TotalLen(h0, at) == IF h0.says < h0.size THEN end ELSE at + h0.says

\* parseIpv4(), parseIpv6(): its addresses; a fragment after the first has no
\* transport header.
parseIp ==
    /\ Reading(Ip)
    /\ IF Remaining < FixedLen THEN Shown("truncated", pkt)
       ELSE IF h.size < FixedLen \/ h.size > Remaining THEN Shown("invalid", pkt)
       ELSE IF h.later THEN Shown("fragment", [pkt EXCEPT !.addresses = layer, !.protocol = layer])
       ELSE /\ Enter([pkt EXCEPT !.addresses = layer, !.protocol = layer],
                     Min({end, TotalLen(h, At)}), TotalLen(h, At))
            /\ steps' = 0

\* parseIpv6(): the extension headers are walked.
parseExtension ==
    /\ Reading({"extension", "fragment"})
    /\ IF h.size = 0 \/ h.size > Remaining THEN Shown("truncated", [pkt EXCEPT !.protocol = layer])
       ELSE IF h.later THEN Shown("fragment", [pkt EXCEPT !.protocol = layer])
       ELSE IF steps = MaxExts THEN Shown("too many", [pkt EXCEPT !.protocol = layer])
       ELSE Enter([pkt EXCEPT !.protocol = layer], end, wire) /\ steps' = steps + 1

\* parseArp(): its addresses are those it asks for.
parseArp ==
    /\ Reading({"ARP"})
    /\ Shown("ARP", IF Remaining < h.size THEN pkt ELSE [pkt EXCEPT !.addresses = layer])

\* What no dissector reads further.
parseOther == Reading({"other", "data", "padding"}) /\ Shown("data", pkt)

-----------------------------------------------------------------------------
(* The transport layer.                                                    *)

\* describePayloadOf(): where the payload lies in the captured bytes.
Payload(fields, from, to) ==
    IF to > from THEN [fields EXCEPT !.payloadOffset = from, !.payloadCaptured = to - from] ELSE fields

\* parseTransport(), TCP: of a header that is too short the payload is unknown.
parseTcp ==
    /\ Reading({"TCP"})
    /\ IF Remaining < FixedLen THEN Shown("protocol", pkt)
       ELSE IF h.size < FixedLen THEN Shown("bogus", [pkt EXCEPT !.ports = layer])
       ELSE Shown("TCP", Payload([pkt EXCEPT !.ports = layer,
                                             !.payloadLen = Max({0, Max({wire, end}) - At - h.size})],
                                 At + h.size, end))

UdpLen == IF h.says > FixedLen THEN h.says - FixedLen ELSE 0
UdpEnd == Min({end, At + FixedLen + UdpLen})

\* UDP: its own length bounds the payload too; a VXLAN header in it is read.
parseUdp ==
    LET fields == [pkt EXCEPT !.ports = layer, !.payloadLen = UdpLen]
    IN  /\ Reading({"UDP"})
        /\ IF Remaining < FixedLen THEN Shown("protocol", pkt)
           ELSE IF Named = "VXLAN" /\ UdpEnd - At - FixedLen >= FixedLen
                THEN Enter(fields, UdpEnd, UdpEnd) /\ UNCHANGED steps
                ELSE Shown("UDP", Payload(fields, At + FixedLen, UdpEnd))

\* ICMP: a packet it quotes is described, by dissectQuotedPacket(), and none of its
\* fields become the packet's.
parseIcmp ==
    /\ Reading({"ICMP"})
    /\ Shown("ICMP", IF Remaining >= FixedLen /\ Named \in Ip THEN [pkt EXCEPT !.quoted = layer + 1] ELSE pkt)

-----------------------------------------------------------------------------
(* Tunnels.                                                                *)

\* Variant: the outer packet's ports stay.
TunnelOpened(fields) ==
    [fields EXCEPT !.tunnels = Append(@, fields.addresses), !.addresses = 0, !.protocol = 0,
                   !.payloadLen = 0]
\* enterTunnel(): the outer packet's addresses are the tunnel's, its other fields cleared.
enterTunnel(fields) ==
    [fields EXCEPT !.tunnels = Append(@, fields.addresses), !.addresses = 0, !.protocol = 0,
                   !.ports = 0, !.payloadLen = 0]

\* parseGre(), parseVxlan(): what they carry, unless they are nested too deep.
parseTunnel ==
    /\ Reading({"GRE", "VXLAN"})
    /\ IF Remaining < h.size THEN Shown("truncated", pkt)
       ELSE IF Named \notin Ip \cup {"ethernet"} \/ ~h.plain THEN Shown("tunnel", pkt)
       ELSE IF Len(pkt.tunnels) >= MaxTunnels THEN Shown("too deep", pkt)
       ELSE Enter(enterTunnel(pkt), end, wire) /\ steps' = 0

\* parseIpInIp(): an IP header behind an IP header, which is read by parseIp.
InIp == layer > 1 /\ packet[layer - 1].is \in Ip \cup {"extension", "fragment"} /\ pkt.addresses > 0
parseIpInIp ==
    /\ Reading(Ip) /\ InIp
    /\ IF Remaining < 1 THEN Shown("protocol", pkt)
       ELSE IF Len(pkt.tunnels) >= MaxTunnels THEN Shown("too deep", pkt)
       ELSE /\ pkt' = enterTunnel(pkt)
            /\ UNCHANGED <<packet, snap, layer, end, wire, steps>>

DissectionNext ==
    \/ parseLink \/ dissectPpp \/ dissectRadiotap \/ dissectIeee80211
    \/ parseVlan \/ dissectPppoe \/ (~InIp /\ parseIp) \/ parseExtension \/ parseArp \/ parseOther
    \/ parseTcp \/ parseUdp \/ parseIcmp \/ parseTunnel \/ parseIpInIp

DissectionSpec == DissectionInit /\ [][DissectionNext]_dissectionVars

-----------------------------------------------------------------------------
(* What the code must keep.                                                *)

IpBefore(i) == {j \in 1..(i - 1) : packet[j].is \in Ip}

\* Addresses, ports and payload shown of a packet are those of one packet, the
\* innermost that was reached: never those of an outer packet with an inner one's,
\* also where the inner one is cut off or malformed; and the tunnels are listed by
\* the packets around it, outermost first.
FieldsAreOfOnePacket ==
    /\ pkt.ports > 0 => pkt.addresses > 0 /\ pkt.addresses = Max(IpBefore(pkt.ports))
    /\ pkt.payloadLen > 0 \/ pkt.payloadCaptured > 0 => pkt.ports > 0
    /\ \A i \in DOMAIN pkt.tunnels :
          /\ packet[pkt.tunnels[i]].is \in Ip
          /\ pkt.addresses > 0 => pkt.tunnels[i] < pkt.addresses
          /\ \A j \in 1..(i - 1) : pkt.tunnels[j] < pkt.tunnels[i]
    /\ pkt.shown \notin {"none", "too deep"} /\ pkt.addresses > 0 /\ pkt.quoted = 0 =>
          {j \in IpBefore(layer) : j > pkt.addresses} = {}

\* A packet whose length fields say what it has.
Honest ==
    \A i \in DOMAIN packet :
        /\ packet[i].is \in Ip \cup {"UDP", "pppoe"} =>
              i + packet[i].says >= i /\ StartOf(i) + packet[i].says
                = StartOf(Len(packet) + (IF packet[Len(packet)].is = "padding" THEN 0 ELSE 1))
        /\ packet[i].size >= FixedLen \/ packet[i].is \in {"data", "padding"}

\* The payload handed to the describers is what was captured of the packet's data,
\* byte for byte, without padding; its length on the wire does not depend on how
\* much was captured.
PayloadIsTheData ==
    /\ pkt.payloadOffset + pkt.payloadCaptured <= snap
    /\ Honest /\ pkt.shown \in {"TCP", "UDP"} =>
          LET data == StartOf(pkt.ports + 1)
              last == StartOf(Len(packet) + (IF packet[Len(packet)].is = "padding" THEN 0 ELSE 1))
          IN  /\ pkt.payloadCaptured = Max({0, Min({snap, last}) - data})
              /\ pkt.payloadCaptured > 0 => pkt.payloadOffset = data
              /\ pkt.payloadLen = last - data

\* The fields of a packet's line are true of its bytes, whatever its length fields say
\* and whatever is in its tunnels.
FieldsAreTrue == DissectionTypeOK /\ FieldsAreOfOnePacket /\ PayloadIsTheData
=============================================================================
