------------------------------ MODULE Protocols ------------------------------
(***************************************************************************)
(* The protocol tables of protocol.c.  A field is <<offset, width, type>>  *)
(* in bits.  Of the fields of type Number only those that some code in     *)
(* src/ names are kept (addresses of a maintenance point, lengths, one     *)
(* flag): the others behave like them.                                     *)
(***************************************************************************)
EXTENDS Naturals, FiniteSets

vlan_fields == [vid  |-> <<4, 12, "Number">>, tpid |-> <<16, 16, "NextHeader">>,
                vlan |-> <<0, 16, "Number">>]

udp_fields == [length |-> <<32, 16, "Number">>, checksum |-> <<48, 16, "Checksum">>]

ipv4_fields == [length |-> <<16, 16, "Number">>, ttl |-> <<64, 8, "TTL">>,
                protocol |-> <<72, 8, "NextHeader">>, checksum |-> <<80, 16, "Checksum">>,
                src |-> <<96, 32, "IPv4">>, dst |-> <<128, 32, "IPv4">>]

ipv6_fields == [length |-> <<32, 16, "Number">>, nextheader |-> <<48, 8, "NextHeader">>,
                hoplimit |-> <<56, 8, "TTL">>, src |-> <<64, 128, "IPv6">>,
                dst |-> <<192, 128, "IPv6">>, loc |-> <<192, 64, "Number">>,
                seq |-> <<292, 28, "SRv6Seq">>]

(* protocol_list: the fields and the length in octets of every protocol *)
header_fields ==
  [payload |-> <<>>,
   eth  |-> [dmac |-> <<0, 48, "MAC">>, smac |-> <<48, 48, "MAC">>,
             ethertype |-> <<96, 16, "NextHeader">>],
   svlan |-> vlan_fields, cvlan |-> vlan_fields,
   rtag |-> [seq |-> <<0, 32, "TSNSeq">>, tpid |-> <<32, 16, "NextHeader">>],
   ttag |-> [tstamp |-> <<0, 32, "TSNTstamp">>, tpid |-> <<32, 16, "NextHeader">>],
   mpls |-> [label |-> <<0, 20, "Number">>, bos |-> <<23, 1, "Number">>,
             ttl |-> <<24, 8, "TTL">>],
   dcw  |-> [seq |-> <<0, 32, "TSNSeq">>],
   tcw  |-> [tstamp |-> <<0, 32, "TSNTstamp">>],
   ipv4 |-> ipv4_fields, ipv6 |-> ipv6_fields,
   arp  |-> [srcmac |-> <<64, 48, "MAC">>, srcip |-> <<112, 32, "IPv4">>],
   udp  |-> udp_fields,
   tcp  |-> [checksum |-> <<128, 16, "Checksum">>],
   icmpv4 |-> [checksum |-> <<16, 16, "Checksum">>],
   icmpv6 |-> [checksum |-> <<16, 16, "Checksum">>],
   oam  |-> [session |-> <<60, 4, "Number">>],
   cfm  |-> [mel |-> <<0, 3, "Number">>]]

bytelength == [payload |-> 0, eth |-> 14, svlan |-> 4, cvlan |-> 4, rtag |-> 6, ttag |-> 6,
               mpls |-> 4, dcw |-> 4, tcw |-> 4, ipv4 |-> 20, ipv6 |-> 40, arp |-> 28,
               udp |-> 8, tcp |-> 20, icmpv4 |-> 8, icmpv6 |-> 8, oam |-> 8, cfm |-> 4]

ProtocolID == DOMAIN header_fields

(* The numbers by which a header names the protocol of the next one.  Tags  *)
(* that share an ethertype share a number.                                  *)
ethertype_from_id ==
  [svlan |-> "8021AD", cvlan |-> "8021Q", rtag |-> "FRER", ttag |-> "FRER",
   mpls |-> "MPLS_UC", ipv4 |-> "IP", ipv6 |-> "IPV6", arp |-> "ARP", cfm |-> "CFM"]

ipproto_from_id ==
  [eth |-> "ETHERNET", ipv4 |-> "IPIP", ipv6 |-> "IPV6", udp |-> "UDP", tcp |-> "TCP",
   mpls |-> "MPLS", icmpv4 |-> "ICMP", icmpv6 |-> "ICMPV6"]

(* protocol_get_field_by_type: the first field of the type, or none *)
NoField == "none"
protocol_get_field_by_type(id, type) ==
  LET fs == {f \in DOMAIN header_fields[id] : header_fields[id][f][3] = type}
  IN  IF fs = {} THEN NoField ELSE CHOOSE f \in fs : TRUE

HasFieldOfType(id, type) == protocol_get_field_by_type(id, type) # NoField

(* get_nexthdr of a protocol: a table, the same one for all protocols of a  *)
(* family, or none                                                          *)
get_nexthdr(id) ==
  CASE id \in {"eth", "svlan", "cvlan", "rtag", "ttag"} -> ethertype_from_id
    [] id \in {"ipv4", "ipv6"} -> ipproto_from_id
    [] OTHER -> <<>>

HasNextHeader(id) == get_nexthdr(id) # <<>>
NextHeaderField(id) == protocol_get_field_by_type(id, "NextHeader")

(* the bits of field g of a protocol all lie within field f of it *)
Covers(id, f, g) ==
  LET F == header_fields[id][f] G == header_fields[id][g]
  IN  F[1] <= G[1] /\ G[1] + G[2] <= F[1] + F[2]

Overlaps(id, f, g) ==
  LET F == header_fields[id][f] G == header_fields[id][g]
  IN  F[1] < G[1] + G[2] /\ G[1] < F[1] + F[2]

(* header_get_field_reader and header_get_field_writer: a value moves       *)
(* between two fields of one type, width and alignment                      *)
Compatible(id1, f1, id2, f2) ==
  LET F == header_fields[id1][f1] G == header_fields[id2][f2]
  IN  F[3] = G[3] /\ F[2] = G[2] /\ F[1] % 8 = G[1] % 8
=============================================================================
