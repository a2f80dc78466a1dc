------------------------------- MODULE Packet -------------------------------
(***************************************************************************)
(* The packet views of bypass-io/src/backend/dpdk.rs.  A packet is its     *)
(* length and the header fields that decide how it is read; a field that   *)
(* lies behind the end of the packet is in the record and must not be      *)
(* looked at.                                                              *)
(***************************************************************************)
EXTENDS Naturals

ETHERNET_HEADER_LEN == 14
IPV4_MIN_HEADER_LEN == 20
UDP_HEADER_LEN == 8
IP_PROTO_UDP == 17

EtherType == {"Ipv4", "Ipv6", "Arp", "Other"}
Frame == [len : Nat, etherType : EtherType, version : 0..15, ihl : 0..15, protocol : 0..255]

(* EthernetHeader::parse                                                   *)
HasEthernet(f) == f.len >= ETHERNET_HEADER_LEN

(* Mutant: options are not counted.                                        *)
HeaderLenFixed(f) == IPV4_MIN_HEADER_LEN

(* ihl_words.checked_mul(4), which fits a u8 for every ihl of four bits.   *)
HeaderLen(f) == f.ihl * 4

(* Ipv4Header::parse, of what is behind the Ethernet header.               *)
ParsesIpv4(f) ==
  /\ f.len > ETHERNET_HEADER_LEN
  /\ f.version = 4
  /\ HeaderLen(f) >= IPV4_MIN_HEADER_LEN
  /\ f.len >= ETHERNET_HEADER_LEN + HeaderLen(f)

(* Packet::ipv4                                                            *)
HasIpv4(f) == HasEthernet(f) /\ f.etherType = "Ipv4" /\ ParsesIpv4(f)

(* Packet::udp, with UdpHeader::parse                                      *)
UdpOffset(f) == ETHERNET_HEADER_LEN + HeaderLen(f)
HasUdp(f) ==
  /\ HasIpv4(f)
  /\ f.protocol = IP_PROTO_UDP
  /\ f.len >= UdpOffset(f) + UDP_HEADER_LEN

(* Packet::udp_payload: whether there is one, and its length, which runs   *)
(* to the end of the packet whatever the UDP header says.                  *)
PayloadOffset(f) == UdpOffset(f) + UDP_HEADER_LEN
HasPayload(f) == HasIpv4(f) /\ f.protocol = IP_PROTO_UDP /\ f.len >= PayloadOffset(f)
PayloadLen(f) == f.len - PayloadOffset(f)

-----------------------------------------------------------------------------
(* External: how a sender builds a frame, an IPv4 header with so many      *)
(* words of options or none at all, a UDP header or another one, and how   *)
(* much of it arrives.                                                     *)
Built == [ip : BOOLEAN, options : 0..10, udp : BOOLEAN, len : Nat]

Wire(b) ==
  [len |-> b.len,
   etherType |-> IF b.ip THEN "Ipv4" ELSE "Arp",
   version |-> IF b.ip THEN 4 ELSE 0,
   ihl |-> IF b.ip THEN 5 + b.options ELSE 0,
   protocol |-> IF b.udp THEN IP_PROTO_UDP ELSE 6]

(* Where the UDP header of the built frame ends.                           *)
UdpEnd(b) == 14 + (20 + 4 * b.options) + 8
=============================================================================
