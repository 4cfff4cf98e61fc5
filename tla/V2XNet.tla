------------------------------- MODULE V2XNet -------------------------------
(***************************************************************************)
(* What the home agents (RSU_HA), the foreign agents (RSU_FA) and the OBU  *)
(* of the V2X handover application exchange: registration requests and     *)
(* replies, carried by UDP port 434 over raw IP sockets.                   *)
(*                                                                         *)
(* An agent is named by its address.  A foreign agent has two addresses,   *)
(* one on the V2X interface and one on the wired interface; both are its   *)
(* name, because no comparison in the code could confuse them.  The link   *)
(* (MAC) address of an agent is its name as well.                          *)
(***************************************************************************)
EXTENDS Naturals, FiniteSets

CONSTANTS
  HAs,           \* the home agents
  FAs,           \* the foreign agents
  Obus,          \* the link addresses of the vehicles
  FixedHost,     \* the host number 28 that the OBU gives itself
  SwappedHosts,  \* host numbers of the byte-swapped addresses a refresh makes
  Tunneling,     \* the configuration key V2XHO_Tunneling_Enable, at all agents
  SendMayFail,   \* sendto may return an error
  MaxIdent       \* bound: how many registration requests are ever made

ASSUME AgentsAssumption == HAs \cap FAs = {}
ASSUME HostAssumption == FixedHost \notin SwappedHosts
ASSUME FlagsAssumption == Tunneling \in BOOLEAN /\ SendMayFail \in BOOLEAN
ASSUME IdentAssumption == MaxIdent \in Nat

Agents == HAs \cup FAs

(***************************************************************************)
(* A home address is made from the /24 network of the agent that was heard *)
(* and a host number.                                                      *)
(***************************************************************************)
HomeAddrs == Agents \X ({FixedHost} \cup SwappedHosts)

(* Link addresses of vehicles and agents differ, and no agent has one of   *)
(* the addresses that vehicles give themselves.                            *)
ASSUME AddressAssumption ==
  Obus \cap Agents = {} /\ Agents \cap HomeAddrs = {}

Idents == 0 .. MaxIdent

(***************************************************************************)
(* Reply codes.  The code names thirty; the agents send the first only and *)
(* every receiver separates "accepted" (0 and 1) from all the others.      *)
(***************************************************************************)
Codes == {"accepted", "denied"}

(***************************************************************************)
(* The lifetime an HA writes into a reply: htonl(1800) stored in a 16-bit  *)
(* field of a little-endian machine.                                       *)
(***************************************************************************)
ConfiguredLifetime == 1800
Htonl(v) ==
  (v % 256) * 16777216 + ((v \div 256) % 256) * 65536
    + ((v \div 65536) % 256) * 256 + v \div 16777216
ReplyLifetime == Htonl(ConfiguredLifetime) % 65536

(* The payload of a request; identification is the clock of the request.   *)
RequestPayloads ==
  [home: HomeAddrs, ha: Agents, coa: Agents, ident: Idents]

(* The payload of a reply repeats the request's home, ha and ident.        *)
ReplyPayloads ==
  [code: Codes, home: HomeAddrs, ha: Agents, ident: Idents, lifetime: Nat]

(***************************************************************************)
(* A packet: link source, IP source and destination, payload.              *)
(***************************************************************************)
Requests ==
  [type: {"request"}, mac: Obus \cup Agents, saddr: HomeAddrs \cup Agents,
   daddr: Agents, req: RequestPayloads]
Replies ==
  [type: {"reply"}, mac: Agents, saddr: Agents, daddr: HomeAddrs \cup Agents,
   rep: ReplyPayloads]
Packets == Requests \cup Replies

(***************************************************************************)
(* The medium.  net is the set of all packets ever sent; a receiver takes  *)
(* any packet addressed to it, at any time, any number of times or never.  *)
(* Loss, delay, reordering and duplication are all in that.                *)
(***************************************************************************)
VARIABLE net

RequestsTo(a) == {p \in net : p.type = "request" /\ p.daddr = a}
RepliesTo(a)  == {p \in net : p.type = "reply" /\ p.daddr = a}

=============================================================================
