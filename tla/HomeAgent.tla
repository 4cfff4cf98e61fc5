------------------------------ MODULE HomeAgent -----------------------------
(***************************************************************************)
(* The home agent's receive thread, Th_v_V2XHO_RSU_HA_RAW_Receive, with    *)
(* the binding table it keeps (f_e_V2XHO_Registration_OBU_Add) and the     *)
(* host routes and IP-in-IP tunnels it installs, for every agent in HAs.   *)
(***************************************************************************)
EXTENDS V2XNet

CONSTANTS
  MaxBindings,     \* V2XHO_DEFAULT_RSU_HA_OBU_REGISTRATION_MAX, 128 in the code
  MaxRestarts      \* bound: how often an agent's process may be restarted

ASSUME MaxBindingsAssumption == MaxBindings \in Nat \ {0}
ASSUME MaxRestartsAssumption == MaxRestarts \in Nat

Slots == 1 .. MaxBindings
Empty == [isempty |-> TRUE]
Bindings == [isempty: {FALSE}, isconnected: BOOLEAN, iswithfa: BOOLEAN,
             req: RequestPayloads]

(* Next hop of a home address: the vehicle itself, a tunnel whose far end  *)
(* is a care-of address, or the IP source of the request.                  *)
NoRoute == [kind |-> "none"]
DirectRoute == [kind |-> "direct"]
TunnelRoute(coa) == [kind |-> "tunnel", to |-> coa]
ViaRoute(addr) == [kind |-> "via", to |-> addr]
Routes == {NoRoute, DirectRoute} \cup [kind: {"tunnel"}, to: Agents]
            \cup [kind: {"via"}, to: HomeAddrs \cup Agents]

VARIABLES
  haSlots,     \* reg_obu_ha: the binding table of each home agent
  haNum,       \* registered_obu_num
  haRoute,     \* the kernel's host route of each home address
  haTunnels,   \* the far ends of the ipip devices
  haSock,      \* raw_socket_ip is open
  haBound,     \* history: every binding <<agent, home, care-of>> ever made
  haRestarts   \* history: restarts so far

haVars == <<haSlots, haNum, haRoute, haTunnels, haSock, haBound, haRestarts>>

HAInit ==
  /\ haSlots = [a \in HAs |-> [i \in Slots |-> Empty]]
  /\ haNum = [a \in HAs |-> 0]
  /\ haRoute = [a \in HAs |-> [h \in HomeAddrs |-> NoRoute]]
  /\ haTunnels = [a \in HAs |-> {}]
  /\ haSock = [a \in HAs |-> TRUE]
  /\ haBound = {}
  /\ haRestarts = 0

Used(a) == {i \in Slots : ~haSlots[a][i].isempty}
SlotsOf(a, home) == {i \in Used(a) : haSlots[a][i].req.home = home}

(***************************************************************************)
(* The slot that f_e_V2XHO_Registration_OBU_Add chooses: the first one     *)
(* that holds the home address, otherwise the first empty one.             *)
(***************************************************************************)
First(S) == CHOOSE i \in S : \A j \in S : i <= j

\* Fault: the table is not searched for the home address.
ChosenSlot_NoLookup(a, home) == First(Slots \ Used(a))
\* Fault: an unknown home address takes the first slot, used or not.
ChosenSlot_Evict(a, home) ==
  IF SlotsOf(a, home) # {} THEN First(SlotsOf(a, home)) ELSE First(Slots)

ChosenSlot(a, home) ==
  IF SlotsOf(a, home) # {} THEN First(SlotsOf(a, home))
                           ELSE First(Slots \ Used(a))

\* Fault: the last slot is never given out.
Full_OffByOne(a) == haNum[a] = MaxBindings - 1

Full(a) == haNum[a] = MaxBindings

(* isconnected and iswithfa change only after a successful send.           *)
Connected(old, sent) == sent \/ (~old.isempty /\ old.isconnected)
WithFa(old, req, sent) ==
  IF sent THEN req.ha # req.coa ELSE ~old.isempty /\ old.iswithfa

(* The route for an accepted request and the tunnels it needs.             *)
RouteFor(req, saddr) ==
  IF req.ha = req.coa THEN DirectRoute
  ELSE IF Tunneling THEN TunnelRoute(req.coa) ELSE ViaRoute(saddr)
\* Fault: the tunnel device is named after the home address.
TunnelFor_Home(req) == IF req.ha # req.coa /\ Tunneling THEN {req.home} ELSE {}

TunnelFor(req) == IF req.ha # req.coa /\ Tunneling THEN {req.coa} ELSE {}

\* Fault: NLM_F_EXCL, as the foreign agent's ARP branch has it.
InstallRoute_Excl(old, new) == IF old = NoRoute THEN new ELSE old

(* NLM_F_CREATE|NLM_F_REPLACE: the new route takes the old one's place.    *)
InstallRoute(old, new) == new

\* Fault: the reply names the sender of the packet instead of the vehicle.
HAReply_Sender(a, p) ==
  [type |-> "reply", mac |-> a, saddr |-> a, daddr |-> p.saddr,
   rep |-> [code |-> "accepted", home |-> p.saddr, ha |-> p.req.ha,
            ident |-> p.req.ident, lifetime |-> ReplyLifetime]]

\* Fault: the reply is addressed to the care-of address.
HAReply_ToCare(a, p) ==
  [type |-> "reply", mac |-> a, saddr |-> a, daddr |-> p.req.coa,
   rep |-> [code |-> "accepted", home |-> p.req.home, ha |-> p.req.ha,
            ident |-> p.req.ident, lifetime |-> ReplyLifetime]]

(* The reply is addressed to the IP source of the request.                 *)
HAReply(a, p) ==
  [type |-> "reply", mac |-> a, saddr |-> a, daddr |-> p.saddr,
   rep |-> [code |-> "accepted", home |-> p.req.home, ha |-> p.req.ha,
            ident |-> p.req.ident, lifetime |-> ReplyLifetime]]

(***************************************************************************)
(* A request is accepted: bind, install route and tunnel, reply.  When the *)
(* reply cannot be sent the socket is closed, and it is never opened       *)
(* again; the connected flag then keeps its value.                         *)
(***************************************************************************)
HAAccept(a, p, sent) ==
  LET i == ChosenSlot(a, p.req.home)
      old == haSlots[a][i]
  IN /\ ~Full(a)
     /\ sent \in IF haSock[a] THEN {TRUE, ~SendMayFail} ELSE {FALSE}
     /\ haSlots' = [haSlots EXCEPT ![a][i] =
                      [isempty |-> FALSE, req |-> p.req,
                       isconnected |-> Connected(old, sent),
                       iswithfa |-> WithFa(old, p.req, sent)]]
     /\ haNum' = [haNum EXCEPT ![a] = IF old.isempty THEN @ + 1 ELSE @]
     /\ haRoute' = [haRoute EXCEPT ![a][p.req.home] =
                      InstallRoute(@, RouteFor(p.req, p.saddr))]
     /\ haTunnels' = [haTunnels EXCEPT ![a] = @ \cup TunnelFor(p.req)]
     /\ haSock' = [haSock EXCEPT ![a] = sent]
     /\ haBound' = haBound \cup {<<a, p.req.home, p.req.coa>>}
     /\ net' = IF sent THEN net \cup {HAReply(a, p)} ELSE net
     /\ UNCHANGED haRestarts

(* A full table: V2XHO_REG_OBU_LIST_ADD_ISFULL, for known vehicles too.    *)
HAIgnoreFull(a, p) ==
  /\ Full(a)
  /\ UNCHANGED <<haVars, net>>

HAHandleRequest(a, p) ==
  \/ \E sent \in BOOLEAN : HAAccept(a, p, sent)
  \/ HAIgnoreFull(a, p)

(***************************************************************************)
(* The process is restarted: the table is in memory only, main flushes the *)
(* routes, the tunnel devices stay.                                        *)
(***************************************************************************)
HARestart(a) ==
  /\ haRestarts < MaxRestarts
  /\ haRestarts' = haRestarts + 1
  /\ haSlots' = [haSlots EXCEPT ![a] = [i \in Slots |-> Empty]]
  /\ haNum' = [haNum EXCEPT ![a] = 0]
  /\ haRoute' = [haRoute EXCEPT ![a] = [h \in HomeAddrs |-> NoRoute]]
  /\ haSock' = [haSock EXCEPT ![a] = TRUE]
  /\ UNCHANGED <<haTunnels, haBound, net>>

HANext ==
  \E a \in HAs :
    \/ \E p \in RequestsTo(a) : HAHandleRequest(a, p)
    \/ HARestart(a)

-----------------------------------------------------------------------------
(***************************************************************************)
(* The home agents alone.  A request comes either from a vehicle, whose    *)
(* care-of address is the agent it talks to and whose source address is not*)
(* refreshed with its home address, or from a foreign agent, which forwards*)
(* only requests that name it as care-of address.                          *)
(***************************************************************************)
ClientRequests ==
  {p \in Requests :
     /\ p.daddr \in HAs /\ p.req.ha \in HAs /\ p.req.home[1] = p.req.ha
     /\ \/ /\ p.saddr = <<p.req.ha, FixedHost>>
           /\ p.mac \in Obus /\ p.req.coa = p.daddr
        \/ p.saddr \in FAs /\ p.mac = p.saddr /\ p.req.coa = p.saddr
           /\ p.daddr = p.req.ha}

Sent == {p.req.ident : p \in {q \in net : q.type = "request"}}

ClientSend(p) ==
  /\ p.req.ident = Cardinality(Sent) + 1
  /\ net' = net \cup {p}
  /\ UNCHANGED haVars

HASpecInit == HAInit /\ net = {}
HASpecNext == HANext \/ \E p \in ClientRequests : ClientSend(p)
HASpec == HASpecInit /\ [][HASpecNext]_<<haVars, net>>

(* The receive thread does not sleep for ever on a readable socket, so a   *)
(* request that reached the host is handled.                               *)
HAServe(k) ==
  \E a \in HAs : \E p \in RequestsTo(a) :
    p.req.ident = k /\ HAHandleRequest(a, p)
HAFairSpec == HASpec /\ \A k \in 1 .. MaxIdent : WF_<<haVars, net>>(HAServe(k))

-----------------------------------------------------------------------------
(* Type correctness of the home agents' state.                             *)
HATypeOK ==
  /\ haSlots \in [HAs -> [Slots -> Bindings \cup {Empty}]]
  /\ haNum \in [HAs -> 0 .. MaxBindings]
  /\ haRoute \in [HAs -> [HomeAddrs -> Routes]]
  /\ haTunnels \in [HAs -> SUBSET Agents]
  /\ haSock \in [HAs -> BOOLEAN]
  /\ haBound \in SUBSET (HAs \X HomeAddrs \X Agents)
  /\ haRestarts \in 0 .. MaxRestarts

(* A home address never has two bindings at one home agent, and the number *)
(* that decides "full" is the number of slots in use, which are the first  *)
(* ones of the table.                                                      *)
HATableSound ==
  \A a \in HAs :
    /\ \A i, j \in Used(a) :
         haSlots[a][i].req.home = haSlots[a][j].req.home => i = j
    /\ Used(a) = 1 .. haNum[a]

(* The kernel route of a bound home address is the one its current binding *)
(* asks for, whatever requests came before: straight to the vehicle when   *)
(* it is at home, else into a tunnel that exists, or via the care-of agent.*)
RouteFits(a, i) ==
  LET req == haSlots[a][i].req
      route == haRoute[a][req.home]
  IN /\ req.ha = req.coa => route = DirectRoute
     /\ req.ha # req.coa /\ Tunneling =>
          route = TunnelRoute(req.coa) /\ req.coa \in haTunnels[a]
     /\ req.ha # req.coa /\ ~Tunneling =>
          route.kind = "via" /\ route.to \in {req.coa, <<req.ha, FixedHost>>}
HARouteAgrees == \A a \in HAs : \A i \in Used(a) : RouteFits(a, i)

(* Every reply on the network stands for a binding its sender made, and as *)
(* long as no process was restarted that home address is still bound there.*)
HARepliesBacked ==
  \A p \in net : p.type = "reply" /\ p.saddr \in HAs =>
    /\ \E coa \in Agents : <<p.saddr, p.rep.home, coa>> \in haBound
    /\ haRestarts = 0 => SlotsOf(p.saddr, p.rep.home) # {}

(* A slot marked connected has been answered: its agent sent a reply for   *)
(* that home address.  A failed send never sets the mark.                  *)
HAConnectedWasTold ==
  \A a \in HAs : \A i \in Used(a) :
    haSlots[a][i].isconnected =>
      \E p \in net : /\ p.type = "reply" /\ p.saddr = a
                     /\ p.rep.home = haSlots[a][i].req.home

(* Only a restart takes a home address out of the table or moves it to     *)
(* another slot: no registration, however the table fills up, evicts one.  *)
HABindingStable ==
  [][haRestarts' = haRestarts =>
       \A a \in HAs : \A i \in Used(a) :
         /\ ~haSlots'[a][i].isempty
         /\ haSlots'[a][i].req.home = haSlots[a][i].req.home]_haVars

(* The table as a book, and the replies as what was acknowledged.          *)
Lines(a) ==
  {<<haSlots[a][i].req.home, haSlots[a][i].req.coa>> : i \in Used(a)}
Acknowledged ==
  {<<p.saddr, p.rep.home, p.rep.ident>> :
     p \in {q \in net : q.type = "reply" /\ q.saddr \in HAs}}
Book == INSTANCE Registry WITH
          Keepers <- HAs, Homes <- HomeAddrs, Cares <- Agents,
          Tickets <- Idents, Capacity <- MaxBindings,
          book <- [a \in HAs |-> Lines(a)], acks <- Acknowledged

(* Each home agent keeps its registry: the slots and the counter are a book*)
(* with one line per home address and room for MaxBindings of them, and a  *)
(* reply goes out only with the binding it acknowledges.                   *)
HAImplementsRegistry == Book!RegistrySpec

(* Every request that reached a home agent is answered in the end, unless  *)
(* the table has no free slot or a failed send has closed the socket.      *)
HAAnswers ==
  \A k \in 1 .. MaxIdent :
    k \in Sent ~>
      \/ \E p \in net : p.type = "reply" /\ p.rep.ident = k
      \/ \E a \in HAs : Used(a) = Slots \/ ~haSock[a]

=============================================================================
