---------------------------- MODULE ForeignAgent ----------------------------
(***************************************************************************)
(* The foreign agent's receive thread, Th_v_V2XHO_RSU_FA_RAW_Receive, for  *)
(* every agent in FAs: it forwards the requests of visiting vehicles to    *)
(* their home agents, relays the replies, and prepares routes, the tunnel  *)
(* to the home agent and the policy rule that sends a visitor into it.     *)
(*                                                                         *)
(* Both search loops of the code end at the first entry: the request loop  *)
(* breaks whether or not the link address matches, so entry 0 is the only  *)
(* one ever written.  The table is one slot per agent here.                *)
(*                                                                         *)
(* A visitor's tunnel, route and rule are five calls of the kernel; each is*)
(* a step of its own, because a restart between two of them leaves in the  *)
(* kernel what the calls before it did.                                    *)
(***************************************************************************)
EXTENDS V2XNet

CONSTANTS
  MaxVisitorNum,   \* bound: registered_obu_num is not counted any further
  MaxFARestarts    \* bound: how often an agent's process may be restarted

ASSUME FABoundsAssumption ==
  MaxVisitorNum \in Nat \ {0} /\ MaxFARestarts \in Nat

(* Entry 0 of reg_obu_fa, all zeros at first.                              *)
Vacant == [vacant |-> TRUE]
Visitors == [vacant: {FALSE}, mac: Obus \cup Agents, req: RequestPayloads,
             isconnected: BOOLEAN, isrouted: BOOLEAN]

VARIABLES
  faSlot,      \* reg_obu_fa[0] of each foreign agent
  faNum,       \* registered_obu_num
  faRoutes,    \* home addresses with a host route on the V2X interface
  faPc,        \* the thread waits ("idle"), or the call it makes next
  faTunnel,    \* per home agent: its ipip device
  faTable,     \* per home agent: the default route's next hop in its table
  faRules,     \* per home agent: the source addresses sent into its table
  faSock,      \* raw_socket_ip is open
  faRead,      \* history: the requests that were ever taken off the socket
  faRestarts,  \* history: restarts so far
  faCut        \* history: the jobs that a restart cut off, and before what

faKernel == <<faTunnel, faTable, faRules>>
faHistory == <<faRead, faRestarts, faCut>>
faVars == <<faSlot, faNum, faRoutes, faPc, faKernel, faSock, faHistory>>

NoHome == <<>>

(* The calls that a known vehicle's request leads to, in their order.      *)
Calls == {"tunnel", "link", "route", "delrule", "newrule", "send"}

FAInit ==
  /\ faSlot = [f \in FAs |-> Vacant]
  /\ faNum = [f \in FAs |-> 0]
  /\ faRoutes = [f \in FAs |-> {}]
  /\ faPc = [f \in FAs |-> "idle"]
  /\ faTunnel = [f \in FAs |-> [ha \in Agents |-> "none"]]
  /\ faTable = [f \in FAs |-> [ha \in Agents |-> NoHome]]
  /\ faRules = [f \in FAs |-> [ha \in Agents |-> {}]]
  /\ faSock = [f \in FAs |-> TRUE]
  /\ faRead = {}
  /\ faRestarts = 0
  /\ faCut = {}

IsConnected(f) == ~faSlot[f].vacant /\ faSlot[f].isconnected
IsRouted(f) == ~faSlot[f].vacant /\ faSlot[f].isrouted
IsRegisted(f, mac) == ~faSlot[f].vacant /\ faSlot[f].mac = mac

\* Fault: the care-of address is not compared with the home agent.
Visiting_Any(req) == TRUE

(* The vehicle asks for a care-of address away from its home agent.        *)
Visiting(req) == req.coa # req.ha

(* The outcomes of a sendto on an agent's socket.                          *)
SendOutcomes(f) == IF faSock[f] THEN {TRUE, ~SendMayFail} ELSE {FALSE}

\* Fault: the forwarded request asks the home agent to bind directly.
ForwardedRequest_Direct(f, req) ==
  [type |-> "request", mac |-> f, saddr |-> f, daddr |-> req.ha,
   req |-> [req EXCEPT !.coa = req.ha]]

(* f_i_V2XHO_RSU_FA_Send_Registration_Request: the visitor's payload, from *)
(* the agent's wired address to the home agent.                            *)
ForwardedRequest(f, req) ==
  [type |-> "request", mac |-> f, saddr |-> f, daddr |-> req.ha, req |-> req]

\* Fault: the reply is built from the agent's own address.
RelayedReply_Home(f, rep) ==
  [type |-> "reply", mac |-> f, saddr |-> f, daddr |-> rep.home,
   rep |-> [rep EXCEPT !.home = <<f, @[2]>>]]

(* f_i_V2XHO_RSU_FA_Send_Registration_Reply                                *)
RelayedReply(f, rep) ==
  [type |-> "reply", mac |-> f, saddr |-> f, daddr |-> rep.home, rep |-> rep]

(* One send on f's socket; a failure closes the socket for good.           *)
FASend(f, p) ==
  \E sent \in SendOutcomes(f) :
    /\ faSock' = [faSock EXCEPT ![f] = sent]
    /\ net' = IF sent THEN net \cup {p} ELSE net

FASilent == UNCHANGED <<faSock, net>>

(* A request whose link source is the entry's: the check_mac == 6 branch.  *)
(* The entry takes the request over; what is done for it follows.          *)
FARequestRegisted(f, p) ==
  /\ IsRegisted(f, p.mac)
  /\ faSlot' = [faSlot EXCEPT ![f].req = p.req]
  /\ faPc' = [faPc EXCEPT ![f] = IF ~Visiting(p.req) THEN "idle"
                                 ELSE IF Tunneling THEN "tunnel" ELSE "send"]
  /\ FASilent
  /\ UNCHANGED <<faNum, faRoutes, faKernel, faRestarts, faCut>>

-----------------------------------------------------------------------------
(***************************************************************************)
(* The calls for the request in the entry: nobody else writes the entry    *)
(* before they are done, for they are made by the thread that reads.       *)
(***************************************************************************)
FAGoes(f, from, to) ==
  /\ faPc[f] = from /\ faPc' = [faPc EXCEPT ![f] = to]
  /\ UNCHANGED <<faSlot, faNum, faRoutes, faHistory>>

(* SIOCADDTUNNEL, or SIOCCHGTUNNEL when there is such a device.            *)
FATunnel(f) ==
  /\ FAGoes(f, "tunnel", "link")
  /\ faTunnel' = [faTunnel EXCEPT ![f][faSlot[f].req.ha] =
                    IF @ = "none" THEN "down" ELSE @]
  /\ FASilent /\ UNCHANGED <<faTable, faRules>>

FALinkUp(f) ==
  /\ FAGoes(f, "link", "route")
  /\ faTunnel' = [faTunnel EXCEPT ![f][faSlot[f].req.ha] = "up"]
  /\ FASilent /\ UNCHANGED <<faTable, faRules>>

\* Fault: the default route goes via the care-of address.
FARoute_Care(f) ==
  /\ FAGoes(f, "route", "delrule")
  /\ faTable' = [faTable EXCEPT ![f][faSlot[f].req.ha] = faSlot[f].req.coa]
  /\ FASilent /\ UNCHANGED <<faTunnel, faRules>>

(* NLM_F_REPLACE: the one default route of the table named after the agent.*)
FARoute(f) ==
  /\ FAGoes(f, "route", "delrule")
  /\ faTable' = [faTable EXCEPT ![f][faSlot[f].req.ha] = faSlot[f].req.home]
  /\ FASilent /\ UNCHANGED <<faTunnel, faRules>>

\* Fault: the old rule stays.
FADeleteRule_Not(f) ==
  FAGoes(f, "delrule", "newrule") /\ FASilent /\ UNCHANGED faKernel

(* RTM_DELRULE names the table only: one of its rules goes, if it has one. *)
FADeleteRule(f) ==
  LET ha == faSlot[f].req.ha
  IN /\ FAGoes(f, "delrule", "newrule")
     /\ IF faRules[f][ha] = {} THEN UNCHANGED faRules
        ELSE \E home \in faRules[f][ha] :
               faRules' = [faRules EXCEPT ![f][ha] = @ \ {home}]
     /\ FASilent /\ UNCHANGED <<faTunnel, faTable>>

FANewRule(f) ==
  LET req == faSlot[f].req
  IN /\ FAGoes(f, "newrule", "send")
     /\ faRules' = [faRules EXCEPT ![f][req.ha] = @ \cup {req.home}]
     /\ FASilent /\ UNCHANGED <<faTunnel, faTable>>

FAForward(f) ==
  LET req == faSlot[f].req
  IN /\ FAGoes(f, "send", "idle")
     /\ IF req.coa = f THEN FASend(f, ForwardedRequest(f, req)) ELSE FASilent
     /\ UNCHANGED faKernel

FAWork(f) ==
  \/ FATunnel(f) \/ FALinkUp(f) \/ FARoute(f)
  \/ FADeleteRule(f) \/ FANewRule(f) \/ FAForward(f)

-----------------------------------------------------------------------------
\* Fault: the send is moved to the branch of known vehicles.
ForwardsFirst_Never(f, req) == FALSE

(* A newcomer is forwarded unless the overwritten entry was connected.     *)
ForwardsFirst(f, req) == ~IsConnected(f) /\ Visiting(req) /\ req.coa = f

(***************************************************************************)
(* A request from any other link address: the check_mac == 10 branch takes *)
(* the entry over and keeps its isrouted and isconnected.                  *)
(***************************************************************************)
FARequestNewcomer(f, p) ==
  LET req == p.req
      routes == Visiting(req) /\ ~IsRouted(f)
  IN /\ ~IsRegisted(f, p.mac)
     /\ faNum' = [faNum EXCEPT ![f] = IF @ < MaxVisitorNum THEN @ + 1 ELSE @]
     /\ faSlot' = [faSlot EXCEPT ![f] =
                     [vacant |-> FALSE, mac |-> p.mac, req |-> req,
                      isconnected |-> IsConnected(f),
                      isrouted |-> IsRouted(f) \/ routes]]
     /\ faRoutes' = [faRoutes EXCEPT ![f] =
                       IF routes \/ ForwardsFirst(f, req) THEN @ \cup {req.home}
                                                          ELSE @]
     /\ IF ForwardsFirst(f, req) THEN FASend(f, ForwardedRequest(f, req))
                                 ELSE FASilent
     /\ UNCHANGED <<faPc, faKernel, faRestarts, faCut>>

FAHandleRequest(f, p) ==
  /\ faPc[f] = "idle"
  /\ FARequestRegisted(f, p) \/ FARequestNewcomer(f, p)
  /\ faRead' = faRead \cup {p}

(* The reply is for the entry's home address.                              *)
IsForVisitor(f, rep) == faNum[f] > 0 /\ rep.home = faSlot[f].req.home

\* Fault: the default branch of the switch falls through to the relay.
FAHandleReply_AnyCode(f, p) ==
  /\ faPc[f] = "idle" /\ IsForVisitor(f, p.rep)
  /\ faSlot' = [faSlot EXCEPT ![f].isconnected = TRUE]
  /\ FASend(f, RelayedReply(f, p.rep))
  /\ UNCHANGED <<faNum, faRoutes, faPc, faKernel, faHistory>>

(* An accepting reply connects the entry and is relayed to the vehicle.    *)
FAHandleReply(f, p) ==
  /\ faPc[f] = "idle" /\ IsForVisitor(f, p.rep)
  /\ p.rep.code = "accepted"
  /\ faSlot' = [faSlot EXCEPT ![f].isconnected = TRUE]
  /\ FASend(f, RelayedReply(f, p.rep))
  /\ UNCHANGED <<faNum, faRoutes, faPc, faKernel, faHistory>>

(* An ARP request heard on the V2X interface adds the asker's host route,  *)
(* unless there is one.                                                    *)
FAHandleArp(f, home) ==
  /\ faPc[f] = "idle" /\ home \notin faRoutes[f]
  /\ faRoutes' = [faRoutes EXCEPT ![f] = @ \cup {home}]
  /\ UNCHANGED <<faSlot, faNum, faPc, faKernel, faSock, faHistory, net>>

(* The job f is at, if any.                                                *)
FAJobs(f) ==
  IF faPc[f] = "idle" THEN {}
  ELSE {[agent |-> f, at |-> faPc[f], req |-> faSlot[f].req]}

(* A restart empties the table and flushes the main routing table; tunnel  *)
(* devices, the other tables and the rules stay in the kernel, as the calls*)
(* made so far have left them.                                             *)
FARestart(f) ==
  /\ faRestarts < MaxFARestarts
  /\ faRestarts' = faRestarts + 1
  /\ faSlot' = [faSlot EXCEPT ![f] = Vacant]
  /\ faNum' = [faNum EXCEPT ![f] = 0]
  /\ faRoutes' = [faRoutes EXCEPT ![f] = {}]
  /\ faPc' = [faPc EXCEPT ![f] = "idle"]
  /\ faSock' = [faSock EXCEPT ![f] = TRUE]
  /\ faCut' = faCut \cup FAJobs(f)
  /\ UNCHANGED <<faKernel, faRead, net>>

FAHandle(f) ==
  \/ \E p \in RequestsTo(f) : FAHandleRequest(f, p)
  \/ \E p \in RepliesTo(f) : FAHandleReply(f, p)
  \/ FAWork(f)
  \/ FARestart(f)

(* The vehicles' kernels ask by ARP with the addresses they have given to  *)
(* their interfaces: those that they ask the agents about.                 *)
AskedHomes == {p.req.home : p \in {q \in net : q.type = "request"}}

FANext ==
  \E f \in FAs : FAHandle(f) \/ \E home \in AskedHomes : FAHandleArp(f, home)

-----------------------------------------------------------------------------
(***************************************************************************)
(* The foreign agents alone, with vehicles that ask them and home agents   *)
(* that answer what reaches them, once.  A vehicle without a home agent    *)
(* asks the foreign agent itself to be one, for the fixed host number.     *)
(***************************************************************************)
VisitorRequests ==
  {p \in Requests : /\ p.mac \in Obus /\ p.daddr \in FAs /\ p.req.coa = p.daddr
                    /\ p.req.ha \in HAs \cup {p.daddr}
                    /\ p.req.home[1] = p.req.ha
                    /\ p.req.ha \in FAs => p.req.home[2] = FixedHost
                    /\ p.saddr = <<p.req.ha, FixedHost>>}

VisitorIdents == {p.req.ident : p \in {q \in net : q.type = "request"}}

(* The vehicles are alike: a new one that joins may be any fixed one.      *)
Newcomers == Obus \ {p.mac : p \in {q \in net : q.type = "request"}}
InTurn(o) == o \in Newcomers => o = CHOOSE n \in Newcomers : TRUE

VisitorSends(p) ==
  /\ InTurn(p.mac) /\ p.req.ident = Cardinality(VisitorIdents) + 1
  /\ net' = net \cup {p}
  /\ UNCHANGED faVars

HomeAnswer(p, code) ==
  [type |-> "reply", mac |-> p.daddr, saddr |-> p.daddr, daddr |-> p.saddr,
   rep |-> [code |-> code, home |-> p.req.home, ha |-> p.req.ha,
            ident |-> p.req.ident, lifetime |-> ReplyLifetime]]

HomeAnswers(p, code) ==
  /\ p.type = "request" /\ p.saddr \in FAs
  /\ ~\E q \in RepliesTo(p.saddr) : q.rep.ident = p.req.ident
  /\ net' = net \cup {HomeAnswer(p, code)}
  /\ UNCHANGED faVars

FASpecInit == FAInit /\ net = {}
FASpecNext ==
  \/ FANext
  \/ \E p \in VisitorRequests : VisitorSends(p)
  \/ \E p \in net, code \in Codes : HomeAnswers(p, code)
FASpec == FASpecInit /\ [][FASpecNext]_<<faVars, net>>

(***************************************************************************)
(* The receive thread goes on with its calls and blocks only in epoll_wait,*)
(* so it comes back to a packet that waits however often it is busy with   *)
(* another: the fairness is strong.  Duplicates of a request are not       *)
(* promised to be read.                                                    *)
(***************************************************************************)
FAServeRequest(k) ==
  \E f \in FAs : \E p \in RequestsTo(f) \ faRead :
    p.req.ident = k /\ FAHandleRequest(f, p)
FAServeReply(k) ==
  \E f \in FAs : \E p \in RepliesTo(f) : p.rep.ident = k /\ FAHandleReply(f, p)
FAFairSpec ==
  /\ FASpec
  /\ \A f \in FAs : WF_<<faVars, net>>(FAWork(f))
  /\ \A k \in 1 .. MaxIdent : SF_<<faVars, net>>(FAServeRequest(k))

-----------------------------------------------------------------------------
(* Type correctness of the foreign agents' state.                          *)
FATypeOK ==
  /\ faSlot \in [FAs -> Visitors \cup {Vacant}]
  /\ faNum \in [FAs -> 0 .. MaxVisitorNum]
  /\ faRoutes \in [FAs -> SUBSET HomeAddrs]
  /\ faPc \in [FAs -> Calls \cup {"idle"}]
  /\ faTunnel \in [FAs -> [Agents -> {"none", "down", "up"}]]
  /\ faTable \in [FAs -> [Agents -> HomeAddrs \cup {NoHome}]]
  /\ faRules \in [FAs -> [Agents -> SUBSET HomeAddrs]]
  /\ faSock \in [FAs -> BOOLEAN]
  /\ faRead \in SUBSET Requests
  /\ faRestarts \in 0 .. MaxFARestarts
  /\ faCut \in SUBSET [agent: FAs, at: Calls, req: RequestPayloads]

(* A foreign agent forwards only what a vehicle asked of it, unchanged, to *)
(* the home agent named in it, and only when it is itself the care-of      *)
(* address and not the home agent.                                         *)
FAForwardsVisitors ==
  \A p \in net : p.type = "request" /\ p.mac \in FAs =>
    /\ p.saddr = p.mac /\ p.req.coa = p.mac
    /\ p.daddr = p.req.ha /\ p.req.ha # p.mac
    /\ \E q \in net : /\ q.type = "request" /\ q.mac \in Obus
                      /\ q.daddr = p.mac /\ q.req = p.req

(* Every reply a foreign agent gave a vehicle is the copy of an accepting  *)
(* reply of the home agent that the agent had asked about that home        *)
(* address: an FA never vouches for a registration of its own.             *)
FARelayBacked ==
  \A p \in net : p.type = "reply" /\ p.mac \in FAs =>
    /\ p.rep.code = "accepted" /\ p.daddr = p.rep.home
    /\ \E q \in net : /\ q.type = "reply" /\ q.saddr = p.rep.ha
                      /\ q.daddr = p.mac /\ q.rep = p.rep
    /\ \E q \in net : /\ q.type = "request" /\ q.saddr = p.mac
                      /\ q.req.home = p.rep.home /\ q.req.ident = p.rep.ident

(* A vehicle asked f about this home address and home agent.               *)
WasAsked(f, ha, home) ==
  \E q \in net : /\ q.type = "request" /\ q.mac \in Obus /\ q.daddr = f
                 /\ q.req.ha = ha /\ q.req.home = home

(* The visitor of the route is one whose rule f has yet to make, or would  *)
(* have made if no restart had come in between.                            *)
RuleDue(f, ha) ==
  \E c \in faCut \cup FAJobs(f) :
    /\ c.agent = f /\ c.at \in {"delrule", "newrule"}
    /\ c.req.ha = ha /\ c.req.home = faTable[f][ha]

(* Between any two of the kernel calls, and whatever a restart cuts off: a *)
(* home agent's table has one rule at most; the rule belongs to a vehicle  *)
(* that asked and leads to a default route and a device that is up; and if *)
(* it is not the rule of the route's visitor, so that the visitor's        *)
(* packets are not tunnelled or another's go into its route, the agent is  *)
(* at work on it or was restarted between those very calls.                *)
FARuleComplete ==
  \A f \in FAs, ha \in Agents :
    /\ \A home, other \in faRules[f][ha] : home = other
    /\ \A home \in faRules[f][ha] :
         /\ faTunnel[f][ha] = "up" /\ faTable[f][ha] # NoHome
         /\ WasAsked(f, ha, home)
    /\ faTable[f][ha] # NoHome /\ faRules[f][ha] # {faTable[f][ha]} =>
         RuleDue(f, ha)

(* An entry is marked connected only after some home agent accepted one of *)
(* the agent's visitors: having asked, or having been refused, is not      *)
(* enough.                                                                 *)
FAConnectedWasAccepted ==
  \A f \in FAs : IsConnected(f) =>
    \E q \in net : q.type = "reply" /\ q.daddr = f /\ q.rep.code = "accepted"

(* The entry belongs to another vehicle, and is connected.                 *)
TakenByAnother(p) == IsConnected(p.daddr) /\ faSlot[p.daddr].mac # p.mac

Asked(k) == {p \in net : /\ p.type = "request" /\ p.mac \in Obus
                         /\ p.req.ident = k /\ Visiting(p.req)}

(* Every request of a visitor is forwarded to its home agent in the end,   *)
(* unless a send fails, a restart comes while the agent is at work for it, *)
(* or the one entry that is used, of the 128 of the table, is at some time *)
(* that of another connected vehicle.                                      *)
FAForwards ==
  \A k \in 1 .. MaxIdent :
    Asked(k) \ faRead # {} ~>
      \/ \E q \in net : q.type = "request" /\ q.mac \in FAs /\ q.req.ident = k
      \/ \E p \in Asked(k) : TakenByAnother(p) \/ ~faSock[p.daddr]
      \/ \E c \in faCut : c.req.ident = k

=============================================================================
