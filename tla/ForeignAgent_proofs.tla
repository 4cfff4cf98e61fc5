-------------------------- MODULE ForeignAgent_proofs -----------------------
(***************************************************************************)
(* Proofs about the foreign agents, for every set of agents and vehicles,  *)
(* with and without tunnels.                                               *)
(***************************************************************************)
EXTENDS ForeignAgent, TLAPS

(* A vehicle asks for a care-of address of the agent that it asks, and     *)
(* names a home agent or, while it has none, the agent that it asks.       *)
AskOK(p) ==
  p.type = "request" =>
    /\ p.mac \in Obus \cup FAs
    /\ p.mac \in Obus =>
         /\ p.req.coa = p.daddr /\ p.req.ha \in HAs \cup {p.daddr}
         /\ p.saddr \in HomeAddrs

(* The two statements of FAForwardsVisitors and FARelayBacked about one    *)
(* packet.                                                                 *)
ForwardOK(p) ==
  p.type = "request" /\ p.mac \in FAs =>
    /\ p.saddr = p.mac /\ p.req.coa = p.mac
    /\ p.daddr = p.req.ha /\ p.req.ha # p.mac
    /\ \E q \in net : /\ q.type = "request" /\ q.mac \in Obus
                      /\ q.daddr = p.mac /\ q.req = p.req
RelayOK(p) ==
  p.type = "reply" /\ p.mac \in FAs =>
    /\ p.rep.code = "accepted" /\ p.daddr = p.rep.home
    /\ \E q \in net : /\ q.type = "reply" /\ q.saddr = p.rep.ha
                      /\ q.daddr = p.mac /\ q.rep = p.rep
    /\ \E q \in net : /\ q.type = "request" /\ q.saddr = p.mac
                      /\ q.req.home = p.rep.home /\ q.req.ident = p.rep.ident

(* A reply that reaches a foreign agent comes from the home agent it names,*)
(* which was asked by that foreign agent.                                  *)
AnswerOK(p) ==
  p.type = "reply" /\ p.daddr \in FAs =>
    /\ p.saddr = p.rep.ha /\ p.mac \notin FAs
    /\ \E q \in net : /\ q.type = "request" /\ q.saddr = p.daddr
                      /\ q.req.home = p.rep.home /\ q.req.ident = p.rep.ident

PacketOK(p) ==
  p \in Packets /\ AskOK(p) /\ ForwardOK(p) /\ RelayOK(p) /\ AnswerOK(p)

NetOK == \A p \in net : PacketOK(p)

(* Only an entry in use is ever compared with a reply.                     *)
FASlotUsed == \A f \in FAs : faNum[f] > 0 => faSlot[f] \in Visitors

(* The agent is at work for a request that is addressed to it, and the     *)
(* calls made so far have done their part of it.                           *)
WorkOK(f) ==
  faPc[f] # "idle" =>
    LET req == faSlot[f].req
    IN /\ faSlot[f] \in Visitors /\ Visiting(req)
       /\ \E q \in RequestsTo(f) : q.req = req
       /\ faPc[f] \in {"route", "delrule", "newrule"} =>
            faTunnel[f][req.ha] = "up"
       /\ faPc[f] \in {"delrule", "newrule"} =>
            faTable[f][req.ha] = req.home
       /\ faPc[f] = "newrule" => faRules[f][req.ha] = {}
FAWorkOK == \A f \in FAs : WorkOK(f)

(* FARuleComplete for one home agent.                                      *)
RuleOK(f, ha) ==
  /\ \A home, other \in faRules[f][ha] : home = other
  /\ \A home \in faRules[f][ha] :
       /\ faTunnel[f][ha] = "up" /\ faTable[f][ha] # NoHome
       /\ WasAsked(f, ha, home)
  /\ faTable[f][ha] # NoHome /\ faRules[f][ha] # {faTable[f][ha]} =>
       RuleDue(f, ha)

FAInv ==
  /\ FATypeOK /\ FASlotUsed /\ NetOK /\ FAWorkOK
  /\ FARuleComplete /\ FAConnectedWasAccepted

LEMMA RulesOK == FARuleComplete <=> \A f \in FAs, ha \in Agents : RuleOK(f, ha)
BY DEF FARuleComplete, RuleOK

LEMMA NetSays == NetOK => FAForwardsVisitors /\ FARelayBacked
BY DEF NetOK, PacketOK, ForwardOK, RelayOK, FAForwardsVisitors, FARelayBacked

-----------------------------------------------------------------------------
(* A packet more takes no reason away from those that were there.          *)
LEMMA NetGrows ==
  ASSUME NetOK, NEW r, net' = net \cup {r}, PacketOK(r)'
  PROVE  NetOK'
<1>1. ASSUME NEW p \in net
      PROVE  PacketOK(p)'
  <2>1. PacketOK(p) /\ net \subseteq net'
    BY DEF NetOK
  <2> QED
    BY <2>1 DEF PacketOK, AskOK, ForwardOK, RelayOK, AnswerOK
<1> QED
  BY <1>1 DEF NetOK

LEMMA NetStays ==
  ASSUME NetOK, net' = net
  PROVE  NetOK'
BY DEF NetOK, PacketOK, AskOK, ForwardOK, RelayOK, AnswerOK

(* What a foreign agent takes off the network.                             *)
LEMMA RequestRead ==
  ASSUME FAInv, NEW f \in FAs, NEW p \in RequestsTo(f)
  PROVE  /\ p \in net /\ p \in Requests /\ p.type = "request" /\ p.daddr = f
         /\ p.mac \in Obus /\ p.mac \notin FAs /\ p.saddr \notin FAs
         /\ p.req \in RequestPayloads /\ p.req.home \in HomeAddrs
         /\ p.req.ha \in Agents /\ p.req.coa = f
         /\ p.req.ha \in HAs \cup {f}
<1>1. p \in net /\ p.type = "request" /\ p.daddr = f /\ PacketOK(p)
  BY DEF RequestsTo, FAInv, NetOK
<1>2. p \in Requests /\ p.req \in RequestPayloads
  BY <1>1 DEF PacketOK, Packets, Requests, Replies
<1>3. p.mac \in Obus
  <2>1. SUFFICES ASSUME p.mac \in FAs
                 PROVE  FALSE
    BY <1>1 DEF PacketOK, AskOK
  <2>2. PICK q \in net : /\ q.type = "request" /\ q.mac \in Obus
                         /\ q.daddr = p.mac /\ q.req = p.req
    BY <1>1, <2>1 DEF PacketOK, ForwardOK
  <2>3. q.req.ha \in HAs \cup {p.mac}
    BY <2>2 DEF FAInv, NetOK, PacketOK, AskOK
  <2>4. p.req.ha = f /\ f # p.mac
    BY <1>1, <2>1 DEF PacketOK, ForwardOK
  <2> QED
    BY <2>2, <2>3, <2>4, AgentsAssumption
<1> QED
  BY <1>1, <1>2, <1>3, AddressAssumption
    DEF PacketOK, AskOK, RequestPayloads, Agents

LEMMA ReplyRead ==
  ASSUME FAInv, NEW f \in FAs, NEW p \in RepliesTo(f)
  PROVE  /\ p \in net /\ p \in Replies /\ p.type = "reply" /\ p.daddr = f
         /\ p.rep \in ReplyPayloads /\ p.rep.home \in HomeAddrs
         /\ AnswerOK(p)
<1>1. p \in net /\ p.type = "reply" /\ p.daddr = f /\ PacketOK(p)
  BY DEF RepliesTo, FAInv, NetOK
<1> QED
  BY <1>1 DEF PacketOK, Packets, Requests, Replies, ReplyPayloads

(* A forwarded request and a relayed reply are as they should be.          *)
LEMMA ForwardSent ==
  ASSUME FAInv, NEW f \in FAs, NEW p \in RequestsTo(f),
         Visiting(p.req), FASend(f, ForwardedRequest(f, p.req))
  PROVE  NetOK' /\ net \subseteq net' /\ faSock' \in [FAs -> BOOLEAN]
<1> DEFINE r == ForwardedRequest(f, p.req)
<1>1. PICK sent \in SendOutcomes(f) :
        /\ faSock' = [faSock EXCEPT ![f] = sent]
        /\ net' = IF sent THEN net \cup {r} ELSE net
  BY DEF FASend
<1>2. faSock' \in [FAs -> BOOLEAN]
  BY <1>1, FlagsAssumption DEF SendOutcomes, FAInv, FATypeOK
<1>3. /\ p \in net /\ p.type = "request" /\ p.daddr = f /\ p.mac \in Obus
      /\ p.req \in RequestPayloads /\ p.req.ha \in Agents /\ p.req.coa = f
  BY RequestRead
<1>4. r \in Packets
  BY <1>3 DEF ForwardedRequest, Packets, Requests, Agents
<1>5. /\ r.type = "request" /\ r.mac = f /\ r.saddr = f
      /\ r.daddr = p.req.ha /\ r.req = p.req
  BY DEF ForwardedRequest
<1>6. CASE net' = net \cup {r}
  <2>1. f \notin Obus
    BY AddressAssumption DEF Agents
  <2>2. AskOK(r)'
    BY <1>5, <2>1 DEF AskOK
  <2>3. ForwardOK(r)'
    BY <1>3, <1>5, <1>6 DEF ForwardOK, Visiting
  <2>4. RelayOK(r)' /\ AnswerOK(r)'
    BY <1>5 DEF RelayOK, AnswerOK
  <2>5. PacketOK(r)'
    BY <1>4, <2>2, <2>3, <2>4 DEF PacketOK
  <2> QED
    BY <1>2, <1>6, <2>5, NetGrows DEF FAInv
<1>7. CASE net' = net
  BY <1>2, <1>7, NetStays DEF FAInv
<1> QED
  BY <1>1, <1>6, <1>7

LEMMA RelaySent ==
  ASSUME FAInv, NEW f \in FAs, NEW p \in RepliesTo(f),
         p.rep.code = "accepted", FASend(f, RelayedReply(f, p.rep))
  PROVE  NetOK' /\ net \subseteq net' /\ faSock' \in [FAs -> BOOLEAN]
<1> DEFINE r == RelayedReply(f, p.rep)
<1>1. PICK sent \in SendOutcomes(f) :
        /\ faSock' = [faSock EXCEPT ![f] = sent]
        /\ net' = IF sent THEN net \cup {r} ELSE net
  BY DEF FASend
<1>2. faSock' \in [FAs -> BOOLEAN]
  BY <1>1, FlagsAssumption DEF SendOutcomes, FAInv, FATypeOK
<1>3. /\ p \in net /\ p.type = "reply" /\ p.daddr = f
      /\ p.rep \in ReplyPayloads /\ p.rep.home \in HomeAddrs /\ AnswerOK(p)
  BY ReplyRead
<1>4. r \in Packets
  BY <1>3 DEF RelayedReply, Packets, Replies, Agents
<1>5. /\ r.type = "reply" /\ r.mac = f /\ r.saddr = f
      /\ r.daddr = p.rep.home /\ r.rep = p.rep
  BY DEF RelayedReply
<1>6. CASE net' = net \cup {r}
  <2>1. r.daddr \notin FAs
    BY <1>3, <1>5, AddressAssumption DEF Agents
  <2>2. AskOK(r)' /\ ForwardOK(r)' /\ AnswerOK(r)'
    BY <1>5, <2>1 DEF AskOK, ForwardOK, AnswerOK
  <2>3. RelayOK(r)'
    BY <1>3, <1>5, <1>6 DEF RelayOK, AnswerOK
  <2>4. PacketOK(r)'
    BY <1>4, <2>2, <2>3 DEF PacketOK
  <2> QED
    BY <1>2, <1>6, <2>4, NetGrows DEF FAInv
<1>7. CASE net' = net
  BY <1>2, <1>7, NetStays DEF FAInv
<1> QED
  BY <1>1, <1>6, <1>7

-----------------------------------------------------------------------------
(* A home agent's rule while its table and rules stay as they are and the  *)
(* calls that are due are not forgotten.                                   *)
LEMMA RuleStays ==
  ASSUME NEW f \in FAs, NEW ha \in Agents, RuleOK(f, ha), net \subseteq net',
         faTable'[f][ha] = faTable[f][ha], faRules'[f][ha] = faRules[f][ha],
         faTunnel[f][ha] = "up" => faTunnel'[f][ha] = "up",
         faCut \subseteq faCut',
         \A c \in FAJobs(f) : c.at \in {"delrule", "newrule"} /\ c.req.ha = ha
                               => c \in faCut' \cup FAJobs(f)'
  PROVE  RuleOK(f, ha)'
<1>1. ASSUME NEW home, WasAsked(f, ha, home)
      PROVE  WasAsked(f, ha, home)'
  BY <1>1 DEF WasAsked
<1>2. ASSUME RuleDue(f, ha)
      PROVE  RuleDue(f, ha)'
  <2>1. PICK c \in faCut \cup FAJobs(f) :
          /\ c.agent = f /\ c.at \in {"delrule", "newrule"}
          /\ c.req.ha = ha /\ c.req.home = faTable[f][ha]
    BY <1>2 DEF RuleDue
  <2>2. c \in faCut' \cup FAJobs(f)'
    BY <2>1
  <2> QED
    BY <2>1, <2>2 DEF RuleDue
<1> QED
  BY <1>1, <1>2 DEF RuleOK

(* All of them while no call is made: jobs only begin or are cut off.      *)
LEMMA RulesKept ==
  ASSUME FARuleComplete, net \subseteq net', UNCHANGED faKernel,
         faCut \subseteq faCut',
         \A f \in FAs : FAJobs(f) \subseteq faCut' \cup FAJobs(f)'
  PROVE  FARuleComplete'
<1>1. ASSUME NEW f \in FAs, NEW ha \in Agents
      PROVE  RuleOK(f, ha)'
  <2>1. RuleOK(f, ha)
    BY RulesOK
  <2> QED
    BY <2>1, RuleStays DEF faKernel
<1> QED
  BY <1>1, RulesOK DEF FARuleComplete, RuleOK

(* An agent that does nothing stays right about its work.                  *)
LEMMA WorkStays ==
  ASSUME NEW f \in FAs, WorkOK(f), net \subseteq net', faPc'[f] = faPc[f],
         faSlot'[f] = faSlot[f], faTunnel'[f] = faTunnel[f],
         faTable'[f] = faTable[f], faRules'[f] = faRules[f]
  PROVE  WorkOK(f)'
BY DEF WorkOK, RequestsTo

LEMMA WorkKept ==
  ASSUME FAWorkOK, net \subseteq net', UNCHANGED <<faPc, faKernel>>,
         \A f \in FAs : faPc[f] # "idle" => faSlot'[f] = faSlot[f]
  PROVE  FAWorkOK'
<1>1. ASSUME NEW f \in FAs
      PROVE  WorkOK(f)'
  <2>1. WorkOK(f)
    BY DEF FAWorkOK
  <2> QED
    BY <2>1 DEF WorkOK, RequestsTo, faKernel
<1> QED
  BY <1>1 DEF FAWorkOK

LEMMA ConnectedKept ==
  ASSUME FAConnectedWasAccepted, net \subseteq net',
         \A f \in FAs : IsConnected(f)' => IsConnected(f)
  PROVE  FAConnectedWasAccepted'
BY DEF FAConnectedWasAccepted

(* What an agent at work is at work for.                                   *)
LEMMA JobFacts ==
  ASSUME FAInv, NEW f \in FAs, faPc[f] # "idle"
  PROVE  /\ faSlot[f] \in Visitors /\ faSlot[f].req \in RequestPayloads
         /\ Visiting(faSlot[f].req)
         /\ \E q \in RequestsTo(f) : q.req = faSlot[f].req
         /\ \E agent \in Agents, home \in HomeAddrs :
              /\ agent = faSlot[f].req.ha /\ home = faSlot[f].req.home
              /\ home # NoHome /\ WasAsked(f, agent, home)
<1>1. /\ faSlot[f] \in Visitors /\ Visiting(faSlot[f].req)
      /\ \E q \in RequestsTo(f) : q.req = faSlot[f].req
  BY DEF FAInv, FAWorkOK, WorkOK
<1>2. PICK q \in RequestsTo(f) : q.req = faSlot[f].req
  BY <1>1
<1>3. /\ q \in net /\ q.type = "request" /\ q.daddr = f /\ q.mac \in Obus
      /\ q.req \in RequestPayloads /\ q.req.home \in HomeAddrs
      /\ q.req.ha \in Agents
  BY RequestRead
<1>4. WasAsked(f, faSlot[f].req.ha, faSlot[f].req.home)
  BY <1>2, <1>3 DEF WasAsked
<1>5. \A h \in HomeAddrs : h # NoHome
  BY DEF HomeAddrs, NoHome
<1> QED
  BY <1>1, <1>2, <1>3, <1>4, <1>5

(* A call keeps the invariant if it does its part, and touches nothing of  *)
(* another agent or another home agent.                                    *)
LEMMA CallKeeps ==
  ASSUME FAInv, NEW f \in FAs, NEW agent, agent = faSlot[f].req.ha,
         NEW from \in Calls,
         NEW to \in Calls \cup {"idle"}, FAGoes(f, from, to),
         NetOK', net \subseteq net', faSock' \in [FAs -> BOOLEAN],
         faTunnel' \in [FAs -> [Agents -> {"none", "down", "up"}]],
         faTable' \in [FAs -> [Agents -> HomeAddrs \cup {NoHome}]],
         faRules' \in [FAs -> [Agents -> SUBSET HomeAddrs]],
         \A g \in FAs \ {f} : /\ faTunnel'[g] = faTunnel[g]
                              /\ faTable'[g] = faTable[g]
                              /\ faRules'[g] = faRules[g],
         \A ha \in Agents \ {agent} :
           /\ faTunnel'[f][ha] = faTunnel[f][ha]
           /\ faTable'[f][ha] = faTable[f][ha]
           /\ faRules'[f][ha] = faRules[f][ha],
         WorkOK(f)', RuleOK(f, agent)'
  PROVE  FAInv'
<1>1. /\ faPc[f] = from /\ faPc' = [faPc EXCEPT ![f] = to]
      /\ faPc \in [FAs -> Calls \cup {"idle"}]
      /\ UNCHANGED <<faSlot, faNum, faRoutes, faRead, faRestarts, faCut>>
  BY DEF FAGoes, faHistory, FAInv, FATypeOK
<1>2. /\ faPc' \in [FAs -> Calls \cup {"idle"}]
      /\ \A g \in FAs \ {f} : faPc'[g] = faPc[g]
  BY <1>1
<1>3. FAWorkOK'
  <2>1. ASSUME NEW g \in FAs \ {f}
        PROVE  WorkOK(g)'
    <3>1. WorkOK(g)
      BY DEF FAInv, FAWorkOK
    <3> QED
      BY <1>1, <1>2, <3>1, WorkStays
  <2> QED
    BY <2>1 DEF FAWorkOK
<1>4. FARuleComplete'
  <2>1. ASSUME NEW g \in FAs, NEW ha \in Agents,
               ~(g = f /\ ha = agent)
        PROVE  RuleOK(g, ha)'
    <3>1. RuleOK(g, ha)
      BY RulesOK DEF FAInv
    <3>2. ASSUME NEW c \in FAJobs(g), c.req.ha = ha
          PROVE  c \in FAJobs(g)'
      <4>1. g # f
        BY <2>1, <3>2 DEF FAJobs
      <4> QED
        BY <1>1, <1>2, <4>1 DEF FAJobs
    <3>3. /\ faTable'[g][ha] = faTable[g][ha]
          /\ faRules'[g][ha] = faRules[g][ha]
          /\ faTunnel'[g][ha] = faTunnel[g][ha]
      BY <2>1
    <3> QED
      BY <1>1, <3>1, <3>2, <3>3, RuleStays
  <2>2. \A g \in FAs, ha \in Agents : RuleOK(g, ha)'
    BY <1>1, <2>1
  <2> QED
    BY <2>2 DEF FARuleComplete, RuleOK
<1>5. FAConnectedWasAccepted'
  BY <1>1, ConnectedKept DEF FAInv, IsConnected
<1>6. FASlotUsed'
  BY <1>1 DEF FAInv, FASlotUsed
<1>7. FATypeOK'
  BY <1>1, <1>2 DEF FAInv, FATypeOK
<1> QED
  BY <1>3, <1>4, <1>5, <1>6, <1>7 DEF FAInv

(* The tunnel device, and its link: a device that is up stays up.          *)
LEMMA TunnelKeeps ==
  ASSUME FAInv, NEW f \in FAs, FATunnel(f) \/ FALinkUp(f)
  PROVE  FAInv'
<1>0. faPc[f] # "idle"
  BY DEF FATunnel, FALinkUp, FAGoes
<1>3. PICK agent \in Agents : agent = faSlot[f].req.ha
  BY <1>0, JobFacts
<1>1. PICK from \in {"tunnel", "link"}, to \in {"link", "route"} :
        /\ FAGoes(f, from, to) /\ (to = "route" => from = "link")
        /\ \E d \in {"none", "down", "up"} :
             /\ faTunnel' = [faTunnel EXCEPT ![f][agent] = d]
             /\ faTunnel[f][agent] = "up" => d = "up"
             /\ to = "route" => d = "up"
        /\ UNCHANGED <<faTable, faRules, faSock, net>>
  <2>1. CASE FATunnel(f)
    <3> DEFINE d == IF faTunnel[f][agent] = "none" THEN "down"
                    ELSE faTunnel[f][agent]
    <3>1. /\ FAGoes(f, "tunnel", "link")
          /\ UNCHANGED <<faTable, faRules, faSock, net>>
          /\ faTunnel' = [faTunnel EXCEPT ![f][agent] = d]
      BY <1>3, <2>1 DEF FATunnel, FASilent, FAInv, FATypeOK
    <3>2. d \in {"none", "down", "up"}
      BY DEF FAInv, FATypeOK
    <3> QED
      BY <3>1, <3>2
  <2>2. CASE FALinkUp(f)
    BY <1>3, <2>2 DEF FALinkUp, FASilent
  <2> QED
    BY <2>1, <2>2
<1>2. /\ faPc[f] = from /\ faPc' = [faPc EXCEPT ![f] = to]
      /\ faPc \in [FAs -> Calls \cup {"idle"}]
      /\ faTunnel \in [FAs -> [Agents -> {"none", "down", "up"}]]
      /\ UNCHANGED <<faSlot, faCut>>
  BY <1>1 DEF FAGoes, faHistory, FAInv, FATypeOK
<1>4. /\ faTunnel' \in [FAs -> [Agents -> {"none", "down", "up"}]]
      /\ \A g \in FAs \ {f} : faTunnel'[g] = faTunnel[g]
      /\ \A ha \in Agents \ {agent} : faTunnel'[f][ha] = faTunnel[f][ha]
      /\ faTunnel[f][agent] = "up" => faTunnel'[f][agent] = "up"
      /\ to = "route" => faTunnel'[f][agent] = "up"
  BY <1>1, <1>2, <1>3
<1>5. WorkOK(f)'
  <2>1. /\ faSlot[f] \in Visitors /\ Visiting(faSlot[f].req)
        /\ \E q \in RequestsTo(f) : q.req = faSlot[f].req
    BY <1>0, JobFacts
  <2>2. faPc'[f] = to /\ to \in {"link", "route"}
    BY <1>1, <1>2
  <2> QED
    BY <1>1, <1>2, <1>3, <1>4, <2>1, <2>2 DEF WorkOK, RequestsTo
<1>6. RuleOK(f, agent)'
  <2>1. RuleOK(f, agent)
    BY <1>3, RulesOK DEF FAInv
  <2>2. \A c \in FAJobs(f) : c.at \notin {"delrule", "newrule"}
    BY <1>1, <1>2 DEF FAJobs
  <2> QED
    BY <1>1, <1>2, <1>3, <1>4, <2>1, <2>2, RuleStays
<1>7. NetOK' /\ net \subseteq net' /\ faSock' \in [FAs -> BOOLEAN]
  BY <1>1, NetStays DEF FAInv, FATypeOK
<1>8. /\ faTable' \in [FAs -> [Agents -> HomeAddrs \cup {NoHome}]]
      /\ faRules' \in [FAs -> [Agents -> SUBSET HomeAddrs]]
      /\ \A g \in FAs : faTable'[g] = faTable[g] /\ faRules'[g] = faRules[g]
  BY <1>1 DEF FAInv, FATypeOK
<1>9. from \in Calls /\ to \in Calls \cup {"idle"}
  BY <1>1 DEF Calls
<1> QED
  BY <1>1, <1>3, <1>4, <1>5, <1>6, <1>7, <1>8, <1>9, CallKeeps

(* The default route: it may be another visitor's than the rule is.        *)
LEMMA RouteKeeps ==
  ASSUME FAInv, NEW f \in FAs, FARoute(f)
  PROVE  FAInv'
<1>1. /\ faPc[f] = "route" /\ faPc' = [faPc EXCEPT ![f] = "delrule"]
      /\ faPc \in [FAs -> Calls \cup {"idle"}]
      /\ faTable \in [FAs -> [Agents -> HomeAddrs \cup {NoHome}]]
      /\ UNCHANGED <<faSlot, faCut, faTunnel, faRules, faSock, net>>
  BY DEF FARoute, FAGoes, faHistory, FASilent, FAInv, FATypeOK
<1>2. PICK agent \in Agents, home \in HomeAddrs :
        /\ agent = faSlot[f].req.ha /\ home = faSlot[f].req.home
        /\ home # NoHome /\ WasAsked(f, agent, home)
  BY <1>1, JobFacts
<1>12. /\ faSlot[f] \in Visitors /\ Visiting(faSlot[f].req)
       /\ \E q \in RequestsTo(f) : q.req = faSlot[f].req
  BY <1>1, JobFacts
<1>3. faTunnel[f][agent] = "up"
  BY <1>1, <1>2 DEF FAInv, FAWorkOK, WorkOK
<1>4. /\ faTable' \in [FAs -> [Agents -> HomeAddrs \cup {NoHome}]]
      /\ \A g \in FAs \ {f} : faTable'[g] = faTable[g]
      /\ \A ha \in Agents \ {agent} : faTable'[f][ha] = faTable[f][ha]
      /\ faTable'[f][agent] = home
  <2>1. faTable' = [faTable EXCEPT ![f][agent] = home]
    BY <1>2 DEF FARoute
  <2> QED
    BY <1>1, <1>2, <2>1
<1>5. faPc'[f] = "delrule"
  BY <1>1
<1>6. WorkOK(f)'
  BY <1>1, <1>2, <1>3, <1>4, <1>5, <1>12 DEF WorkOK, RequestsTo
<1>7. RuleOK(f, agent)'
  <2>1. RuleOK(f, agent)
    BY <1>2, RulesOK DEF FAInv
  <2>2. RuleDue(f, agent)'
    <3>1. [agent |-> f, at |-> "delrule", req |-> faSlot[f].req] \in FAJobs(f)'
      BY <1>1, <1>5 DEF FAJobs
    <3> QED
      BY <1>2, <1>4, <3>1 DEF RuleDue
  <2>3. \A h : WasAsked(f, agent, h) => WasAsked(f, agent, h)'
    BY <1>1 DEF WasAsked
  <2> QED
    BY <1>1, <1>2, <1>3, <1>4, <2>1, <2>2, <2>3 DEF RuleOK
<1>8. NetOK' /\ net \subseteq net' /\ faSock' \in [FAs -> BOOLEAN]
  BY <1>1, NetStays DEF FAInv, FATypeOK
<1>9. /\ faTunnel' \in [FAs -> [Agents -> {"none", "down", "up"}]]
      /\ faRules' \in [FAs -> [Agents -> SUBSET HomeAddrs]]
      /\ \A g \in FAs : faTunnel'[g] = faTunnel[g] /\ faRules'[g] = faRules[g]
  BY <1>1 DEF FAInv, FATypeOK
<1>10. FAGoes(f, "route", "delrule") /\ "route" \in Calls /\ "delrule" \in Calls
  BY DEF FARoute, Calls
<1> QED
  BY <1>2, <1>4, <1>6, <1>7, <1>8, <1>9, <1>10, CallKeeps

(* The old rule goes: there was one at most, so there is none.             *)
LEMMA DeleteKeeps ==
  ASSUME FAInv, NEW f \in FAs, FADeleteRule(f)
  PROVE  FAInv'
<1>1. /\ faPc[f] = "delrule" /\ faPc' = [faPc EXCEPT ![f] = "newrule"]
      /\ faPc \in [FAs -> Calls \cup {"idle"}]
      /\ faRules \in [FAs -> [Agents -> SUBSET HomeAddrs]]
      /\ UNCHANGED <<faSlot, faCut, faTunnel, faTable, faSock, net>>
  BY DEF FADeleteRule, FAGoes, faHistory, FASilent, FAInv, FATypeOK
<1>2. PICK agent \in Agents, home \in HomeAddrs :
        /\ agent = faSlot[f].req.ha /\ home = faSlot[f].req.home
        /\ home # NoHome /\ WasAsked(f, agent, home)
  BY <1>1, JobFacts
<1>12. /\ faSlot[f] \in Visitors /\ Visiting(faSlot[f].req)
       /\ \E q \in RequestsTo(f) : q.req = faSlot[f].req
  BY <1>1, JobFacts
<1>3. faTunnel[f][agent] = "up" /\ faTable[f][agent] = home
  BY <1>1, <1>2 DEF FAInv, FAWorkOK, WorkOK
<1>4. RuleOK(f, agent)
  BY <1>2, RulesOK DEF FAInv
<1>5. /\ faRules' \in [FAs -> [Agents -> SUBSET HomeAddrs]]
      /\ \A g \in FAs \ {f} : faRules'[g] = faRules[g]
      /\ \A ha \in Agents \ {agent} : faRules'[f][ha] = faRules[f][ha]
      /\ faRules'[f][agent] = {}
  <2>1. CASE faRules[f][agent] = {}
    BY <1>1, <1>2, <2>1 DEF FADeleteRule
  <2>2. CASE faRules[f][agent] # {}
    <3>1. PICK h \in faRules[f][agent] :
            faRules' = [faRules EXCEPT ![f][agent] = @ \ {h}]
      BY <1>2, <2>2 DEF FADeleteRule
    <3>2. faRules[f][agent] = {h}
      BY <1>4 DEF RuleOK
    <3> QED
      BY <1>1, <1>2, <3>1, <3>2
  <2> QED
    BY <2>1, <2>2
<1>6. faPc'[f] = "newrule"
  BY <1>1
<1>7. WorkOK(f)'
  BY <1>1, <1>2, <1>3, <1>5, <1>6, <1>12 DEF WorkOK, RequestsTo
<1>8. RuleOK(f, agent)'
  <2>1. [agent |-> f, at |-> "newrule", req |-> faSlot[f].req] \in FAJobs(f)'
    BY <1>1, <1>6 DEF FAJobs
  <2>2. RuleDue(f, agent)'
    BY <1>1, <1>2, <1>3, <2>1 DEF RuleDue
  <2> QED
    BY <1>5, <2>2 DEF RuleOK
<1>9. NetOK' /\ net \subseteq net' /\ faSock' \in [FAs -> BOOLEAN]
  BY <1>1, NetStays DEF FAInv, FATypeOK
<1>10. /\ faTunnel' \in [FAs -> [Agents -> {"none", "down", "up"}]]
       /\ faTable' \in [FAs -> [Agents -> HomeAddrs \cup {NoHome}]]
       /\ \A g \in FAs : faTunnel'[g] = faTunnel[g] /\ faTable'[g] = faTable[g]
  BY <1>1 DEF FAInv, FATypeOK
<1>11. /\ FAGoes(f, "delrule", "newrule")
       /\ "delrule" \in Calls /\ "newrule" \in Calls
  BY DEF FADeleteRule, Calls
<1> QED
  BY <1>2, <1>5, <1>7, <1>8, <1>9, <1>10, <1>11, CallKeeps

(* The new rule is that of the route's visitor.                            *)
LEMMA NewRuleKeeps ==
  ASSUME FAInv, NEW f \in FAs, FANewRule(f)
  PROVE  FAInv'
<1>1. /\ faPc[f] = "newrule" /\ faPc' = [faPc EXCEPT ![f] = "send"]
      /\ faPc \in [FAs -> Calls \cup {"idle"}]
      /\ faRules \in [FAs -> [Agents -> SUBSET HomeAddrs]]
      /\ UNCHANGED <<faSlot, faCut, faTunnel, faTable, faSock, net>>
  BY DEF FANewRule, FAGoes, faHistory, FASilent, FAInv, FATypeOK
<1>2. PICK agent \in Agents, home \in HomeAddrs :
        /\ agent = faSlot[f].req.ha /\ home = faSlot[f].req.home
        /\ home # NoHome /\ WasAsked(f, agent, home)
  BY <1>1, JobFacts
<1>12. /\ faSlot[f] \in Visitors /\ Visiting(faSlot[f].req)
       /\ \E q \in RequestsTo(f) : q.req = faSlot[f].req
  BY <1>1, JobFacts
<1>3. /\ faTunnel[f][agent] = "up" /\ faTable[f][agent] = home
      /\ faRules[f][agent] = {}
  BY <1>1, <1>2 DEF FAInv, FAWorkOK, WorkOK
<1>4. /\ faRules' \in [FAs -> [Agents -> SUBSET HomeAddrs]]
      /\ \A g \in FAs \ {f} : faRules'[g] = faRules[g]
      /\ \A ha \in Agents \ {agent} : faRules'[f][ha] = faRules[f][ha]
      /\ faRules'[f][agent] = {home}
  <2>1. faRules' = [faRules EXCEPT ![f][agent] = @ \cup {home}]
    BY <1>2 DEF FANewRule
  <2> QED
    BY <1>1, <1>2, <1>3, <2>1
<1>5. faPc'[f] = "send"
  BY <1>1
<1>6. WorkOK(f)'
  BY <1>1, <1>5, <1>12 DEF WorkOK, RequestsTo
<1>7. RuleOK(f, agent)'
  <2>1. WasAsked(f, agent, home)'
    BY <1>1, <1>2 DEF WasAsked
  <2> QED
    BY <1>1, <1>2, <1>3, <1>4, <2>1 DEF RuleOK
<1>8. NetOK' /\ net \subseteq net' /\ faSock' \in [FAs -> BOOLEAN]
  BY <1>1, NetStays DEF FAInv, FATypeOK
<1>9. /\ faTunnel' \in [FAs -> [Agents -> {"none", "down", "up"}]]
      /\ faTable' \in [FAs -> [Agents -> HomeAddrs \cup {NoHome}]]
      /\ \A g \in FAs : faTunnel'[g] = faTunnel[g] /\ faTable'[g] = faTable[g]
  BY <1>1 DEF FAInv, FATypeOK
<1>10. FAGoes(f, "newrule", "send") /\ "newrule" \in Calls /\ "send" \in Calls
  BY DEF FANewRule, Calls
<1> QED
  BY <1>2, <1>4, <1>6, <1>7, <1>8, <1>9, <1>10, CallKeeps

(* The request goes on to the home agent, and the agent is done.           *)
LEMMA ForwardKept ==
  ASSUME FAInv, NEW f \in FAs, FAForward(f)
  PROVE  /\ FAInv' /\ net \subseteq net'
<1>1. /\ faPc[f] = "send" /\ faPc' = [faPc EXCEPT ![f] = "idle"]
      /\ faPc \in [FAs -> Calls \cup {"idle"}]
      /\ UNCHANGED <<faSlot, faCut, faTunnel, faTable, faRules>>
  BY DEF FAForward, FAGoes, faHistory, faKernel, FAInv, FATypeOK
<1>2. PICK agent \in Agents : agent = faSlot[f].req.ha
  BY <1>1, JobFacts
<1>9. /\ Visiting(faSlot[f].req)
      /\ \E q \in RequestsTo(f) : q.req = faSlot[f].req
  BY <1>1, JobFacts
<1>3. NetOK' /\ net \subseteq net' /\ faSock' \in [FAs -> BOOLEAN]
  <2>1. CASE FASend(f, ForwardedRequest(f, faSlot[f].req))
    BY <1>9, <2>1, ForwardSent
  <2>2. CASE FASilent
    BY <2>2, NetStays DEF FASilent, FAInv, FATypeOK
  <2> QED
    BY <2>1, <2>2 DEF FAForward
<1>4. WorkOK(f)'
  BY <1>1 DEF WorkOK
<1>5. RuleOK(f, agent)'
  <2>1. RuleOK(f, agent)
    BY <1>2, RulesOK DEF FAInv
  <2>2. \A c \in FAJobs(f) : c.at \notin {"delrule", "newrule"}
    BY <1>1 DEF FAJobs
  <2> QED
    BY <1>1, <1>2, <1>3, <2>1, <2>2, RuleStays
<1>6. /\ faTunnel' \in [FAs -> [Agents -> {"none", "down", "up"}]]
      /\ faTable' \in [FAs -> [Agents -> HomeAddrs \cup {NoHome}]]
      /\ faRules' \in [FAs -> [Agents -> SUBSET HomeAddrs]]
      /\ \A g \in FAs : /\ faTunnel'[g] = faTunnel[g]
                        /\ faTable'[g] = faTable[g]
                        /\ faRules'[g] = faRules[g]
  BY <1>1 DEF FAInv, FATypeOK
<1>7. /\ FAGoes(f, "send", "idle")
      /\ "send" \in Calls /\ "idle" \in Calls \cup {"idle"}
  BY DEF FAForward, Calls
<1>8. FAInv'
  BY <1>2, <1>3, <1>4, <1>5, <1>6, <1>7, CallKeeps
<1> QED
  BY <1>3, <1>8

LEMMA WorkKeeps ==
  ASSUME FAInv, NEW f \in FAs, FAWork(f)
  PROVE  FAInv'
<1>1. CASE FATunnel(f) \/ FALinkUp(f)
  BY <1>1, TunnelKeeps
<1>2. CASE FARoute(f)
  BY <1>2, RouteKeeps
<1>3. CASE FADeleteRule(f)
  BY <1>3, DeleteKeeps
<1>4. CASE FANewRule(f)
  BY <1>4, NewRuleKeeps
<1>5. CASE FAForward(f)
  BY <1>5, ForwardKept
<1> QED
  BY <1>1, <1>2, <1>3, <1>4, <1>5 DEF FAWork

-----------------------------------------------------------------------------
(* A request of a known vehicle: its work begins.                          *)
LEMMA RegistedKeeps ==
  ASSUME FAInv, NEW f \in FAs, NEW p \in RequestsTo(f), faPc[f] = "idle",
         FARequestRegisted(f, p), faRead' = faRead \cup {p}
  PROVE  FAInv'
<1>1. p \in Requests /\ p.req \in RequestPayloads
  BY RequestRead
<1>2. /\ NetOK' /\ net' = net /\ faSock' \in [FAs -> BOOLEAN]
      /\ UNCHANGED <<faTunnel, faTable, faRules, faCut, faNum, faRoutes,
                     faRestarts>>
  BY NetStays
    DEF FARequestRegisted, FASilent, faKernel, FAInv, FATypeOK
<1>3. faSlot[f] \in Visitors /\ faSlot \in [FAs -> Visitors \cup {Vacant}]
  <2>1. faSlot[f] \in Visitors \cup {Vacant} /\ ~faSlot[f].vacant
    BY DEF FARequestRegisted, IsRegisted, FAInv, FATypeOK
  <2> QED
    BY <2>1 DEF Vacant, FAInv, FATypeOK
<1> DEFINE old == faSlot[f]
           e == [old EXCEPT !.req = p.req]
           to == IF ~Visiting(p.req) THEN "idle"
                 ELSE IF Tunneling THEN "tunnel" ELSE "send"
<1>4. e \in Visitors /\ e.isconnected = old.isconnected /\ e.req = p.req
  <2> HIDE DEF old
  <2>1. old \in Visitors
    BY <1>3 DEF old
  <2> QED
    BY <1>1, <2>1 DEF Visitors
<1>5. faSlot' = [faSlot EXCEPT ![f] = e] /\ faPc' = [faPc EXCEPT ![f] = to]
  BY DEF FARequestRegisted
<1>6. /\ to \in {"idle", "tunnel", "send"}
      /\ to # "idle" => Visiting(p.req)
  OBVIOUS
<1> HIDE DEF e, to
<1>7. /\ faSlot' \in [FAs -> Visitors \cup {Vacant}]
      /\ \A g \in FAs : g # f => faSlot'[g] = faSlot[g]
      /\ faSlot'[f] = e
  BY <1>3, <1>4, <1>5
<1>8. /\ faPc' \in [FAs -> Calls \cup {"idle"}]
      /\ \A g \in FAs : g # f => faPc'[g] = faPc[g]
      /\ faPc'[f] = to
  <2>1. faPc \in [FAs -> Calls \cup {"idle"}]
    BY DEF FAInv, FATypeOK
  <2> QED
    BY <1>5, <1>6, <2>1 DEF Calls
<1>9. FASlotUsed'
  BY <1>2, <1>4, <1>7 DEF FASlotUsed, FAInv
<1>10. FAConnectedWasAccepted'
  <2>1. \A g \in FAs : IsConnected(g)' => IsConnected(g)
    BY <1>3, <1>4, <1>7 DEF IsConnected, Visitors
  <2> QED
    BY <1>2, <2>1, ConnectedKept DEF FAInv
<1>11. FAWorkOK'
  <2>1. ASSUME NEW g \in FAs, g # f
        PROVE  WorkOK(g)'
    <3>1. WorkOK(g)
      BY DEF FAInv, FAWorkOK
    <3> QED
      BY <1>2, <1>7, <1>8, <2>1, <3>1, WorkStays
  <2>2. WorkOK(f)'
    <3>1. p \in RequestsTo(f)'
      BY <1>2 DEF RequestsTo
    <3> QED
      BY <1>4, <1>6, <1>7, <1>8, <3>1 DEF WorkOK, Visiting
  <2> QED
    BY <2>1, <2>2 DEF FAWorkOK
<1>12. FARuleComplete'
  <2>1. ASSUME NEW g \in FAs
        PROVE  FAJobs(g) \subseteq faCut' \cup FAJobs(g)'
    BY <1>7, <1>8 DEF FAJobs
  <2> QED
    BY <1>2, <2>1, RulesKept DEF FAInv, faKernel
<1>13. faRead' \in SUBSET Requests
  BY <1>1 DEF FAInv, FATypeOK
<1>14. FATypeOK'
  BY <1>2, <1>7, <1>8, <1>13 DEF FATypeOK, FAInv
<1> QED
  BY <1>2, <1>9, <1>10, <1>11, <1>12, <1>14 DEF FAInv

(* A request of another vehicle than the last: it takes the entry over.    *)
LEMMA NewcomerKeeps ==
  ASSUME FAInv, NEW f \in FAs, NEW p \in RequestsTo(f), faPc[f] = "idle",
         FARequestNewcomer(f, p), faRead' = faRead \cup {p}
  PROVE  FAInv'
<1>1. /\ p \in Requests /\ p.req \in RequestPayloads /\ p.mac \in Obus
      /\ p.req.home \in HomeAddrs
  BY RequestRead
<1>2. NetOK' /\ net \subseteq net' /\ faSock' \in [FAs -> BOOLEAN]
  <2>1. CASE ForwardsFirst(f, p.req)
    BY <2>1, ForwardSent DEF FARequestNewcomer, ForwardsFirst
  <2>2. CASE ~ForwardsFirst(f, p.req)
    BY <2>2, NetStays DEF FARequestNewcomer, FASilent, FAInv, FATypeOK
  <2> QED
    BY <2>1, <2>2
<1>3. UNCHANGED <<faPc, faKernel, faRestarts, faCut>>
  BY DEF FARequestNewcomer
<1> DEFINE routes == Visiting(p.req) /\ ~IsRouted(f)
           connected == IsConnected(f)
           routed == IsRouted(f) \/ routes
           e == [vacant |-> FALSE, mac |-> p.mac, req |-> p.req,
                 isconnected |-> connected, isrouted |-> routed]
<1>4. /\ e \in Visitors /\ (e.isconnected => IsConnected(f))
  <2>1. connected \in BOOLEAN /\ routed \in BOOLEAN
    <3>1. faSlot[f] \in Visitors \cup {Vacant}
      BY DEF FAInv, FATypeOK
    <3>2. connected \in BOOLEAN
      BY <3>1, Zenon DEF IsConnected
    <3>3. routed \in BOOLEAN
      BY Zenon DEF Visiting
    <3> QED
      BY <3>2, <3>3
  <2>2. e.isconnected => IsConnected(f)
    OBVIOUS
  <2> HIDE DEF connected, routed
  <2>3. e \in Visitors
    BY <1>1, <2>1 DEF Visitors
  <2> QED
    BY <2>2, <2>3
<1>5. faSlot' = [faSlot EXCEPT ![f] = e]
  BY DEF FARequestNewcomer
<1> HIDE DEF e
<1>6. /\ faSlot' \in [FAs -> Visitors \cup {Vacant}]
      /\ \A g \in FAs : g # f => faSlot'[g] = faSlot[g]
      /\ faSlot'[f] = e
  BY <1>4, <1>5 DEF FAInv, FATypeOK
<1>13. FARuleComplete'
  <2>1. ASSUME NEW g \in FAs
        PROVE  FAJobs(g) \subseteq FAJobs(g)'
    BY <1>3, <1>6 DEF FAJobs
  <2> QED
    BY <1>2, <1>3, <2>1, RulesKept DEF FAInv
<1>14. FAWorkOK'
  BY <1>2, <1>3, <1>6, WorkKept DEF FAInv
<1>7. /\ faNum' \in [FAs -> 0 .. MaxVisitorNum]
      /\ \A g \in FAs : g # f => faNum'[g] = faNum[g]
  <2>1. faNum \in [FAs -> 0 .. MaxVisitorNum] /\ MaxVisitorNum \in Nat
    BY FABoundsAssumption DEF FAInv, FATypeOK
  <2> QED
    BY <2>1 DEF FARequestNewcomer
<1>8. FASlotUsed'
  BY <1>4, <1>6, <1>7 DEF FASlotUsed, FAInv
<1>9. FAConnectedWasAccepted'
  <2>1. \A g \in FAs : IsConnected(g)' => IsConnected(g)
    BY <1>4, <1>6 DEF IsConnected
  <2> QED
    BY <1>2, <2>1, ConnectedKept DEF FAInv
<1>10. faRead' \in SUBSET Requests
  BY <1>1 DEF FAInv, FATypeOK
<1>11. faRoutes' \in [FAs -> SUBSET HomeAddrs]
  <2>1. faRoutes \in [FAs -> SUBSET HomeAddrs]
    BY DEF FAInv, FATypeOK
  <2> QED
    BY <1>1, <2>1 DEF FARequestNewcomer
<1>12. FATypeOK'
  BY <1>2, <1>3, <1>6, <1>7, <1>10, <1>11 DEF FATypeOK, FAInv, faKernel
<1> QED
  BY <1>2, <1>8, <1>9, <1>12, <1>13, <1>14 DEF FAInv

(* A reply that the agent relays connects the entry.                       *)
LEMMA ReplyKeeps ==
  ASSUME FAInv, NEW f \in FAs, NEW p \in RepliesTo(f), FAHandleReply(f, p)
  PROVE  FAInv'
<1>1. /\ p \in net /\ p.type = "reply" /\ p.daddr = f
      /\ p.rep.code = "accepted" /\ faNum[f] > 0 /\ faPc[f] = "idle"
  BY ReplyRead DEF FAHandleReply, IsForVisitor
<1>2. NetOK' /\ net \subseteq net' /\ faSock' \in [FAs -> BOOLEAN]
  BY RelaySent DEF FAHandleReply
<1>3. UNCHANGED <<faNum, faRoutes, faPc, faKernel, faHistory>>
  BY DEF FAHandleReply
<1>4. faSlot[f] \in Visitors /\ faSlot \in [FAs -> Visitors \cup {Vacant}]
  BY <1>1 DEF FAInv, FATypeOK, FASlotUsed
<1> DEFINE e == [faSlot[f] EXCEPT !.isconnected = TRUE]
<1>5. e \in Visitors
  BY <1>4 DEF Visitors
<1>6. faSlot' = [faSlot EXCEPT ![f] = e]
  BY DEF FAHandleReply
<1> HIDE DEF e
<1>7. /\ faSlot' \in [FAs -> Visitors \cup {Vacant}]
      /\ \A g \in FAs : g # f => faSlot'[g] = faSlot[g]
      /\ faSlot'[f] = e
  BY <1>4, <1>5, <1>6
<1>11. FARuleComplete'
  <2>1. ASSUME NEW g \in FAs
        PROVE  FAJobs(g) \subseteq FAJobs(g)'
    BY <1>1, <1>3, <1>7 DEF FAJobs
  <2> QED
    BY <1>2, <1>3, <2>1, RulesKept DEF FAInv, faHistory
<1>12. FAWorkOK'
  BY <1>1, <1>2, <1>3, <1>7, WorkKept DEF FAInv
<1>8. FASlotUsed'
  BY <1>5, <1>7 DEF FASlotUsed, FAInv, FAHandleReply
<1>9. FAConnectedWasAccepted'
  <2>1. ASSUME NEW g \in FAs, IsConnected(g)'
        PROVE  \E q \in net' : /\ q.type = "reply" /\ q.daddr = g
                               /\ q.rep.code = "accepted"
    <3>1. CASE g = f
      BY <1>1, <1>2, <3>1
    <3>2. CASE g # f
      <4>1. IsConnected(g)
        BY <1>7, <2>1, <3>2 DEF IsConnected
      <4> QED
        BY <1>2, <4>1 DEF FAInv, FAConnectedWasAccepted
    <3> QED
      BY <3>1, <3>2
  <2> QED
    BY <2>1 DEF FAConnectedWasAccepted
<1>10. FATypeOK'
  BY <1>2, <1>3, <1>7 DEF FATypeOK, FAInv, faKernel, faHistory
<1> QED
  BY <1>2, <1>8, <1>9, <1>10, <1>11, <1>12 DEF FAInv

LEMMA ArpKeeps ==
  ASSUME FAInv, NEW f \in FAs, NEW home \in HomeAddrs, FAHandleArp(f, home)
  PROVE  FAInv'
<1>1. /\ NetOK' /\ net \subseteq net'
  BY NetStays DEF FAHandleArp, FAInv
<1>2. FARuleComplete' /\ FAWorkOK'
  <2>1. \A g \in FAs : FAJobs(g) \subseteq FAJobs(g)'
    BY DEF FAHandleArp, FAJobs
  <2> QED
    BY <1>1, <2>1, RulesKept, WorkKept DEF FAHandleArp, faHistory, FAInv
<1>3. FAConnectedWasAccepted'
  BY <1>1, ConnectedKept DEF FAHandleArp, FAInv, IsConnected
<1>4. FASlotUsed'
  BY DEF FAHandleArp, FAInv, FASlotUsed
<1>5. faRoutes' \in [FAs -> SUBSET HomeAddrs]
  BY DEF FAHandleArp, FAInv, FATypeOK
<1>6. FATypeOK'
  BY <1>5 DEF FAHandleArp, FAInv, FATypeOK, faKernel, faHistory
<1> QED
  BY <1>1, <1>2, <1>3, <1>4, <1>6 DEF FAInv

LEMMA RestartKeeps ==
  ASSUME FAInv, NEW f \in FAs, FARestart(f)
  PROVE  FAInv'
<1>1. NetOK' /\ net \subseteq net'
  BY NetStays DEF FARestart, FAInv
<1>9. /\ faPc' \in [FAs -> Calls \cup {"idle"}]
      /\ \A g \in FAs : g # f => faPc'[g] = faPc[g]
      /\ faPc'[f] = "idle"
  BY DEF FARestart, FAInv, FATypeOK
<1>3. /\ faSlot' \in [FAs -> Visitors \cup {Vacant}]
      /\ \A g \in FAs : g # f => faSlot'[g] = faSlot[g]
      /\ faSlot'[f] = Vacant
  BY DEF FARestart, FAInv, FATypeOK
<1>4. /\ faNum' \in [FAs -> 0 .. MaxVisitorNum]
      /\ \A g \in FAs : g # f => faNum'[g] = faNum[g]
      /\ faNum'[f] = 0
  BY FABoundsAssumption DEF FARestart, FAInv, FATypeOK
<1>5. FASlotUsed'
  BY <1>3, <1>4 DEF FASlotUsed, FAInv
<1>6. FAConnectedWasAccepted'
  <2>1. \A g \in FAs : IsConnected(g)' => IsConnected(g)
    BY <1>3 DEF IsConnected, Vacant
  <2> QED
    BY <1>1, <2>1, ConnectedKept DEF FAInv
<1>2. FARuleComplete'
  <2>1. faCut' = faCut \cup FAJobs(f) /\ UNCHANGED faKernel
    BY DEF FARestart
  <2>2. ASSUME NEW g \in FAs
        PROVE  FAJobs(g) \subseteq faCut' \cup FAJobs(g)'
    <3>1. CASE g = f
      BY <2>1, <3>1
    <3>2. CASE g # f
      BY <1>3, <1>9, <3>2 DEF FAJobs
    <3> QED
      BY <3>1, <3>2
  <2> QED
    BY <1>1, <2>1, <2>2, RulesKept DEF FAInv
<1>10. FAWorkOK'
  <2>1. ASSUME NEW g \in FAs
        PROVE  WorkOK(g)'
    <3>1. CASE g = f
      BY <1>9, <3>1 DEF WorkOK
    <3>2. CASE g # f
      <4>1. WorkOK(g) /\ UNCHANGED faKernel
        BY DEF FAInv, FAWorkOK, FARestart
      <4> QED
        BY <1>1, <1>3, <1>9, <3>2, <4>1, WorkStays DEF faKernel
    <3> QED
      BY <3>1, <3>2
  <2> QED
    BY <2>1 DEF FAWorkOK
<1>11. faCut' \in SUBSET [agent: FAs, at: Calls, req: RequestPayloads]
  <2>1. ASSUME faPc[f] # "idle"
        PROVE  /\ faPc[f] \in Calls
               /\ faSlot[f].req \in RequestPayloads
    BY <2>1, JobFacts DEF FAInv, FATypeOK
  <2>2. FAJobs(f) \in SUBSET [agent: FAs, at: Calls, req: RequestPayloads]
    BY <2>1 DEF FAJobs
  <2> QED
    BY <2>2 DEF FARestart, FAInv, FATypeOK
<1>7. /\ faRoutes' \in [FAs -> SUBSET HomeAddrs]
      /\ faSock' \in [FAs -> BOOLEAN]
      /\ faRestarts' \in 0 .. MaxFARestarts
  BY FABoundsAssumption DEF FARestart, FAInv, FATypeOK
<1>8. FATypeOK'
  BY <1>3, <1>4, <1>7, <1>9, <1>11 DEF FARestart, FAInv, FATypeOK, faKernel
<1> QED
  BY <1>1, <1>2, <1>5, <1>6, <1>8, <1>10 DEF FAInv

-----------------------------------------------------------------------------
(* While only the network changes the agents' own state keeps its parts.   *)
LEMMA AgentsIdle ==
  ASSUME FAInv, UNCHANGED faVars, net \subseteq net', NetOK'
  PROVE  FAInv'
<1>1. FARuleComplete' /\ FAWorkOK'
  <2>1. \A g \in FAs : FAJobs(g) \subseteq FAJobs(g)'
    BY DEF faVars, FAJobs
  <2> QED
    BY <2>1, RulesKept, WorkKept DEF faVars, faHistory, FAInv
<1>2. FAConnectedWasAccepted'
  BY ConnectedKept DEF faVars, FAInv, IsConnected
<1>3. FASlotUsed' /\ FATypeOK'
  BY DEF faVars, faKernel, faHistory, FAInv, FASlotUsed, FATypeOK
<1> QED
  BY <1>1, <1>2, <1>3 DEF FAInv

LEMMA VisitorSendsKeeps ==
  ASSUME FAInv, NEW p \in VisitorRequests, VisitorSends(p)
  PROVE  FAInv'
<1>1. /\ p \in Requests /\ p.type = "request" /\ p.mac \in Obus
      /\ p.mac \notin FAs /\ p.daddr \in FAs /\ p.req.coa = p.daddr
      /\ p.req.ha \in HAs \cup {p.daddr} /\ p.saddr \in HomeAddrs
  <2>1. p \in Requests /\ p.type = "request" /\ p.req \in RequestPayloads
    BY DEF VisitorRequests, Requests
  <2>2. /\ p.mac \in Obus /\ p.daddr \in FAs /\ p.req.coa = p.daddr
        /\ p.req.ha \in HAs \cup {p.daddr} /\ p.saddr = <<p.req.ha, FixedHost>>
    BY DEF VisitorRequests
  <2>3. p.saddr \in HomeAddrs
    BY <2>1, <2>2 DEF RequestPayloads, HomeAddrs
  <2>4. p.mac \notin FAs
    BY <2>2, AddressAssumption DEF Agents
  <2> QED
    BY <2>1, <2>2, <2>3, <2>4
<1>2. PacketOK(p)'
  BY <1>1 DEF PacketOK, Packets, AskOK, ForwardOK, RelayOK, AnswerOK
<1>3. NetOK' /\ net \subseteq net'
  BY <1>2, NetGrows DEF VisitorSends, FAInv
<1> QED
  BY <1>3, AgentsIdle DEF VisitorSends

(* What a foreign agent has asked is answered by a home agent: the other   *)
(* vehicles' requests have a home address as their source.                 *)
LEMMA HomeAnswersKeeps ==
  ASSUME FAInv, NEW p \in net, NEW code \in Codes, HomeAnswers(p, code)
  PROVE  FAInv'
<1> DEFINE r == HomeAnswer(p, code)
<1>1. /\ p.type = "request" /\ p.saddr \in FAs /\ net' = net \cup {r}
      /\ UNCHANGED faVars
  BY DEF HomeAnswers
<1>2. PacketOK(p) /\ p \in Requests /\ p.req \in RequestPayloads
  <2>1. PacketOK(p)
    BY DEF FAInv, NetOK
  <2> QED
    BY <1>1, <2>1 DEF PacketOK, Packets, Requests, Replies
<1>3. p.mac \in FAs
  BY <1>1, <1>2, AddressAssumption DEF PacketOK, AskOK, Agents
<1>4. p.daddr = p.req.ha /\ p.daddr \in HAs
  <2>1. /\ p.daddr = p.req.ha /\ p.req.ha # p.mac
        /\ \E q \in net : /\ q.type = "request" /\ q.mac \in Obus
                          /\ q.daddr = p.mac /\ q.req = p.req
    BY <1>1, <1>2, <1>3 DEF PacketOK, ForwardOK
  <2>2. PICK q \in net : /\ q.type = "request" /\ q.mac \in Obus
                         /\ q.daddr = p.mac /\ q.req = p.req
    BY <2>1
  <2>3. q.req.ha \in HAs \cup {q.daddr}
    BY <2>2 DEF FAInv, NetOK, PacketOK, AskOK
  <2> QED
    BY <2>1, <2>2, <2>3
<1>5. r.rep \in ReplyPayloads
  <2>1. ReplyLifetime \in Nat
    BY DEF ReplyLifetime, Htonl, ConfiguredLifetime
  <2> QED
    BY <1>2, <2>1 DEF HomeAnswer, ReplyPayloads, RequestPayloads
<1>6. r \in Packets
  BY <1>1, <1>2, <1>4, <1>5 DEF HomeAnswer, Packets, Replies, Agents
<1>7. /\ r.type = "reply" /\ r.mac = p.daddr /\ r.saddr = p.daddr
      /\ r.daddr = p.saddr /\ r.rep.ha = p.req.ha
      /\ r.rep.home = p.req.home /\ r.rep.ident = p.req.ident
  BY DEF HomeAnswer
<1> HIDE DEF r
<1>8. r.mac \notin FAs
  BY <1>4, <1>7, AgentsAssumption
<1>9. AskOK(r)' /\ ForwardOK(r)' /\ RelayOK(r)'
  BY <1>7, <1>8 DEF AskOK, ForwardOK, RelayOK
<1>10. AnswerOK(r)'
  BY <1>1, <1>4, <1>7, <1>8 DEF AnswerOK
<1>11. PacketOK(r)'
  BY <1>6, <1>9, <1>10 DEF PacketOK
<1>12. NetOK' /\ net \subseteq net'
  BY <1>1, <1>11, NetGrows DEF FAInv
<1> QED
  BY <1>1, <1>12, AgentsIdle

-----------------------------------------------------------------------------
(* Where the foreign agents begin, and what each of their steps keeps.     *)
LEMMA FAInvInit == FASpecInit => FAInv
<1> SUFFICES ASSUME FASpecInit
             PROVE  FAInv
  OBVIOUS
<1>1. NetOK
  BY DEF FASpecInit, NetOK
<1>2. FATypeOK
  BY FABoundsAssumption DEF FASpecInit, FAInit, FATypeOK
<1>3. FASlotUsed
  BY DEF FASpecInit, FAInit, FASlotUsed
<1>4. FARuleComplete /\ FAWorkOK
  BY DEF FASpecInit, FAInit, FARuleComplete, FAWorkOK, WorkOK
<1>5. FAConnectedWasAccepted
  BY DEF FASpecInit, FAInit, FAConnectedWasAccepted, IsConnected, Vacant
<1> QED
  BY <1>1, <1>2, <1>3, <1>4, <1>5 DEF FAInv

LEMMA FAInvNext == FAInv /\ [FASpecNext]_<<faVars, net>> => FAInv'
<1>1. SUFFICES ASSUME FAInv, [FASpecNext]_<<faVars, net>>
               PROVE  FAInv'
  OBVIOUS
<1>2. ASSUME NEW f \in FAs, NEW p \in RequestsTo(f), FAHandleRequest(f, p)
      PROVE  FAInv'
  <2>1. CASE FARequestRegisted(f, p)
    BY <1>1, <1>2, <2>1, RegistedKeeps DEF FAHandleRequest
  <2>2. CASE FARequestNewcomer(f, p)
    BY <1>1, <1>2, <2>2, NewcomerKeeps DEF FAHandleRequest
  <2> QED
    BY <1>2, <2>1, <2>2 DEF FAHandleRequest
<1>3. ASSUME NEW f \in FAs, NEW p \in RepliesTo(f), FAHandleReply(f, p)
      PROVE  FAInv'
  BY <1>1, <1>3, ReplyKeeps
<1>4. ASSUME NEW f \in FAs, NEW home \in AskedHomes, FAHandleArp(f, home)
      PROVE  FAInv'
  <2>1. home \in HomeAddrs
    BY <1>1 DEF AskedHomes, FAInv, NetOK, PacketOK, Packets, Requests, Replies,
                RequestPayloads
  <2> QED
    BY <1>1, <1>4, <2>1, ArpKeeps
<1>5. ASSUME NEW f \in FAs, FARestart(f)
      PROVE  FAInv'
  BY <1>1, <1>5, RestartKeeps
<1>6. ASSUME NEW p \in VisitorRequests, VisitorSends(p)
      PROVE  FAInv'
  BY <1>1, <1>6, VisitorSendsKeeps
<1>7. ASSUME NEW p \in net, NEW code \in Codes, HomeAnswers(p, code)
      PROVE  FAInv'
  BY <1>1, <1>7, HomeAnswersKeeps
<1>8. ASSUME NEW f \in FAs, FAWork(f)
      PROVE  FAInv'
  BY <1>1, <1>8, WorkKeeps
<1>9. CASE UNCHANGED <<faVars, net>>
  BY <1>1, <1>9, NetStays, AgentsIdle DEF FAInv
<1> QED
  BY <1>1, <1>2, <1>3, <1>4, <1>5, <1>6, <1>7, <1>8, <1>9
    DEF FASpecNext, FANext, FAHandle

(* Their invariant.                                                        *)
THEOREM FAInvariant == FASpec => []FAInv
BY FAInvInit, FAInvNext, PTL DEF FASpec

(* The foreign agents' state keeps its types, whatever arrives.            *)
THEOREM FATypeCorrect == FASpec => []FATypeOK
<1>1. FAInv => FATypeOK
  BY DEF FAInv
<1> QED
  BY <1>1, FAInvariant, PTL

(* Foreign agents forward what vehicles asked of them, unchanged, to the   *)
(* home agent that is named, and nothing else.                             *)
THEOREM FAAlwaysForwardsVisitors == FASpec => []FAForwardsVisitors
<1>1. FAInv => FAForwardsVisitors
  BY NetSays DEF FAInv
<1> QED
  BY <1>1, FAInvariant, PTL

(* No vehicle is told by a foreign agent that it is registered unless the  *)
(* home agent that was asked has said so.                                  *)
THEOREM FAAlwaysRelayBacked == FASpec => []FARelayBacked
<1>1. FAInv => FARelayBacked
  BY NetSays DEF FAInv
<1> QED
  BY <1>1, FAInvariant, PTL

(* Between any two kernel calls, and after a restart at any of them: one   *)
(* rule at most for a home agent, a real visitor's, with a device that is  *)
(* up and a route behind it; and a rule that is not the route's visitor's  *)
(* only while the calls for that visitor are under way or were cut off.    *)
THEOREM FARuleAlwaysComplete == FASpec => []FARuleComplete
<1>1. FAInv => FARuleComplete
  BY DEF FAInv
<1> QED
  BY <1>1, FAInvariant, PTL

(* A connected entry has had an accepting reply.                           *)
THEOREM FAConnectedAlwaysAccepted == FASpec => []FAConnectedWasAccepted
<1>1. FAInv => FAConnectedWasAccepted
  BY DEF FAInv
<1> QED
  BY <1>1, FAInvariant, PTL
=============================================================================
