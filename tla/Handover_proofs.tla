--------------------------- MODULE Handover_proofs --------------------------
(***************************************************************************)
(* Proofs about the composition: one vehicle, any number of home agents,   *)
(* foreign agents and entries of their tables, packets lost, repeated and  *)
(* late, and every process restarted at any time.  The handover protocol   *)
(* implements the abstract attachment.                                     *)
(***************************************************************************)
EXTENDS Handover, HomeAgent_proofs, ForeignAgent_proofs, Obu_proofs

(***************************************************************************)
(* What the packets on the network say.  A request comes from a vehicle,   *)
(* with its home address before any refresh, and asks for the agent it is  *)
(* sent to as care-of address, or from a foreign agent that is the care-of *)
(* address and sends it to the home agent that is named.                   *)
(***************************************************************************)
RequestOK(p) ==
  p.type = "request" =>
    \/ /\ p.saddr \in HomeAddrs /\ p.saddr = <<p.req.ha, FixedHost>>
       /\ p.req.coa = p.daddr
    \/ p.saddr \in FAs /\ p.req.coa = p.saddr /\ p.req.ha = p.daddr

(* A reply to a foreign agent is of the home agent it names, which has     *)
(* bound the home address to that foreign agent.  A reply to a vehicle is  *)
(* of an agent to which some home agent has bound the home address; a      *)
(* foreign agent never names itself as home agent.                         *)
ReplyOK(p) ==
  p.type = "reply" =>
    /\ p.rep.code = "accepted"
    /\ p.daddr \in FAs =>
         /\ p.saddr \in HAs /\ p.rep.ha = p.saddr
         /\ <<p.saddr, p.rep.home, p.daddr>> \in haBound
    /\ p.daddr \in HomeAddrs =>
         /\ \E h \in HAs : <<h, p.rep.home, p.saddr>> \in haBound
         /\ p.saddr \in FAs => p.rep.ha \in HAs

WireOK == \A p \in net : RequestOK(p) /\ ReplyOK(p)

(* An entry of the agent list names a home agent or, before there is one,  *)
(* the agent itself.                                                       *)
EntryNames(e) == e.ha \in HAs \cup {e.dest}
ListNames == \A i \in Indices : EntryNames(obuList[i])

HandoverInv ==
  ObuInv /\ WireOK /\ ListNames /\ HomeAgentIsHA /\ AttachedWasBound

-----------------------------------------------------------------------------
(* One packet more, and perhaps one binding more.                          *)
LEMMA WireGrows ==
  ASSUME WireOK, NEW r, net' = net \cup {r}, haBound \subseteq haBound',
         RequestOK(r)', ReplyOK(r)'
  PROVE  WireOK'
<1>1. ASSUME NEW p \in net
      PROVE  RequestOK(p)' /\ ReplyOK(p)'
  BY DEF WireOK, RequestOK, ReplyOK
<1> QED
  BY <1>1 DEF WireOK

LEMMA WireKept ==
  ASSUME WireOK, net' = net, haBound \subseteq haBound'
  PROVE  WireOK'
BY DEF WireOK, RequestOK, ReplyOK

LEMMA ObuNetGrows ==
  ASSUME ObuNetOK, NEW r \in Packets, net' = net \cup {r},
         r.type = "request" =>
           HomeIs(r.saddr, r.req.ha) /\ HomeIs(r.req.home, r.req.ha),
         r.type = "reply" =>
           HomeIs(r.daddr, r.rep.ha) /\ HomeIs(r.rep.home, r.rep.ha)
  PROVE  ObuNetOK'
BY DEF ObuNetOK, HomeIs

(* The vehicle while the others work.                                      *)
LEMMA ObuIdle ==
  ASSUME ObuInv, UNCHANGED obuVars, net \subseteq net', ObuNetOK'
  PROVE  ObuInv'
<1>1. ObuCore
  BY DEF ObuInv
<1>2. ObuDataOK'
  BY <1>1 DEF ObuCore, ObuDataOK, obuVars
<1>3. ObuFlagsOK' /\ ObuScalars'
  BY <1>1 DEF ObuCore, ObuFlagsOK, ObuScalars, ObuAskedSomeone,
              ObuAwaitsSomeone, ObuHomeConsistent, Indices, obuVars
<1>4. /\ ObuListSound' /\ ObuOneEntryPerAgent' /\ ObuConnectedWasAccepted'
      /\ ObuRxSent'
  BY <1>1, AgentsKept, RxKept DEF obuVars
<1> QED
  BY <1>2, <1>3, <1>4 DEF ObuInv, ObuCore

(* What the agents do leaves the vehicle's statements as they were.        *)
LEMMA AgentsStep ==
  ASSUME HandoverInv, UNCHANGED obuVars, net \subseteq net', ObuNetOK',
         WireOK', haBound \subseteq haBound'
  PROVE  HandoverInv'
<1>1. ObuInv'
  BY ObuIdle DEF HandoverInv
<1>2. HomeAgentIsHA'
  BY DEF HandoverInv, HomeAgentIsHA, obuVars
<1>3. AttachedWasBound'
  BY DEF HandoverInv, AttachedWasBound, obuVars
<1>4. ListNames'
  BY DEF HandoverInv, ListNames, Indices, obuVars
<1> QED
  BY <1>1, <1>2, <1>3, <1>4 DEF HandoverInv

-----------------------------------------------------------------------------
(* A home agent that accepts has bound what its reply says.                *)
LEMMA AcceptKeeps ==
  ASSUME HandoverInv, NEW a \in HAs, NEW p \in RequestsTo(a),
         NEW sent \in BOOLEAN, HAAccept(a, p, sent), UNCHANGED obuVars
  PROVE  HandoverInv'
<1> DEFINE r == HAReply(a, p)
<1>1. /\ haBound' = haBound \cup {<<a, p.req.home, p.req.coa>>}
      /\ net' = IF sent THEN net \cup {r} ELSE net
  BY DEF HAAccept
<1>2. /\ p \in net /\ p.type = "request" /\ p.daddr = a
      /\ p \in Requests /\ p.req \in RequestPayloads
      /\ HomeIs(p.saddr, p.req.ha) /\ HomeIs(p.req.home, p.req.ha)
      /\ RequestOK(p)
  BY DEF RequestsTo, HandoverInv, ObuInv, ObuNetOK, WireOK, Packets, Requests,
         Replies
<1>3. CASE net' = net
  BY <1>1, <1>3, WireKept, NetKept, AgentsStep DEF HandoverInv, ObuInv
<1>4. CASE net' = net \cup {r}
  <2>1. r.rep \in ReplyPayloads
    BY <1>2, LifetimeTyped DEF HAReply, ReplyPayloads, RequestPayloads, Codes
  <2>2. r \in Packets
    BY <1>2, <2>1 DEF HAReply, Packets, Replies, Requests, Agents
  <2>3. /\ r.type = "reply" /\ r.saddr = a /\ r.daddr = p.saddr
        /\ r.rep.code = "accepted" /\ r.rep.home = p.req.home
        /\ r.rep.ha = p.req.ha
    BY DEF HAReply
  <2> HIDE DEF r
  <2>4. ObuNetOK'
    BY <1>2, <1>4, <2>2, <2>3, ObuNetGrows DEF HandoverInv, ObuInv
  <2>5. a \notin FAs /\ FAs \cap HomeAddrs = {}
    BY AgentsAssumption, AddressAssumption DEF Agents
  <2>6. RequestOK(r)'
    BY <2>3 DEF RequestOK
  <2>7. ReplyOK(r)'
    <3>1. CASE p.saddr \in FAs /\ p.req.coa = p.saddr /\ p.req.ha = a
      BY <1>1, <2>3, <2>5, <3>1 DEF ReplyOK
    <3>2. CASE p.saddr \in HomeAddrs /\ p.req.coa = a
      BY <1>1, <2>3, <2>5, <3>2 DEF ReplyOK
    <3> QED
      BY <1>2, <3>1, <3>2 DEF RequestOK
  <2>8. WireOK'
    BY <1>1, <1>4, <2>6, <2>7, WireGrows DEF HandoverInv
  <2> QED
    BY <1>1, <1>4, <2>4, <2>8, AgentsStep
<1> QED
  BY <1>1, <1>3, <1>4

LEMMA HAStepKeeps ==
  ASSUME HandoverInv, HAStep
  PROVE  HandoverInv'
<1>1. PICK a \in HAs :
        (\E p \in RequestsTo(a) : HAHandleRequest(a, p)) \/ HARestart(a)
  BY DEF HAStep, HANext
<1>2. UNCHANGED obuVars
  BY DEF HAStep
<1>3. ASSUME NEW p \in RequestsTo(a), HAHandleRequest(a, p)
      PROVE  HandoverInv'
  <2>1. CASE HAIgnoreFull(a, p)
    BY <1>2, <2>1, WireKept, NetKept, AgentsStep
      DEF HAIgnoreFull, haVars, HandoverInv, ObuInv
  <2> QED
    BY <1>2, <1>3, <2>1, AcceptKeeps DEF HAHandleRequest
<1>4. CASE HARestart(a)
  BY <1>2, <1>4, WireKept, NetKept, AgentsStep
    DEF HARestart, HandoverInv, ObuInv
<1> QED
  BY <1>1, <1>3, <1>4

-----------------------------------------------------------------------------
(* What a foreign agent forwards and relays.                               *)
LEMMA ForwardKeeps ==
  ASSUME HandoverInv, NEW f \in FAs, NEW p \in RequestsTo(f),
         p.req.coa = f, FASend(f, ForwardedRequest(f, p.req)),
         UNCHANGED <<haVars, obuVars>>
  PROVE  HandoverInv'
<1> DEFINE r == ForwardedRequest(f, p.req)
<1>1. haBound' = haBound /\ UNCHANGED obuVars
  BY DEF haVars
<1>2. net' = net \cup {r} \/ net' = net
  BY DEF FASend
<1>3. /\ p.type = "request" /\ p \in Requests /\ p.req \in RequestPayloads
      /\ HomeIs(p.req.home, p.req.ha)
  BY DEF RequestsTo, HandoverInv, ObuInv, ObuNetOK, Packets, Requests, Replies
<1>4. CASE net' = net \cup {r}
  <2>1. r \in Packets
    BY <1>3 DEF ForwardedRequest, Packets, Requests, RequestPayloads, Agents
  <2>2. /\ r.type = "request" /\ r.saddr = f /\ r.daddr = p.req.ha
        /\ r.req = p.req
    BY DEF ForwardedRequest
  <2> HIDE DEF r
  <2>3. HomeIs(r.saddr, r.req.ha) /\ HomeIs(r.req.home, r.req.ha)
    BY <1>3, <2>2, AddressAssumption DEF HomeIs, Agents
  <2>4. ObuNetOK'
    BY <1>4, <2>1, <2>2, <2>3, ObuNetGrows DEF HandoverInv, ObuInv
  <2>5. RequestOK(r)' /\ ReplyOK(r)'
    BY <2>2 DEF RequestOK, ReplyOK
  <2>6. WireOK'
    BY <1>1, <1>4, <2>5, WireGrows DEF HandoverInv
  <2> QED
    BY <1>1, <1>4, <2>4, <2>6, AgentsStep
<1>5. CASE net' = net
  BY <1>1, <1>5, WireKept, NetKept, AgentsStep DEF HandoverInv, ObuInv
<1> QED
  BY <1>2, <1>4, <1>5

LEMMA RelayKeeps ==
  ASSUME HandoverInv, NEW f \in FAs, NEW p \in RepliesTo(f),
         FASend(f, RelayedReply(f, p.rep)), UNCHANGED <<haVars, obuVars>>
  PROVE  HandoverInv'
<1> DEFINE r == RelayedReply(f, p.rep)
<1>1. haBound' = haBound /\ UNCHANGED obuVars
  BY DEF haVars
<1>2. net' = net \cup {r} \/ net' = net
  BY DEF FASend
<1>3. /\ p.type = "reply" /\ p.daddr = f /\ p \in Replies
      /\ p.rep \in ReplyPayloads /\ HomeIs(p.rep.home, p.rep.ha) /\ ReplyOK(p)
  BY DEF RepliesTo, HandoverInv, ObuInv, ObuNetOK, WireOK, Packets, Requests,
         Replies
<1>4. CASE net' = net \cup {r}
  <2>1. r \in Packets
    BY <1>3 DEF RelayedReply, Packets, Replies, ReplyPayloads, Agents
  <2>2. /\ r.type = "reply" /\ r.saddr = f /\ r.daddr = p.rep.home
        /\ r.rep = p.rep
    BY DEF RelayedReply
  <2> HIDE DEF r
  <2>3. p.rep.home \in HomeAddrs /\ p.rep.home \notin FAs
    BY <1>3, AddressAssumption DEF ReplyPayloads, Agents
  <2>4. ObuNetOK'
    BY <1>3, <1>4, <2>1, <2>2, ObuNetGrows DEF HandoverInv, ObuInv
  <2>5. RequestOK(r)' /\ ReplyOK(r)'
    BY <1>1, <1>3, <2>2, <2>3 DEF RequestOK, ReplyOK
  <2>6. WireOK'
    BY <1>1, <1>4, <2>5, WireGrows DEF HandoverInv
  <2> QED
    BY <1>1, <1>4, <2>4, <2>6, AgentsStep
<1>5. CASE net' = net
  BY <1>1, <1>5, WireKept, NetKept, AgentsStep DEF HandoverInv, ObuInv
<1> QED
  BY <1>2, <1>4, <1>5

LEMMA FAStepKeeps ==
  ASSUME HandoverInv, FAInv, FAStep
  PROVE  HandoverInv'
<1>1. PICK f \in FAs :
        FAHandle(f) \/ (obuAddr # NoAddr /\ FAHandleArp(f, obuAddr))
  BY DEF FAStep
<1>2. UNCHANGED <<haVars, obuVars>>
  BY DEF FAStep
<1>3. net' = net => HandoverInv'
  BY <1>2, WireKept, NetKept, AgentsStep DEF haVars, HandoverInv, ObuInv
<1>4. ASSUME NEW p \in RequestsTo(f), FAHandleRequest(f, p)
      PROVE  HandoverInv'
  <2>1. CASE p.req.coa = f /\ FASend(f, ForwardedRequest(f, p.req))
    BY <1>2, <2>1, ForwardKeeps
  <2>2. CASE FASilent
    BY <1>3, <2>2 DEF FASilent
  <2> QED
    BY <1>4, <2>1, <2>2
      DEF FAHandleRequest, FARequestRegisted, FARequestNewcomer, ForwardsFirst
<1>8. CASE FAWork(f)
  <2>1. CASE FAForward(f)
    <3>1. faPc[f] # "idle"
      BY <2>1 DEF FAForward, FAGoes
    <3>2. PICK q \in RequestsTo(f) : q.req = faSlot[f].req
      BY <3>1, JobFacts
    <3>3. CASE q.req.coa = f /\ FASend(f, ForwardedRequest(f, q.req))
      BY <1>2, <3>3, ForwardKeeps
    <3>4. CASE FASilent
      BY <1>3, <3>4 DEF FASilent
    <3> QED
      BY <2>1, <3>2, <3>3, <3>4 DEF FAForward
  <2>2. CASE FASilent
    BY <1>3, <2>2 DEF FASilent
  <2> QED
    BY <1>8, <2>1, <2>2
      DEF FAWork, FATunnel, FALinkUp, FARoute, FADeleteRule, FANewRule
<1>5. ASSUME NEW p \in RepliesTo(f), FAHandleReply(f, p)
      PROVE  HandoverInv'
  BY <1>2, <1>5, RelayKeeps DEF FAHandleReply
<1>6. CASE FARestart(f)
  BY <1>3, <1>6 DEF FARestart
<1>7. CASE FAHandleArp(f, obuAddr)
  BY <1>3, <1>7 DEF FAHandleArp
<1> QED
  BY <1>1, <1>4, <1>5, <1>6, <1>7, <1>8 DEF FAHandle

-----------------------------------------------------------------------------
(***************************************************************************)
(* The vehicle.  A step keeps whom it is connected to, or is the handover  *)
(* that a reply asks for, or is a restart.                                 *)
(***************************************************************************)
VehicleIdles ==
  /\ obuHome' = obuHome /\ obuNow' = obuNow
  /\ \A j \in Indices : /\ obuList'[j].dest = obuList[j].dest
                        /\ obuList'[j].rep = obuList[j].rep

VehicleAttaches ==
  \E p \in net : /\ p.type = "reply" /\ net' = net
                 /\ \E i \in Match(p), same \in BOOLEAN : Attach(i, p, same)

VehicleForgets == obuHome' = 0 /\ obuNow' = 0

LEMMA EntryIdles ==
  ASSUME ObuCore, NEW i \in Indices, NEW e, e.dest = obuList[i].dest,
         e.rep = obuList[i].rep, obuList' = [obuList EXCEPT ![i] = e],
         obuHome' = obuHome, obuNow' = obuNow
  PROVE  VehicleIdles
BY DEF VehicleIdles, ObuCore, ObuDataOK, Indices

(* A refresh replaces neither the agent nor its reply.                     *)
LEMMA RefreshedIdles ==
  ASSUME ObuCore, NEW i \in Indices, NEW e \in Refreshed(i)
  PROVE  e.dest = obuList[i].dest /\ e.rep = obuList[i].rep
<1> DEFINE old == obuList[i]
<1>1. old \in Entries
  BY EntryTyped DEF ObuCore
<1>2. CASE obuHome # 0
  <2> DEFINE h == obuList[obuHome]
  <2>1. e = [old EXCEPT !.src = h.src, !.home = h.home, !.ha = h.ha]
    BY <1>2 DEF Refreshed
  <2> HIDE DEF h, old
  <2>2. e.dest = old.dest /\ e.rep = old.rep
    BY <1>1, <2>1 DEF Entries
  <2> QED
    BY <2>2 DEF old
<1>3. CASE obuHome = 0 /\ old.type = "unknown"
  <2>1. PICK x \in SwappedHosts :
          e = [old EXCEPT !.home = <<old.dest, x>>, !.ha = old.dest]
    BY <1>3 DEF Refreshed
  <2> HIDE DEF old
  <2>2. e.dest = old.dest /\ e.rep = old.rep
    BY <1>1, <2>1 DEF Entries
  <2> QED
    BY <2>2 DEF old
<1>4. CASE obuHome = 0 /\ old.type # "unknown"
  BY <1>4 DEF Refreshed
<1> QED
  BY <1>2, <1>3, <1>4

(* What the socket hands out has been sent.                                *)
LEMMA HeadSent ==
  ASSUME ObuCore, obuRx # <<>>
  PROVE  Head(obuRx) \in net /\ Head(obuRx).type = "reply"
<1>1. obuRx \in Seq(Replies) /\ Len(obuRx) \in Nat
  BY LenProperties DEF ObuCore, ObuDataOK
<1>2. Head(obuRx) = obuRx[1] /\ 1 \in 1 .. Len(obuRx)
  BY <1>1, EmptySeq
<1>3. Head(obuRx) \in Replies
  BY <1>1, HeadTailProperties
<1> QED
  BY <1>2, <1>3 DEF ObuCore, ObuRxSent, Replies

LEMMA VehicleStep ==
  ASSUME HandoverInv, ObuNext
  PROVE  VehicleIdles \/ VehicleAttaches \/ VehicleForgets
<1>1. ObuCore /\ ObuInv /\ Len(obuList) \in Nat
  BY LenProperties DEF HandoverInv, ObuInv, ObuCore, ObuDataOK
<1>2. ASSUME NEW a \in Agents, HearNew(a)
      PROVE  VehicleIdles
  <2>1. \A j \in Indices : obuList'[j] = obuList[j]
    BY <1>1, <1>2, EntryAdded DEF HearNew, WsaOther
  <2> QED
    BY <1>2, <2>1 DEF VehicleIdles, HearNew, WsaOther
<1>3. ASSUME NEW a \in Agents, HearKnown(a)
      PROVE  VehicleIdles
  <2>1. PICK i \in Indices :
          \E e \in Refreshed(i) : obuList' = [obuList EXCEPT ![i] = e]
    BY <1>3 DEF HearKnown, IndexOf
  <2>2. PICK e \in Refreshed(i) : obuList' = [obuList EXCEPT ![i] = e]
    BY <2>1
  <2> QED
    BY <1>1, <1>3, <2>2, RefreshedIdles, EntryIdles DEF HearKnown, WsaOther
<1>4. ReceiveReply => VehicleIdles \/ VehicleAttaches
  <2>1. SUFFICES ASSUME ReceiveReply
                 PROVE  VehicleIdles \/ VehicleAttaches
    OBVIOUS
  <2> DEFINE p == Head(obuRx)
  <2>2. p \in net /\ p.type = "reply" /\ p.rep.code = "accepted"
    <3>1. p \in net /\ p.type = "reply"
      BY <1>1, <2>1, HeadSent DEF ReceiveReply
    <3> QED
      BY <3>1 DEF HandoverInv, WireOK, ReplyOK
  <2> HIDE DEF p
  <2>3. CASE NoMatch
    BY <2>3 DEF NoMatch, VehicleIdles
  <2>4. ASSUME NEW i \in Match(p), ~Accepts(p)
        PROVE  FALSE
    BY <2>2, <2>4 DEF Accepts
  <2>5. ASSUME NEW i \in Match(p), NEW same \in {TRUE, ~LinkMayDiffer},
               Attach(i, p, same)
        PROVE  VehicleAttaches
    BY <2>1, <2>2, <2>5, ObuFlagsAssumption DEF VehicleAttaches, ReceiveReply
  <2> QED
    BY <2>1, <2>3, <2>4, <2>5 DEF ReceiveReply, p
<1>5. Timeout => VehicleIdles
  <2>1. SUFFICES ASSUME Timeout
                 PROVE  VehicleIdles
    OBVIOUS
  <2> DEFINE old == obuList[obuSend]
             e == [old EXCEPT !.type = "foreign"]
  <2>2. obuSend \in Indices
    BY <1>1, <2>1 DEF ObuCore, Timeout, ObuScalars, ObuAwaitsSomeone
  <2>3. old \in Entries
    BY <1>1, <2>2, EntryTyped DEF ObuCore
  <2>4. obuList' = [obuList EXCEPT ![obuSend] = e]
        /\ obuHome' = obuHome /\ obuNow' = obuNow
    BY <2>1 DEF Timeout
  <2>5. e.dest = old.dest /\ e.rep = old.rep
    <3> HIDE DEF old
    <3> QED
      BY <2>3 DEF Entries
  <2> HIDE DEF e
  <2> QED
    BY <1>1, <2>2, <2>4, <2>5, EntryIdles
<1>6. ObuRestart => VehicleForgets
  BY DEF ObuRestart, VehicleForgets
<1>7. ASSUME UNCHANGED <<obuList, obuHome, obuNow>>
      PROVE  VehicleIdles
  BY <1>7 DEF VehicleIdles
<1>8. ASSUME NEW i, AskEntry(i)
      PROVE  VehicleIdles
  BY <1>7, <1>8 DEF AskEntry
<1>9. HearNothing \/ SendChosen \/ SendAuto \/ AutoCrash \/ SendNothing
        \/ EndTick => VehicleIdles
  BY <1>7, <1>8 DEF HearNothing, WsaOther, SendChosen, SendAuto, AutoCrash,
                    SendNothing, EndTick
<1>10. (\E i \in Indices : PromptCheck(i)) \/ PromptWrite \/ PromptAuto
         \/ (\E p \in net : Deliver(p)) => VehicleIdles
  BY <1>7 DEF PromptCheck, PromptWrite, PromptAuto, PromptOther, Deliver
<1> QED
  BY <1>2, <1>3, <1>4, <1>5, <1>6, <1>9, <1>10 DEF ObuNext, ObuTick

(* What entries name stays so, for an agent newly heard, a refresh, a reply*)
(* and a timeout.                                                          *)
LEMMA EntryNamed ==
  ASSUME ObuCore, ListNames, NEW i \in Indices, NEW e, EntryNames(e),
         obuList' = [obuList EXCEPT ![i] = e]
  PROVE  ListNames'
<1>1. obuList \in Seq(Entries) /\ i \in 1 .. Len(obuList)
  BY DEF ObuCore, ObuDataOK, Indices
<1>2. /\ Len(obuList') = Len(obuList)
      /\ \A j \in 1 .. Len(obuList) :
           obuList'[j] = IF j = i THEN e ELSE obuList[j]
  BY <1>1
<1> QED
  BY <1>2 DEF ListNames, Indices

LEMMA HomeNamed ==
  ASSUME HandoverInv, obuHome # 0
  PROVE  /\ obuHome \in Indices /\ obuList[obuHome] \in Entries
         /\ obuList[obuHome].ha \in HAs
<1>1. obuHome \in Indices
  BY DEF HandoverInv, ObuInv, ObuCore, ObuDataOK, Indices
<1> QED
  BY <1>1, EntryTyped DEF HandoverInv, ObuInv, ObuCore, ObuScalars,
                          ObuHomeConsistent, HomeAgentIsHA

LEMMA NewEntryNamed ==
  ASSUME HandoverInv, NEW a \in Agents
  PROVE  EntryNames(NewEntry(a))
<1>1. CASE obuHome = 0
  BY <1>1 DEF NewEntry, EntryNames
<1>2. CASE obuHome # 0
  <2> DEFINE h == obuList[obuHome]
  <2>1. h \in Entries /\ h.ha \in HAs
    BY <1>2, HomeNamed
  <2>2. NewEntry(a) = [h EXCEPT !.dest = a, !.type = "unknown", !.rep = NoReply]
    BY <1>2 DEF NewEntry
  <2> HIDE DEF h
  <2> QED
    BY <2>1, <2>2 DEF Entries, EntryNames
<1> QED
  BY <1>1, <1>2

LEMMA RefreshedNamed ==
  ASSUME HandoverInv, NEW i \in Indices, NEW e \in Refreshed(i)
  PROVE  EntryNames(e)
<1> DEFINE old == obuList[i]
<1>1. old \in Entries /\ EntryNames(old)
  BY EntryTyped DEF HandoverInv, ObuInv, ObuCore, ListNames
<1>2. CASE obuHome # 0
  <2> DEFINE h == obuList[obuHome]
  <2>1. h.ha \in HAs
    BY <1>2, HomeNamed
  <2>2. e = [old EXCEPT !.src = h.src, !.home = h.home, !.ha = h.ha]
    BY <1>2 DEF Refreshed
  <2> HIDE DEF h, old
  <2> QED
    BY <1>1, <2>1, <2>2 DEF Entries, EntryNames
<1>3. CASE obuHome = 0 /\ old.type = "unknown"
  <2>1. PICK x \in SwappedHosts :
          e = [old EXCEPT !.home = <<old.dest, x>>, !.ha = old.dest]
    BY <1>3 DEF Refreshed
  <2> HIDE DEF old
  <2> QED
    BY <1>1, <2>1 DEF Entries, EntryNames
<1>4. CASE obuHome = 0 /\ old.type # "unknown"
  BY <1>1, <1>4 DEF Refreshed
<1> QED
  BY <1>2, <1>3, <1>4

LEMMA NamesKept ==
  ASSUME HandoverInv, ObuNext
  PROVE  ListNames'
<1>1. ObuCore /\ ListNames /\ obuList \in Seq(Entries) /\ Len(obuList) \in Nat
  BY LenProperties DEF HandoverInv, ObuInv, ObuCore, ObuDataOK
<1>2. obuList' = obuList => ListNames'
  BY <1>1 DEF ListNames, Indices
<1>3. ASSUME NEW a \in Agents, HearNew(a)
      PROVE  ListNames'
  <2> DEFINE e == NewEntry(a)
             n == Len(obuList)
  <2>1. e \in Entries /\ EntryNames(e)
    BY <1>1, NewEntryTyped, NewEntryNamed
  <2>2. obuList' = Append(obuList, e)
    BY <1>3 DEF HearNew
  <2> HIDE DEF e
  <2>3. /\ Len(obuList') = n + 1 /\ obuList'[n + 1] = e
        /\ \A j \in 1 .. n : obuList'[j] = obuList[j]
    BY <1>1, <2>1, <2>2, AppendProperties
  <2>4. ASSUME NEW j \in Indices'
        PROVE  EntryNames(obuList'[j])
    <3>1. j = n + 1 \/ j \in 1 .. n
      BY <1>1, <2>3 DEF Indices
    <3> QED
      BY <1>1, <2>1, <2>3, <3>1 DEF ListNames, Indices
  <2> QED
    BY <2>4 DEF ListNames
<1>4. ASSUME NEW a \in Agents, HearKnown(a)
      PROVE  ListNames'
  <2>1. PICK i \in Indices :
          \E e \in Refreshed(i) : obuList' = [obuList EXCEPT ![i] = e]
    BY <1>4 DEF HearKnown, IndexOf
  <2>2. PICK e \in Refreshed(i) : obuList' = [obuList EXCEPT ![i] = e]
    BY <2>1
  <2> QED
    BY <1>1, <2>2, RefreshedNamed, EntryNamed
<1>5. ASSUME NEW p, NEW i \in Match(p), NEW same, Attach(i, p, same)
      PROVE  ListNames'
  <2> DEFINE old == obuList[i]
             type == IF same /\ obuHome = 0 THEN "home" ELSE old.type
             e == [old EXCEPT !.rep = p.rep, !.type = type]
  <2>1. i \in Indices
    BY DEF Match
  <2>2. obuList' = [obuList EXCEPT ![i] = e]
    BY <1>1, <1>5, <2>1 DEF Attach, Indices
  <2>3. old \in Entries /\ EntryNames(old)
    BY <1>1, <2>1, EntryTyped DEF ObuCore, ListNames
  <2>4. EntryNames(e)
    <3> HIDE DEF old, type
    <3> QED
      BY <2>3 DEF Entries, EntryNames
  <2> HIDE DEF e
  <2> QED
    BY <1>1, <2>1, <2>2, <2>4, EntryNamed
<1>6. ASSUME NEW p, NEW i \in Match(p), Refuse(i, p)
      PROVE  ListNames'
  <2> DEFINE old == obuList[i]
             e == [old EXCEPT !.rep = p.rep]
  <2>1. i \in Indices
    BY DEF Match
  <2>2. obuList' = [obuList EXCEPT ![i] = e]
    BY <1>6 DEF Refuse
  <2>3. old \in Entries /\ EntryNames(old)
    BY <1>1, <2>1, EntryTyped DEF ObuCore, ListNames
  <2>4. EntryNames(e)
    <3> HIDE DEF old
    <3> QED
      BY <2>3 DEF Entries, EntryNames
  <2> HIDE DEF e
  <2> QED
    BY <1>1, <2>1, <2>2, <2>4, EntryNamed
<1>7. ReceiveReply => ListNames'
  BY <1>2, <1>5, <1>6 DEF ReceiveReply, NoMatch
<1>8. Timeout => ListNames'
  <2>1. SUFFICES ASSUME Timeout
                 PROVE  ListNames'
    OBVIOUS
  <2> DEFINE old == obuList[obuSend]
             e == [old EXCEPT !.type = "foreign"]
  <2>2. obuSend \in Indices
    BY <1>1, <2>1 DEF ObuCore, Timeout, ObuScalars, ObuAwaitsSomeone
  <2>3. obuList' = [obuList EXCEPT ![obuSend] = e]
    BY <2>1 DEF Timeout
  <2>4. old \in Entries /\ EntryNames(old)
    BY <1>1, <2>2, EntryTyped DEF ObuCore, ListNames
  <2>5. EntryNames(e)
    <3> HIDE DEF old
    <3> QED
      BY <2>4 DEF Entries, EntryNames
  <2> HIDE DEF e
  <2> QED
    BY <1>1, <2>2, <2>3, <2>5, EntryNamed
<1>9. ObuRestart => ListNames'
  <2>1. ObuRestart => Indices' = {}
    BY DEF ObuRestart, Indices
  <2> QED
    BY <2>1 DEF ListNames
<1>10. ASSUME NEW i, AskEntry(i)
       PROVE  ListNames'
  BY <1>2, <1>10 DEF AskEntry
<1>11. HearNothing \/ SendChosen \/ SendAuto \/ AutoCrash \/ SendNothing
         \/ EndTick => ListNames'
  BY <1>2, <1>10 DEF HearNothing, SendChosen, SendAuto, AutoCrash, SendNothing,
                     EndTick
<1>12. (\E i \in Indices : PromptCheck(i)) \/ PromptWrite \/ PromptAuto
         \/ (\E p \in net : Deliver(p)) => ListNames'
  BY <1>2 DEF PromptCheck, PromptWrite, PromptAuto, PromptOther, Deliver
<1> QED
  BY <1>3, <1>4, <1>7, <1>8, <1>9, <1>11, <1>12 DEF ObuNext, ObuTick

(* What it sends are requests that name the asked agent as care-of address.*)
VehicleRequest(r) ==
  /\ r.type = "request" /\ r.mac \in Obus /\ r.req.coa = r.daddr
  /\ r.req.ha \in HAs \cup {r.daddr}
  /\ r.saddr \in HomeAddrs /\ r.saddr = <<r.req.ha, FixedHost>>

LEMMA EntrySends ==
  ASSUME NEW e \in Entries, Sound(e, obuHome), EntryNames(e),
         NEW sent \in BOOLEAN, SendRequest(e, sent)
  PROVE  net' = net \/ \E r : net' = net \cup {r} /\ VehicleRequest(r)
<1>1. VehicleRequest(Request(e))
  BY VehicleAssumption DEF VehicleRequest, Request, Entries, Sound, EntryNames
<1> QED
  BY <1>1 DEF SendRequest

LEMMA VehicleSends ==
  ASSUME HandoverInv, ObuNext
  PROVE  net' = net \/ \E r : net' = net \cup {r} /\ VehicleRequest(r)
<1> DEFINE Sends ==
             net' = net \/ \E r : net' = net \cup {r} /\ VehicleRequest(r)
<1>1. ObuCore /\ ObuDataOK /\ ListNames
  BY DEF HandoverInv, ObuInv, ObuCore
<1>2. ASSUME NEW i \in Indices, AskEntry(i)
      PROVE  Sends
  <2>1. PICK sent \in BOOLEAN : SendRequest(obuList[i], sent)
    BY <1>2 DEF AskEntry
  <2> QED
    BY <1>1, <2>1, EntryTyped, EntrySends DEF ObuCore, ObuListSound, ListNames
<1>3. ASSUME NEW a \in Agents, HearNew(a)
      PROVE  Sends
  <2>1. CASE AsksNewcomer
    <3>1. PICK sent \in BOOLEAN : SendRequest(NewEntry(a), sent)
      BY <1>3, <2>1 DEF HearNew
    <3> QED
      BY <1>1, <3>1, NewEntryTyped, NewEntryNamed, EntrySends
  <2>2. CASE ~AsksNewcomer
    BY <1>3, <2>2 DEF HearNew, NoRequest
  <2> QED
    BY <2>1, <2>2
<1>4. SendChosen => Sends
  <2>1. SendChosen => obuSend \in Indices
    BY <1>1, LenProperties DEF SendChosen, ObuDataOK, Indices
  <2> QED
    BY <1>2, <2>1 DEF SendChosen
<1>5. SendAuto => Sends
  BY <1>2 DEF SendAuto
<1>6. ASSUME NEW a \in Agents, HearKnown(a)
      PROVE  Sends
  BY <1>6 DEF HearKnown, NoRequest
<1>7. HearNothing \/ AutoCrash \/ SendNothing \/ ReceiveReply \/ Timeout
        \/ EndTick \/ ObuRestart => net' = net
  BY DEF HearNothing, NoRequest, AutoCrash, SendNothing, ReceiveReply, Timeout,
         EndTick, ObuRestart
<1>8. (\E i \in Indices : PromptCheck(i)) \/ PromptWrite \/ PromptAuto
        \/ (\E p \in net : Deliver(p)) => net' = net
  BY DEF PromptCheck, PromptWrite, PromptAuto, PromptOther, Deliver
<1> HIDE DEF Sends
<1>9. net' = net => Sends
  BY DEF Sends
<1>10. Sends
  BY <1>3, <1>4, <1>5, <1>6, <1>7, <1>8, <1>9 DEF ObuNext, ObuTick
<1> QED
  BY <1>10 DEF Sends

-----------------------------------------------------------------------------
(* The handover of an accepting reply: the entry it is for has the reply,  *)
(* and its agent is one to which a home agent has bound the home address.  *)
LEMMA AttachBinds ==
  ASSUME HandoverInv, NEW p \in net, p.type = "reply", NEW i \in Match(p),
         NEW same \in BOOLEAN, Attach(i, p, same), net' = net
  PROVE  /\ obuNow' = i /\ i \in Indices
         /\ obuList'[i].rep = p.rep /\ obuList'[i].dest = p.saddr
         /\ p.rep \in ReplyPayloads /\ p.saddr \in Agents
         /\ \E h \in HAs : <<h, p.rep.home, p.saddr>> \in haBound
         /\ obuHome' \in {i, obuHome} /\ (obuHome' = i => i = obuHome
                                            \/ p.saddr \in HAs)
         /\ \A j \in Indices : obuList'[j].dest = obuList[j].dest
<1> DEFINE old == obuList[i]
           type == IF same /\ obuHome = 0 THEN "home" ELSE old.type
           e == [old EXCEPT !.rep = p.rep, !.type = type]
<1>1. ObuInv /\ ObuCore /\ ObuDataOK
  BY DEF HandoverInv, ObuInv, ObuCore
<1>2. /\ i \in Indices /\ p.rep \in ReplyPayloads
      /\ old.dest = p.saddr /\ old.ha = p.rep.ha /\ old.src = p.daddr
  BY <1>1, MatchSound DEF Match
<1>3. old \in Entries /\ Sound(old, obuHome) /\ old.src \in HomeAddrs
      /\ old.dest \in Agents
  BY <1>1, <1>2, EntryTyped DEF ObuCore, ObuListSound
<1>4. obuList' = [obuList EXCEPT ![i] = e]
  BY <1>1, <1>2 DEF Attach, ObuDataOK, Indices
<1>5. e.rep = p.rep /\ e.dest = old.dest
  <2> HIDE DEF old, type
  <2> QED
    BY <1>3 DEF Entries
<1> HIDE DEF e
<1>6. /\ obuList'[i] = e
      /\ \A j \in Indices : j # i => obuList'[j] = obuList[j]
  BY <1>1, <1>2, <1>4 DEF ObuDataOK, Indices
<1>7. /\ \E h \in HAs : <<h, p.rep.home, p.saddr>> \in haBound
      /\ p.saddr \in FAs => p.rep.ha \in HAs
  BY <1>2, <1>3 DEF HandoverInv, WireOK, ReplyOK
<1>8. MakesHome(p, same) => p.saddr \in HAs
  <2>1. MakesHome(p, same) => p.rep.ha = p.saddr
    BY <1>2, <1>3 DEF MakesHome, Sound
  <2> QED
    BY <1>2, <1>3, <1>7, <2>1 DEF Agents
<1>9. obuNow' = i /\ obuHome' = IF MakesHome(p, same) THEN i ELSE obuHome
  BY DEF Attach, HomeAfter
<1> QED
  BY <1>2, <1>3, <1>5, <1>6, <1>7, <1>8, <1>9

LEMMA ObuStepKeeps ==
  ASSUME HandoverInv, ObuStep
  PROVE  HandoverInv'
<1>1. ObuNext /\ haBound' = haBound /\ ObuInv /\ ObuDataOK
      /\ Len(obuList) \in Nat
  BY LenProperties
    DEF ObuStep, haVars, HandoverInv, ObuInv, ObuCore, ObuDataOK
<1>2. ObuInv'
  BY <1>1, ObuNextKeeps
<1>3. WireOK'
  <2>1. CASE net' = net
    BY <1>1, <2>1, WireKept DEF HandoverInv
  <2>2. ASSUME NEW r, net' = net \cup {r}, VehicleRequest(r)
        PROVE  WireOK'
    <3>1. RequestOK(r)' /\ ReplyOK(r)'
      BY <2>2 DEF VehicleRequest, RequestOK, ReplyOK
    <3> QED
      BY <1>1, <2>2, <3>1, WireGrows DEF HandoverInv
  <2> QED
    BY <1>1, <2>1, <2>2, VehicleSends
<1>4. HomeAgentIsHA' /\ AttachedWasBound'
  <2>1. CASE VehicleIdles
    <3>1. /\ obuHome # 0 => obuHome \in Indices
          /\ obuNow # 0 => obuNow \in Indices
      BY <1>1 DEF ObuDataOK, Indices
    <3>2. HomeAgentIsHA'
      BY <2>1, <3>1 DEF VehicleIdles, HandoverInv, HomeAgentIsHA
    <3>3. AttachedWasBound'
      BY <1>1, <2>1, <3>1 DEF VehicleIdles, HandoverInv, AttachedWasBound
    <3> QED
      BY <3>2, <3>3
  <2>2. CASE VehicleAttaches
    <3>1. PICK p \in net : /\ p.type = "reply" /\ net' = net
                           /\ \E i \in Match(p), same \in BOOLEAN :
                                Attach(i, p, same)
      BY <2>2 DEF VehicleAttaches
    <3>2. PICK i \in Match(p), same \in BOOLEAN : Attach(i, p, same)
      BY <3>1
    <3>3. /\ obuNow' = i /\ i \in Indices
          /\ obuList'[i].rep = p.rep /\ obuList'[i].dest = p.saddr
          /\ \E h \in HAs : <<h, p.rep.home, p.saddr>> \in haBound
          /\ obuHome' \in {i, obuHome}
          /\ obuHome' = i => i = obuHome \/ p.saddr \in HAs
          /\ \A j \in Indices : obuList'[j].dest = obuList[j].dest
      BY <3>1, <3>2, AttachBinds
    <3>4. HomeAgentIsHA'
      BY <1>1, <3>3 DEF HandoverInv, HomeAgentIsHA, Indices, ObuDataOK
    <3>5. AttachedWasBound'
      BY <1>1, <3>3 DEF AttachedWasBound
    <3> QED
      BY <3>4, <3>5
  <2>3. CASE VehicleForgets
    BY <2>3 DEF VehicleForgets, HomeAgentIsHA, AttachedWasBound
  <2> QED
    BY <1>1, <2>1, <2>2, <2>3, VehicleStep
<1>5. ListNames'
  BY <1>1, NamesKept
<1> QED
  BY <1>2, <1>3, <1>4, <1>5 DEF HandoverInv

-----------------------------------------------------------------------------
(***************************************************************************)
(* The foreign agents inside the composition: the vehicle is one of the    *)
(* vehicles that FASpec closes them with, and the home agents answer as    *)
(* FASpec assumes.                                                         *)
(***************************************************************************)
LEMMA HomeAnswerFits ==
  ASSUME HandoverInv, HandoverInv', FAInv, NEW a \in HAs,
         NEW p \in RequestsTo(a), net' = net \cup {HAReply(a, p)}
  PROVE  NetOK'
<1> DEFINE r == HAReply(a, p)
<1>1. /\ p \in net /\ p.type = "request" /\ p.daddr = a /\ RequestOK(p)
  BY DEF RequestsTo, HandoverInv, WireOK
<1>2. /\ r.type = "reply" /\ r.mac = a /\ r.saddr = a /\ r.daddr = p.saddr
      /\ r.rep.home = p.req.home /\ r.rep.ha = p.req.ha
      /\ r.rep.ident = p.req.ident
  BY DEF HAReply
<1> HIDE DEF r
<1>3. net' = net \cup {r}
  BY DEF r
<1>4. r \in Packets
  BY <1>3 DEF HandoverInv, ObuInv, ObuNetOK
<1>5. a \notin FAs /\ FAs \cap HomeAddrs = {}
  BY AgentsAssumption, AddressAssumption DEF Agents
<1>6. AskOK(r)' /\ ForwardOK(r)' /\ RelayOK(r)'
  BY <1>2, <1>5 DEF AskOK, ForwardOK, RelayOK
<1>7. AnswerOK(r)'
  <2>1. SUFFICES ASSUME p.saddr \in FAs
                 PROVE  /\ r.saddr = r.rep.ha
                        /\ \E q \in net' : /\ q.type = "request"
                                           /\ q.saddr = r.daddr
                                           /\ q.req.home = r.rep.home
                                           /\ q.req.ident = r.rep.ident
    BY <1>2, <1>5 DEF AnswerOK
  <2>2. p.req.ha = a
    BY <1>1, <1>5, <2>1 DEF RequestOK
  <2> QED
    BY <1>1, <1>2, <1>3, <2>2
<1>8. PacketOK(r)'
  BY <1>4, <1>6, <1>7 DEF PacketOK, Packets, Requests, Replies
<1> QED
  BY <1>3, <1>8, NetGrows DEF FAInv

(* All that a home agent sends is such an answer.                          *)
LEMMA HomeAgentSends ==
  ASSUME HANext
  PROVE  net' = net
           \/ \E a \in HAs : \E p \in RequestsTo(a) :
                net' = net \cup {HAReply(a, p)}
<1>1. PICK a \in HAs :
        (\E p \in RequestsTo(a) : HAHandleRequest(a, p)) \/ HARestart(a)
  BY DEF HANext
<1>2. CASE HARestart(a)
  BY <1>2 DEF HARestart
<1>3. ASSUME NEW p \in RequestsTo(a), HAHandleRequest(a, p)
      PROVE  net' = net \/ net' = net \cup {HAReply(a, p)}
  <2>1. CASE HAIgnoreFull(a, p)
    BY <2>1 DEF HAIgnoreFull
  <2>2. ASSUME NEW sent \in BOOLEAN, HAAccept(a, p, sent)
        PROVE  net' = net \/ net' = net \cup {HAReply(a, p)}
    <3>1. net' = IF sent THEN net \cup {HAReply(a, p)} ELSE net
      BY <2>2 DEF HAAccept
    <3> QED
      BY <3>1
  <2> QED
    BY <1>3, <2>1, <2>2 DEF HAHandleRequest
<1> QED
  BY <1>1, <1>2, <1>3

LEMMA VehicleAskFits ==
  ASSUME HandoverInv', FAInv, NEW r, net' = net \cup {r}, VehicleRequest(r)
  PROVE  NetOK'
<1>1. r \in Packets
  BY DEF HandoverInv, ObuInv, ObuNetOK
<1>2. r.mac \notin FAs
  BY AddressAssumption DEF VehicleRequest, Agents
<1>3. AskOK(r)' /\ ForwardOK(r)' /\ RelayOK(r)' /\ AnswerOK(r)'
  BY <1>2 DEF VehicleRequest, AskOK, ForwardOK, RelayOK, AnswerOK
<1>4. PacketOK(r)'
  BY <1>1, <1>3 DEF PacketOK, Packets, Requests, Replies
<1> QED
  BY <1>4, NetGrows DEF FAInv

(* What FASpec assumes of vehicles and home agents is what they do.        *)
LEMMA ForeignAgentsNext ==
  HandoverInv /\ HandoverInv' /\ FAInv /\ [HandoverNext]_hoVars => FAInv'
<1>1. SUFFICES ASSUME HandoverInv, HandoverInv', FAInv,
                      [HandoverNext]_hoVars
               PROVE  FAInv'
  OBVIOUS
<1>2. CASE net' = net /\ UNCHANGED faVars
  BY <1>1, <1>2, NetStays, AgentsIdle DEF FAInv
<1>3. CASE HAStep
  <2>1. UNCHANGED faVars /\ HANext
    BY <1>3 DEF HAStep
  <2>2. net' = net
          \/ \E a \in HAs : \E p \in RequestsTo(a) :
               net' = net \cup {HAReply(a, p)}
    BY <2>1, HomeAgentSends
  <2>3. net \subseteq net' /\ NetOK'
    BY <1>1, <2>2, HomeAnswerFits, NetStays DEF FAInv
  <2> QED
    BY <1>1, <2>1, <2>3, AgentsIdle
<1>4. CASE FAStep
  <2>1. obuAddr # NoAddr => obuAddr \in HomeAddrs
    BY <1>1 DEF HandoverInv, ObuInv, ObuCore, ObuDataOK
  <2>2. PICK f \in FAs :
          FAHandle(f) \/ (obuAddr # NoAddr /\ FAHandleArp(f, obuAddr))
    BY <1>4 DEF FAStep
  <2>3. CASE FAHandle(f)
    BY <1>1, <2>3, FAInvNext DEF FASpecNext, FANext
  <2>4. CASE obuAddr # NoAddr /\ FAHandleArp(f, obuAddr)
    BY <1>1, <2>1, <2>4, ArpKeeps
  <2> QED
    BY <2>2, <2>3, <2>4
<1>5. CASE ObuStep
  <2>1. UNCHANGED faVars /\ ObuNext
    BY <1>5 DEF ObuStep
  <2>2. net' = net \/ \E r : net' = net \cup {r} /\ VehicleRequest(r)
    BY <1>1, <2>1, VehicleSends
  <2>3. net \subseteq net' /\ NetOK'
    BY <1>1, <2>2, VehicleAskFits, NetStays DEF FAInv
  <2> QED
    BY <1>1, <2>1, <2>3, AgentsIdle
<1> QED
  BY <1>1, <1>2, <1>3, <1>4, <1>5 DEF HandoverNext, hoVars
-----------------------------------------------------------------------------
(* The invariant of the composition: what a foreign agent is at work for   *)
(* is part of why what it sends is right.                                  *)
LEMMA AgentsInvariant == HandoverSpec => [](HandoverInv /\ FAInv)
<1>1. HandoverInit => HandoverInv
  <2> SUFFICES ASSUME HandoverInit
               PROVE  HandoverInv
    OBVIOUS
  <2>1. ObuInit /\ net = {}
    BY DEF HandoverInit
  <2>2. Fresh
    BY <2>1, IdentAssumption, ObuBoundsAssumption DEF ObuInit, Fresh
  <2>3. ObuInv
    BY <2>1, <2>2, FreshKeeps DEF ObuInv, ObuNetOK
  <2>4. WireOK /\ ListNames /\ HomeAgentIsHA /\ AttachedWasBound
    BY <2>1 DEF ObuInit, WireOK, ListNames, Indices, HomeAgentIsHA,
                AttachedWasBound
  <2> QED
    BY <2>3, <2>4 DEF HandoverInv
<1>3. HandoverInit => FAInv
  BY FAInvInit DEF HandoverInit, FASpecInit
<1>2. HandoverInv /\ FAInv /\ [HandoverNext]_hoVars => HandoverInv'
  <2>1. SUFFICES ASSUME HandoverInv, FAInv, [HandoverNext]_hoVars
                 PROVE  HandoverInv'
    OBVIOUS
  <2>2. CASE UNCHANGED hoVars
    BY <2>1, <2>2, WireKept, NetKept, AgentsStep
      DEF hoVars, haVars, HandoverInv, ObuInv
  <2> QED
    BY <2>1, <2>2, HAStepKeeps, FAStepKeeps, ObuStepKeeps DEF HandoverNext
<1> QED
  BY <1>1, <1>2, <1>3, ForeignAgentsNext, PTL DEF HandoverSpec

(* Its half about the vehicle and the wire.                                *)
THEOREM HandoverInvariant == HandoverSpec => []HandoverInv
BY AgentsInvariant, PTL

(* The vehicle's home agent is a home agent, whichever agent is heard      *)
(* first and whatever is lost, repeated or late.                           *)
THEOREM HomeAgentAlwaysHA == HandoverSpec => []HomeAgentIsHA
<1>1. HandoverInv => HomeAgentIsHA
  BY DEF HandoverInv
<1> QED
  BY <1>1, HandoverInvariant, PTL

(* The vehicle is connected only to an agent that a home agent has bound   *)
(* its home address to.                                                    *)
THEOREM AttachedAlwaysBound == HandoverSpec => []AttachedWasBound
<1>1. HandoverInv => AttachedWasBound
  BY DEF HandoverInv
<1> QED
  BY <1>1, HandoverInvariant, PTL

-----------------------------------------------------------------------------
(* A binding of a home agent is a Bind of the abstract specification; its  *)
(* other steps and all of a foreign agent's do not show.                   *)
BoundPairs == {<<b[2], b[3]>> : b \in haBound}

LEMMA BindStep ==
  ASSUME HandoverInv, HAStep
  PROVE  A!AttachmentNext \/ UNCHANGED <<BoundPairs, AttachedTo>>
<1>1. AttachedTo' = AttachedTo
  BY DEF HAStep, obuVars, AttachedTo
<1>2. CASE haBound' = haBound
  BY <1>1, <1>2 DEF BoundPairs
<1>3. ASSUME NEW a \in HAs, NEW p \in RequestsTo(a), NEW sent \in BOOLEAN,
             HAAccept(a, p, sent)
      PROVE  A!AttachmentNext
  <2>1. p.req.home \in HomeAddrs /\ p.req.coa \in Agents
    <3>1. p \in Packets /\ p.type = "request"
      BY DEF RequestsTo, HandoverInv, ObuInv, ObuNetOK
    <3>2. p.req \in RequestPayloads
      BY <3>1 DEF Packets, Requests, Replies
    <3> QED
      BY <3>2 DEF RequestPayloads
  <2>2. haBound' = haBound \cup {<<a, p.req.home, p.req.coa>>}
    BY <1>3 DEF HAAccept
  <2>3. BoundPairs' = BoundPairs \cup {<<p.req.home, p.req.coa>>}
    <3> DEFINE new == <<a, p.req.home, p.req.coa>>
    <3>1. <<new[2], new[3]>> = <<p.req.home, p.req.coa>>
      OBVIOUS
    <3> HIDE DEF new
    <3>2. haBound' = haBound \cup {new}
      BY <2>2 DEF new
    <3>3. BoundPairs' = BoundPairs \cup {<<new[2], new[3]>>}
      BY <3>2, Zenon DEF BoundPairs
    <3> QED
      BY <3>1, <3>3
  <2>4. A!Bind(p.req.home, p.req.coa)
    BY <1>1, <2>3 DEF A!Bind, BoundPairs
  <2> QED
    BY <2>1, <2>4 DEF A!AttachmentNext
<1> QED
  BY <1>2, <1>3 DEF HAStep, HANext, HAHandleRequest, HAIgnoreFull, HARestart,
                    haVars

(* The vehicle's handover is an Attached, its restart a Detach.            *)
LEMMA AttachStep ==
  ASSUME HandoverInv, ObuStep
  PROVE  A!AttachmentNext \/ UNCHANGED <<BoundPairs, AttachedTo>>
<1>1. ObuNext /\ haBound' = haBound /\ ObuDataOK /\ Len(obuList) \in Nat
  BY LenProperties
    DEF ObuStep, haVars, HandoverInv, ObuInv, ObuCore, ObuDataOK
<1>2. BoundPairs' = BoundPairs
  BY <1>1 DEF BoundPairs
<1>3. CASE VehicleIdles
  <2>1. obuNow # 0 => obuNow \in Indices
    BY <1>1 DEF ObuDataOK, Indices
  <2>2. AttachedTo' = AttachedTo
    BY <1>3, <2>1 DEF VehicleIdles, AttachedTo
  <2> QED
    BY <1>2, <2>2
<1>4. CASE VehicleAttaches
  <2>1. PICK p \in net : /\ p.type = "reply" /\ net' = net
                         /\ \E i \in Match(p), same \in BOOLEAN :
                              Attach(i, p, same)
    BY <1>4 DEF VehicleAttaches
  <2>2. PICK i \in Match(p), same \in BOOLEAN : Attach(i, p, same)
    BY <2>1
  <2> DEFINE home == p.rep.home
             agent == p.saddr
  <2>3. /\ obuNow' = i /\ i \in Indices
        /\ obuList'[i].rep = p.rep /\ obuList'[i].dest = agent
        /\ p.rep \in ReplyPayloads /\ agent \in Agents
        /\ \E h \in HAs : <<h, home, agent>> \in haBound
    BY <2>1, <2>2, AttachBinds
  <2>4. home \in HomeAddrs /\ i # 0
    BY <1>1, <2>3 DEF ReplyPayloads, Indices
  <2>5. AttachedTo' = <<home, agent>>
    BY <2>3, <2>4 DEF AttachedTo
  <2>6. <<home, agent>> \in BoundPairs
    <3>1. PICK h \in HAs : <<h, home, agent>> \in haBound
      BY <2>3
    <3> DEFINE b == <<h, home, agent>>
    <3>2. b[2] = home /\ b[3] = agent
      OBVIOUS
    <3> QED
      BY <3>1, <3>2 DEF BoundPairs
  <2>7. A!Attached(home, agent)
    BY <1>2, <2>5, <2>6 DEF A!Attached, BoundPairs
  <2> HIDE DEF home, agent
  <2> QED
    BY <2>3, <2>4, <2>7 DEF A!AttachmentNext
<1>5. CASE VehicleForgets
  <2>1. AttachedTo' = A!Nowhere
    BY <1>5 DEF VehicleForgets, AttachedTo, A!Nowhere
  <2>2. A!Detach
    BY <1>2, <2>1 DEF A!Detach, BoundPairs
  <2> QED
    BY <2>2 DEF A!AttachmentNext
<1> QED
  BY <1>1, <1>3, <1>4, <1>5, VehicleStep

(* The handover protocol, with all that may be lost or repeated and every  *)
(* restart, implements the abstract attachment: a home agent binds before  *)
(* a vehicle attaches.                                                     *)
THEOREM HandoverImplements == HandoverSpec => ImplementsAttachment
<1>1. HandoverInit => A!AttachmentInit
  BY DEF HandoverInit, HAInit, ObuInit, A!AttachmentInit, A!Nowhere, AttachedTo
<1>2. HandoverInv /\ [HandoverNext]_hoVars
        => [A!AttachmentNext]_<<{<<b[2], b[3]>> : b \in haBound}, AttachedTo>>
  <2>1. SUFFICES ASSUME HandoverInv, [HandoverNext]_hoVars
                 PROVE  A!AttachmentNext
                          \/ UNCHANGED <<BoundPairs, AttachedTo>>
    BY DEF BoundPairs
  <2>2. CASE FAStep
    BY <2>2 DEF FAStep, haVars, obuVars, BoundPairs, AttachedTo
  <2>3. CASE UNCHANGED hoVars
    BY <2>3 DEF hoVars, haVars, obuVars, BoundPairs, AttachedTo
  <2> QED
    BY <2>1, <2>2, <2>3, BindStep, AttachStep DEF HandoverNext
<1> QED
  BY <1>1, <1>2, HandoverInvariant, PTL
    DEF HandoverSpec, ImplementsAttachment, A!AttachmentSpec

-----------------------------------------------------------------------------
(***************************************************************************)
(* The home agents inside the composition: what HASpec assumes of the      *)
(* clients is what the vehicle and the foreign agents do.                  *)
(***************************************************************************)
HomeAgentsOK ==
  /\ HAInv /\ HARouteAgrees /\ HARepliesBacked /\ HAConnectedWasTold

LEMMA NetFits == HandoverInv => HANetOK
BY DEF HandoverInv, WireOK, RequestOK, ObuInv, ObuNetOK, HANetOK

(* The steps of the others leave the home agents as they are, and no packet*)
(* they send has a home agent's address.                                   *)
LEMMA HomeAgentsIdle ==
  ASSUME HomeAgentsOK, HANetOK', UNCHANGED haVars, net \subseteq net',
         \A p \in net' \ net : p.type = "reply" => p.saddr \notin HAs
  PROVE  HomeAgentsOK'
<1>1. /\ haSlots' = haSlots /\ haNum' = haNum /\ haRoute' = haRoute
      /\ haTunnels' = haTunnels /\ haSock' = haSock /\ haBound' = haBound
      /\ haRestarts' = haRestarts
  BY DEF haVars
<1>2. HATypeOK' /\ HATableSound'
  BY <1>1 DEF HomeAgentsOK, HAInv, HATypeOK, HATableSound, Used
<1>3. HARouteAgrees'
  BY <1>1 DEF HomeAgentsOK, HARouteAgrees, RouteFits, Used
<1>4. HARepliesBacked'
  BY <1>1 DEF HomeAgentsOK, HARepliesBacked, SlotsOf, Used
<1>5. HAConnectedWasTold'
  BY <1>1 DEF HomeAgentsOK, HAConnectedWasTold, Used
<1> QED
  BY <1>2, <1>3, <1>4, <1>5 DEF HomeAgentsOK, HAInv

(* A step of a home agent is a step of HASpec.                             *)
LEMMA HomeAgentsStep == HomeAgentsOK /\ HANext => HomeAgentsOK'
BY HAInvNext, RouteAgreesNext, RepliesBackedNext, ConnectedWasToldNext
  DEF HomeAgentsOK, HASpecNext

(* What a foreign agent sends has its own address.                         *)
LEMMA ForeignSends ==
  ASSUME NEW f \in FAs, NEW p, p.saddr = f, FASend(f, p)
  PROVE  /\ net \subseteq net'
         /\ \A q \in net' \ net : q.type = "reply" => q.saddr \notin HAs
BY AgentsAssumption DEF FASend

LEMMA ForeignStep ==
  ASSUME FAStep
  PROVE  /\ net \subseteq net'
         /\ \A q \in net' \ net : q.type = "reply" => q.saddr \notin HAs
<1> DEFINE Quiet ==
             /\ net \subseteq net'
             /\ \A q \in net' \ net : q.type = "reply" => q.saddr \notin HAs
<1>1. PICK f \in FAs :
        FAHandle(f) \/ (obuAddr # NoAddr /\ FAHandleArp(f, obuAddr))
  BY DEF FAStep
<1>2. net' = net => Quiet
  OBVIOUS
<1>3. ASSUME NEW req, FASend(f, ForwardedRequest(f, req))
      PROVE  Quiet
  <2>1. ForwardedRequest(f, req).saddr = f
    BY DEF ForwardedRequest
  <2> QED
    BY <1>3, <2>1, ForeignSends
<1>4. ASSUME NEW rep, FASend(f, RelayedReply(f, rep))
      PROVE  Quiet
  <2>1. RelayedReply(f, rep).saddr = f
    BY DEF RelayedReply
  <2> QED
    BY <1>4, <2>1, ForeignSends
<1> HIDE DEF Quiet
<1>5. FASilent => Quiet
  BY <1>2 DEF FASilent
<1>6. FAHandle(f) \/ FAHandleArp(f, obuAddr) => Quiet
  BY <1>2, <1>3, <1>4, <1>5
    DEF FAHandle, FAHandleRequest, FARequestRegisted, FARequestNewcomer,
        FAHandleReply, FARestart, FAHandleArp, FAWork, FATunnel, FALinkUp,
        FARoute, FADeleteRule, FANewRule, FAForward
<1> QED
  BY <1>1, <1>6 DEF Quiet

(* The vehicle and the foreign agents are clients: they send, and leave    *)
(* the home agents alone.                                                  *)
LEMMA OthersAreClients ==
  ASSUME HandoverInv, FAStep \/ ObuStep
  PROVE  /\ UNCHANGED haVars /\ net \subseteq net'
         /\ \A q \in net' \ net : q.type = "reply" => q.saddr \notin HAs
<1>1. UNCHANGED haVars
  BY DEF FAStep, ObuStep
<1>2. CASE ObuStep
  <2>1. net' = net \/ \E r : net' = net \cup {r} /\ VehicleRequest(r)
    BY <1>2, VehicleSends DEF ObuStep
  <2> QED
    BY <1>1, <2>1 DEF VehicleRequest
<1> QED
  BY <1>1, <1>2, ForeignStep

(* With the vehicle and the foreign agents as clients a home agent keeps   *)
(* every promise it makes alone: its table is sound, its routes are those  *)
(* of its bindings, and its replies stand for them.                        *)
THEOREM HomeAgentsAlwaysOK == HandoverSpec => []HomeAgentsOK
<1>1. HandoverInit => HomeAgentsOK
  <2> SUFFICES ASSUME HandoverInit
               PROVE  HomeAgentsOK
    OBVIOUS
  <2>1. HASpecInit
    BY DEF HandoverInit, HASpecInit
  <2>2. HAInv
    BY <2>1, HAInvInit
  <2>3. HARouteAgrees /\ HARepliesBacked /\ HAConnectedWasTold
    BY <2>1 DEF HASpecInit, HAInit, HARouteAgrees, HARepliesBacked,
                HAConnectedWasTold, Used, Empty
  <2> QED
    BY <2>2, <2>3 DEF HomeAgentsOK
<1>2. HandoverInv' => HANetOK'
  BY NetFits, PTL
<1>3. HandoverInv /\ HandoverInv' /\ HomeAgentsOK /\ [HandoverNext]_hoVars
        => HomeAgentsOK'
  <2>1. SUFFICES ASSUME HandoverInv, HandoverInv', HomeAgentsOK,
                        [HandoverNext]_hoVars
                 PROVE  HomeAgentsOK'
    OBVIOUS
  <2>2. HANetOK'
    BY <1>2, <2>1
  <2>3. CASE HAStep
    BY <2>1, <2>3, HomeAgentsStep DEF HAStep
  <2>4. CASE FAStep \/ ObuStep
    BY <2>1, <2>2, <2>4, OthersAreClients, HomeAgentsIdle
  <2>6. CASE UNCHANGED hoVars
    BY <2>1, <2>2, <2>6, HomeAgentsIdle DEF hoVars
  <2> QED
    BY <2>1, <2>3, <2>4, <2>6 DEF HandoverNext
<1> QED
  BY <1>1, <1>3, HandoverInvariant, PTL DEF HandoverSpec

(* Inside the protocol, too, the home agents keep a registry, whatever the *)
(* vehicle asks and the foreign agents forward.                            *)
THEOREM HandoverKeepsRegistry == HandoverSpec => HAImplementsRegistry
<1>1. HandoverInit => Book!RegistryInit
  <2> SUFFICES ASSUME HandoverInit PROVE Book!RegistryInit
    OBVIOUS
  <2>1. \A a \in HAs : Lines(a) = {}
    BY DEF HandoverInit, HAInit, Lines, Used, Empty
  <2>2. Acknowledged = {}
    BY DEF HandoverInit, Acknowledged
  <2> QED
    BY <2>1, <2>2 DEF Book!RegistryInit
<1>2. HandoverInv /\ HomeAgentsOK /\ [HandoverNext]_hoVars
        => [Book!RegistryNext]_<<[a \in HAs |-> Lines(a)], Acknowledged>>
  <2> SUFFICES
        ASSUME HandoverInv, HomeAgentsOK, [HandoverNext]_hoVars
        PROVE  [Book!RegistryNext]_<<[a \in HAs |-> Lines(a)], Acknowledged>>
    OBVIOUS
  <2>1. CASE HAStep
    BY <2>1, HAStepRegisters DEF HAStep, HomeAgentsOK
  <2>2. CASE FAStep \/ ObuStep
    <3>1. /\ UNCHANGED haVars /\ net \subseteq net'
          /\ \A q \in net' \ net : q.type = "reply" => q.saddr \notin HAs
      BY <2>2, OthersAreClients
    <3>2. Acknowledged' = Acknowledged
      BY <3>1 DEF Acknowledged
    <3> QED
      BY <3>1, <3>2 DEF haVars, Lines, Used
  <2>3. CASE UNCHANGED hoVars
    BY <2>3 DEF hoVars, haVars, Lines, Used, Acknowledged
  <2> QED
    BY <2>1, <2>2, <2>3 DEF HandoverNext
<1> QED
  BY <1>1, <1>2, HandoverInvariant, HomeAgentsAlwaysOK, PTL
  DEF HandoverSpec, HAImplementsRegistry, Book!RegistrySpec

-----------------------------------------------------------------------------
ForeignAgentsOK ==
  /\ FATypeOK /\ FAForwardsVisitors /\ FARelayBacked
  /\ FARuleComplete /\ FAConnectedWasAccepted

(* Inside the composition, too, a foreign agent forwards what a vehicle    *)
(* asked, relays what the home agent named in it has said, and has a rule  *)
(* that is not its route's only while it is at work or was cut off.        *)
THEOREM ForeignAgentsAlwaysOK == HandoverSpec => []ForeignAgentsOK
<1>1. FAInv => ForeignAgentsOK
  BY NetSays DEF FAInv, ForeignAgentsOK
<1> QED
  BY <1>1, AgentsInvariant, PTL
=============================================================================
