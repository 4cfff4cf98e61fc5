----------------------------- MODULE Obu_proofs -----------------------------
(***************************************************************************)
(* Proofs about the OBU, for every set of agents, every list size and any  *)
(* answers of the agents.                                                  *)
(***************************************************************************)
EXTENDS Obu, SequenceTheorems, TLAPS

(* The types of the numbers and lists, and of the flags.                   *)
ObuDataOK ==
  /\ obuPc \in {"wsa", "send", "await", "reset", "dead"}
  /\ obuList \in Seq(Entries) /\ Len(obuList) <= MaxList
  /\ obuSend \in 0 .. Len(obuList)
  /\ obuConnecting \in {"none", "home", "foreign"}
  /\ obuHome \in 0 .. Len(obuList)
  /\ obuNow \in 0 .. Len(obuList)
  /\ obuAddr \in HomeAddrs \cup {NoAddr}
  /\ obuGw \in Agents \cup {NoAgent}
  /\ obuPrompt \in 0 .. Len(obuList)
  /\ obuRx \in Seq(Replies) /\ Len(obuRx) <= RxMax
  /\ obuIdent \in 0 .. MaxIdent
  /\ obuTimeouts \in 0 .. MaxTimeouts
  /\ obuRestarts \in 0 .. MaxObuRestarts

ObuFlagsOK ==
  obuWaiting \in BOOLEAN /\ obuAuto \in BOOLEAN /\ obuSock \in BOOLEAN

(* Every home address on the network is of the network of the home agent   *)
(* that is named beside it.                                                *)
HomeIs(home, ha) == home \in HomeAddrs => home[1] = ha

ObuNetOK ==
  /\ net \subseteq Packets
  /\ \A p \in net : p.type = "request" =>
       HomeIs(p.saddr, p.req.ha) /\ HomeIs(p.req.home, p.req.ha)
  /\ \A p \in net : p.type = "reply" =>
       HomeIs(p.daddr, p.rep.ha) /\ HomeIs(p.rep.home, p.rep.ha)

(* So it is in the agent list; and without a home agent every agent heard  *)
(* is named as its own.                                                    *)
Sound(e, home) ==
  /\ e.src = <<e.ha, FixedHost>> /\ e.home[1] = e.ha
  /\ home = 0 => e.ha = e.dest

ObuListSound == \A i \in Indices : Sound(obuList[i], obuHome)

(* What the socket holds has been sent.                                    *)
ObuRxSent == \A n \in 1 .. Len(obuRx) : obuRx[n] \in net

(* A wait that has begun in this tick has an agent before the loop gets    *)
(* to it, whatever the command thread writes.                              *)
ObuAskedSomeone == obuPc = "send" /\ obuWaiting => obuSend # 0

ObuScalars ==
  ObuAskedSomeone /\ ObuAwaitsSomeone /\ ObuHomeConsistent

ObuCore ==
  /\ ObuDataOK /\ ObuFlagsOK
  /\ ObuListSound /\ ObuOneEntryPerAgent
  /\ ObuScalars /\ ObuRxSent /\ ObuConnectedWasAccepted

ObuInv == ObuCore /\ ObuNetOK

LEMMA ObuTypes == ObuTypeOK <=> ObuDataOK /\ ObuFlagsOK
BY DEF ObuTypeOK, ObuDataOK, ObuFlagsOK

-----------------------------------------------------------------------------
(* The agent list: what an entry holds.                                    *)
LEMMA EntryTyped ==
  ASSUME ObuDataOK, NEW i \in Indices
  PROVE  /\ obuList[i] \in Entries
         /\ obuList[i].dest \in Agents /\ obuList[i].ha \in Agents
         /\ obuList[i].src \in HomeAddrs /\ obuList[i].home \in HomeAddrs
<1>1. obuList[i] \in Entries
  BY ElementOfSeq DEF ObuDataOK, Indices
<1> QED
  BY <1>1 DEF Entries

(* The list while nothing is written to it.                                *)
LEMMA ListKept ==
  ASSUME ObuCore, obuList' = obuList, obuHome' = 0 => obuHome = 0
  PROVE  ObuListSound' /\ ObuOneEntryPerAgent'
BY DEF ObuCore, ObuListSound, Sound, ObuOneEntryPerAgent, Indices

(* One entry is written, for the agent it was for.                         *)
LEMMA EntryWritten ==
  ASSUME ObuCore, NEW i \in Indices, NEW e \in Entries,
         obuList' = [obuList EXCEPT ![i] = e],
         obuHome' = 0 => obuHome = 0,
         e.dest = obuList[i].dest, Sound(e, obuHome')
  PROVE  /\ obuList' \in Seq(Entries) /\ Len(obuList') = Len(obuList)
         /\ \A j \in Indices : obuList'[j].dest = obuList[j].dest
         /\ \A j \in Indices : j # i => obuList'[j] = obuList[j]
         /\ obuList'[i] = e
         /\ ObuListSound' /\ ObuOneEntryPerAgent'
<1>1. obuList \in Seq(Entries) /\ i \in 1 .. Len(obuList)
  BY DEF ObuCore, ObuDataOK, Indices
<1>2. /\ obuList' \in Seq(Entries) /\ Len(obuList') = Len(obuList)
      /\ \A j \in 1 .. Len(obuList) :
           obuList'[j] = IF j = i THEN e ELSE obuList[j]
  BY <1>1, ExceptSeq
<1>3. \A j \in Indices : obuList'[j].dest = obuList[j].dest
  BY <1>2 DEF Indices
<1>4. ObuOneEntryPerAgent'
  BY <1>2, <1>3 DEF ObuCore, ObuOneEntryPerAgent, Indices
<1>5. ObuListSound'
  BY <1>2 DEF ObuCore, ObuListSound, Sound, Indices
<1> QED
  BY <1>2, <1>3, <1>4, <1>5 DEF Indices

(* The entry of a newly heard agent.                                       *)
LEMMA NewEntryTyped ==
  ASSUME ObuCore, NEW a \in Agents
  PROVE  /\ NewEntry(a) \in Entries
         /\ NewEntry(a).dest = a /\ Sound(NewEntry(a), obuHome)
         /\ NewEntry(a).type = "unknown"
<1>1. CASE obuHome = 0
  BY <1>1 DEF NewEntry, Entries, HomeAddrs, AgentTypes, Sound
<1>2. CASE obuHome # 0
  <2>1. obuHome \in Indices
    BY <1>2 DEF ObuCore, ObuDataOK, Indices
  <2>2. obuList[obuHome] \in Entries /\ Sound(obuList[obuHome], obuHome)
    BY <2>1, EntryTyped DEF ObuCore, ObuListSound
  <2> DEFINE e == obuList[obuHome]
  <2>3. NewEntry(a) = [dest |-> a, src |-> e.src, home |-> e.home, ha |-> e.ha,
                       type |-> "unknown", rep |-> NoReply]
    BY <1>2, <2>2 DEF NewEntry, Entries
  <2> QED
    BY <1>2, <2>2, <2>3 DEF Entries, AgentTypes, Sound
<1> QED
  BY <1>1, <1>2

(* It is appended.                                                         *)
LEMMA EntryAdded ==
  ASSUME ObuCore, NEW a \in Agents, IndexOf(a) = {},
         obuList' = Append(obuList, NewEntry(a)), obuHome' = obuHome
  PROVE  /\ obuList' \in Seq(Entries) /\ Len(obuList') = Len(obuList) + 1
         /\ \A j \in Indices : obuList'[j] = obuList[j]
         /\ ObuListSound' /\ ObuOneEntryPerAgent'
<1> DEFINE e == NewEntry(a)
           n == Len(obuList)
<1>1. obuList \in Seq(Entries) /\ n \in Nat
  BY LenProperties DEF ObuCore, ObuDataOK
<1>2. e \in Entries /\ e.dest = a /\ Sound(e, obuHome)
  BY NewEntryTyped
<1> HIDE DEF e
<1>3. /\ obuList' \in Seq(Entries) /\ Len(obuList') = n + 1
      /\ \A j \in 1 .. n : obuList'[j] = obuList[j]
      /\ obuList'[n + 1] = e
  BY <1>1, <1>2, AppendProperties DEF e
<1>4. \A j \in Indices' : j \in Indices \/ j = n + 1
  BY <1>1, <1>3 DEF Indices
<1>5. \A j \in Indices : obuList[j].dest # a
  BY DEF IndexOf
<1>6. ObuListSound'
  BY <1>2, <1>3, <1>4 DEF ObuCore, ObuListSound, Sound, Indices
<1>7. ObuOneEntryPerAgent'
  BY <1>2, <1>3, <1>4, <1>5 DEF ObuCore, ObuOneEntryPerAgent, Indices
<1> QED
  BY <1>3, <1>6, <1>7 DEF Indices

(* A known entry after a refresh.                                          *)
LEMMA RefreshedTyped ==
  ASSUME ObuCore, NEW i \in Indices, NEW e \in Refreshed(i)
  PROVE  /\ e \in Entries /\ e.dest = obuList[i].dest
         /\ Sound(e, obuHome)
<1> DEFINE old == obuList[i]
<1>1. old \in Entries /\ Sound(old, obuHome)
  BY EntryTyped DEF ObuCore, ObuListSound
<1>2. CASE obuHome # 0
  <2>1. obuHome \in Indices
    BY <1>2 DEF ObuCore, ObuDataOK, Indices
  <2> DEFINE h == obuList[obuHome]
  <2>2. h \in Entries /\ Sound(h, obuHome)
    BY <2>1, EntryTyped DEF ObuCore, ObuListSound
  <2>3. e = [old EXCEPT !.src = h.src, !.home = h.home, !.ha = h.ha]
    BY <1>2 DEF Refreshed
  <2> HIDE DEF h, old
  <2>4. e = [dest |-> old.dest, src |-> h.src, home |-> h.home, ha |-> h.ha,
             type |-> old.type, rep |-> old.rep]
    BY <1>1, <2>3 DEF Entries
  <2>5. e \in Entries /\ e.dest = old.dest /\ Sound(e, obuHome)
    BY <1>1, <1>2, <2>2, <2>4 DEF Entries, Sound
  <2> QED
    BY <2>5 DEF old
<1>3. CASE obuHome = 0 /\ old.type = "unknown"
  <2>1. PICK x \in SwappedHosts :
          e = [old EXCEPT !.home = <<old.dest, x>>, !.ha = old.dest]
    BY <1>3 DEF Refreshed
  <2> HIDE DEF old
  <2>2. e = [dest |-> old.dest, src |-> old.src, home |-> <<old.dest, x>>,
             ha |-> old.dest, type |-> old.type, rep |-> old.rep]
    BY <1>1, <2>1 DEF Entries
  <2>3. e \in Entries /\ e.dest = old.dest /\ Sound(e, obuHome)
    BY <1>1, <1>3, <2>2 DEF Entries, Sound, HomeAddrs
  <2> QED
    BY <2>3 DEF old
<1>4. CASE obuHome = 0 /\ old.type # "unknown"
  BY <1>1, <1>4 DEF Refreshed
<1> QED
  BY <1>2, <1>3, <1>4

-----------------------------------------------------------------------------
(* What is sent is a packet, and nothing on the network is taken away.     *)
LEMMA RequestSent ==
  ASSUME ObuInv, NEW e \in Entries, Sound(e, obuHome), NEW sent \in BOOLEAN,
         SendRequest(e, sent)
  PROVE  /\ net \subseteq net' /\ ObuNetOK'
         /\ obuIdent' \in 0 .. MaxIdent /\ obuSock' \in BOOLEAN
<1>1. obuIdent \in 0 .. MaxIdent /\ MaxIdent \in Nat /\ obuSock \in BOOLEAN
  BY IdentAssumption DEF ObuInv, ObuCore, ObuDataOK, ObuFlagsOK
<1>2. CASE sent
  <2>1. obuIdent + 1 \in 0 .. MaxIdent
    BY <1>1, <1>2 DEF SendRequest, SendOk
  <2>2. Request(e) \in Packets
    <3>1. Request(e).req \in RequestPayloads
      BY <2>1 DEF Request, RequestPayloads, Entries, Idents
    <3> QED
      BY <3>1, VehicleAssumption DEF Request, Packets, Requests, Entries
  <2>3. HomeIs(Request(e).saddr, Request(e).req.ha)
    BY DEF HomeIs, Request, Sound
  <2>4. HomeIs(Request(e).req.home, Request(e).req.ha)
    BY DEF HomeIs, Request, Sound
  <2>5. Request(e).type = "request"
    BY DEF Request
  <2>6. net' = net \cup {Request(e)} /\ obuIdent' = obuIdent + 1
        /\ obuSock' = obuSock
    BY <1>2 DEF SendRequest
  <2>7. ObuNetOK'
    BY <2>2, <2>3, <2>4, <2>5, <2>6 DEF ObuInv, ObuNetOK, HomeIs
  <2> QED
    BY <1>1, <2>1, <2>6, <2>7
<1>3. CASE ~sent
  BY <1>1, <1>3 DEF SendRequest, ObuInv, ObuNetOK
<1> QED
  BY <1>2, <1>3

(* What was accepted stays accepted.                                       *)
LEMMA AcceptedKept ==
  ASSUME ObuCore, net \subseteq net', obuNow' = obuNow,
         obuNow # 0 => obuList'[obuNow].dest = obuList[obuNow].dest
  PROVE  ObuConnectedWasAccepted'
BY DEF ObuCore, ObuConnectedWasAccepted

LEMMA RxKept ==
  ASSUME ObuCore, net \subseteq net', obuRx' = obuRx
  PROVE  ObuRxSent'
BY DEF ObuCore, ObuRxSent

LEMMA NetKept ==
  ASSUME ObuNetOK, net' = net
  PROVE  ObuNetOK'
BY DEF ObuNetOK

-----------------------------------------------------------------------------
(* An agent is heard for the first time.                                   *)
LEMMA HearNewKeeps ==
  ASSUME ObuInv, NEW a \in Agents, HearNew(a)
  PROVE  ObuInv'
<1> DEFINE e == NewEntry(a)
           n == Len(obuList)
<1>1. ObuCore /\ ObuDataOK /\ ObuFlagsOK /\ ObuScalars /\ n \in Nat
  BY LenProperties DEF ObuInv, ObuCore, ObuDataOK
<1>2. e \in Entries /\ Sound(e, obuHome)
  BY <1>1, NewEntryTyped
<1>3. /\ obuList' \in Seq(Entries) /\ Len(obuList') = n + 1
      /\ \A j \in Indices : obuList'[j] = obuList[j]
      /\ ObuListSound' /\ ObuOneEntryPerAgent'
  BY <1>1, EntryAdded DEF HearNew, WsaOther
<1>4. /\ net \subseteq net' /\ ObuNetOK'
      /\ obuIdent' \in 0 .. MaxIdent /\ obuSock' \in BOOLEAN
  <2>1. CASE AsksNewcomer
    <3>1. PICK sent \in BOOLEAN : SendRequest(e, sent)
      BY <2>1 DEF HearNew
    <3> QED
      BY <1>2, <3>1, RequestSent
  <2>2. CASE ~AsksNewcomer
    BY <1>1, <2>2, NetKept
      DEF HearNew, NoRequest, ObuInv, ObuDataOK, ObuFlagsOK
  <2> QED
    BY <2>1, <2>2
<1>5. /\ obuWaiting' \in BOOLEAN /\ obuSend' \in 0 .. n + 1
      /\ obuWaiting' => obuSend' # 0
  <2>1. ~obuWaiting /\ obuSend \in 0 .. n
    BY <1>1 DEF HearNew, ObuScalars, ObuAwaitsSomeone, ObuDataOK
  <2>2. CASE AsksNewcomer
    <3>1. PICK sent \in BOOLEAN :
            /\ obuSend' = IF sent THEN n + 1 ELSE 0
            /\ obuWaiting' = WaitsAfter(sent)
      BY <2>2 DEF HearNew
    <3>2. obuWaiting' = sent
      BY <2>1, <3>1 DEF WaitsAfter
    <3> QED
      BY <1>1, <3>1, <3>2
  <2>3. CASE ~AsksNewcomer
    BY <1>1, <2>1, <2>3 DEF HearNew, ObuFlagsOK
  <2> QED
    BY <2>2, <2>3
<1>6. obuAddr' \in HomeAddrs \cup {NoAddr}
  BY <1>1, <1>2 DEF HearNew, AddrFor, Entries, ObuDataOK
<1>7. ObuDataOK'
  <2>1. n + 1 <= MaxList
    BY <1>1, MaxListAssumption DEF HearNew
  <2> QED
    BY <1>1, <1>3, <1>4, <1>5, <1>6, <2>1 DEF ObuDataOK, HearNew, WsaOther
<1>8. ObuFlagsOK'
  BY <1>1, <1>4, <1>5 DEF ObuFlagsOK, HearNew, WsaOther
<1>9. ObuHomeConsistent'
  BY <1>1, <1>3
    DEF ObuScalars, ObuHomeConsistent, HearNew, WsaOther, Indices, ObuDataOK
<1>10. ObuAskedSomeone' /\ ObuAwaitsSomeone'
  BY <1>5 DEF HearNew, ObuAskedSomeone, ObuAwaitsSomeone
<1>11. ObuRxSent'
  BY <1>1, <1>4, RxKept DEF HearNew, WsaOther
<1>12. ObuConnectedWasAccepted'
  <2>1. obuNow' = obuNow /\ (obuNow # 0 => obuNow \in Indices)
    BY <1>1 DEF HearNew, WsaOther, ObuDataOK, Indices
  <2> QED
    BY <1>1, <1>3, <1>4, <2>1, AcceptedKept
<1> QED
  BY <1>3, <1>4, <1>7, <1>8, <1>9, <1>10, <1>11, <1>12
    DEF ObuInv, ObuCore, ObuScalars

(* A known agent is heard.                                                 *)
LEMMA HearKnownKeeps ==
  ASSUME ObuInv, NEW a \in Agents, HearKnown(a)
  PROVE  ObuInv'
<1>1. ObuCore /\ ObuDataOK /\ ObuFlagsOK /\ ObuScalars /\ Len(obuList) \in Nat
  BY LenProperties DEF ObuInv, ObuCore, ObuDataOK
<1>0. PICK i \in Indices : \E e \in Refreshed(i) :
        /\ obuList' = [obuList EXCEPT ![i] = e]
        /\ obuAddr' = AddrFor(e)
  BY DEF HearKnown, IndexOf
<1>2. PICK e \in Refreshed(i) :
        /\ obuList' = [obuList EXCEPT ![i] = e]
        /\ obuAddr' = AddrFor(e)
  BY <1>0
<1>3. e \in Entries /\ e.dest = obuList[i].dest /\ Sound(e, obuHome)
  BY <1>1, RefreshedTyped
<1>4. obuHome' = obuHome /\ obuNow' = obuNow /\ net' = net
  BY DEF HearKnown, WsaOther, NoRequest
<1>5. /\ obuList' \in Seq(Entries) /\ Len(obuList') = Len(obuList)
      /\ \A j \in Indices : obuList'[j].dest = obuList[j].dest
      /\ \A j \in Indices : j # i => obuList'[j] = obuList[j]
      /\ obuList'[i] = e
      /\ ObuListSound' /\ ObuOneEntryPerAgent'
  BY <1>1, <1>2, <1>3, <1>4, EntryWritten
<1>6. ObuNetOK'
  BY <1>4, NetKept DEF ObuInv
<1>7. obuAddr' \in HomeAddrs \cup {NoAddr}
  BY <1>1, <1>2, <1>3 DEF AddrFor, Entries, ObuDataOK
<1>8. ObuDataOK'
  BY <1>1, <1>5, <1>7 DEF ObuDataOK, HearKnown, WsaOther, NoRequest
<1>9. ObuFlagsOK'
  BY <1>1 DEF ObuFlagsOK, HearKnown, WsaOther, NoRequest
<1>10. ObuHomeConsistent'
  <2>1. obuHome # 0 => obuList'[obuHome].ha = obuList'[obuHome].dest
    <3>1. SUFFICES ASSUME obuHome # 0
                   PROVE  obuList'[obuHome].ha = obuList'[obuHome].dest
      OBVIOUS
    <3>2. obuHome \in Indices
      BY <1>1, <3>1 DEF ObuDataOK, Indices
    <3>3. obuList[obuHome].ha = obuList[obuHome].dest
      BY <1>1, <3>1 DEF ObuScalars, ObuHomeConsistent
    <3>4. CASE i # obuHome
      BY <1>5, <3>2, <3>3, <3>4
    <3>5. CASE i = obuHome
      <4>1. e = [obuList[i] EXCEPT !.src = obuList[i].src,
                                   !.home = obuList[i].home,
                                   !.ha = obuList[i].ha]
        BY <3>1, <3>5 DEF Refreshed
      <4>2. obuList[i] \in Entries
        BY <1>1, EntryTyped
      <4>3. e.ha = obuList[i].ha
        BY <4>1, <4>2 DEF Entries
      <4> QED
        BY <1>3, <1>5, <3>3, <3>5, <4>3
    <3> QED
      BY <3>4, <3>5
  <2> QED
    BY <1>1, <1>4, <2>1
      DEF ObuScalars, ObuHomeConsistent, HearKnown, WsaOther
<1>11. ObuAskedSomeone' /\ ObuAwaitsSomeone'
  BY <1>1 DEF HearKnown, ObuAskedSomeone, ObuScalars, ObuAwaitsSomeone
<1>12. ObuRxSent'
  BY <1>1, <1>4, RxKept DEF HearKnown, WsaOther
<1>13. ObuConnectedWasAccepted'
  <2>1. obuNow # 0 => obuNow \in Indices
    BY <1>1 DEF ObuDataOK, Indices
  <2> QED
    BY <1>1, <1>4, <1>5, <2>1, AcceptedKept
<1> QED
  BY <1>5, <1>6, <1>8, <1>9, <1>10, <1>11, <1>12, <1>13
    DEF ObuInv, ObuCore, ObuScalars

(* The agents and the connection are untouched.                            *)
LEMMA AgentsKept ==
  ASSUME ObuCore, net \subseteq net',
         UNCHANGED <<obuList, obuHome, obuNow, obuConnecting>>
  PROVE  /\ ObuListSound' /\ ObuOneEntryPerAgent' /\ ObuHomeConsistent'
         /\ ObuConnectedWasAccepted'
<1>1. ObuListSound' /\ ObuOneEntryPerAgent'
  BY ListKept
<1>2. ObuConnectedWasAccepted'
  BY AcceptedKept
<1>3. ObuHomeConsistent'
  BY DEF ObuCore, ObuScalars, ObuHomeConsistent
<1> QED
  BY <1>1, <1>2, <1>3

LEMMA HearNothingKeeps ==
  ASSUME ObuInv, HearNothing
  PROVE  ObuInv'
<1> USE DEF HearNothing, NoRequest, WsaOther
<1>1. ObuCore /\ net' = net
  BY DEF ObuInv
<1>2. /\ ObuListSound' /\ ObuOneEntryPerAgent' /\ ObuHomeConsistent'
      /\ ObuConnectedWasAccepted'
  BY <1>1, AgentsKept
<1>3. ObuNetOK' /\ ObuRxSent'
  BY <1>1, NetKept, RxKept DEF ObuInv
<1>4. ObuDataOK'
  BY <1>1 DEF ObuCore, ObuDataOK
<1>5. ObuFlagsOK'
  BY <1>1 DEF ObuCore, ObuFlagsOK
<1>6. ObuAskedSomeone' /\ ObuAwaitsSomeone'
  BY <1>1 DEF ObuCore, ObuScalars, ObuAskedSomeone, ObuAwaitsSomeone
<1> QED
  BY <1>2, <1>3, <1>4, <1>5, <1>6 DEF ObuInv, ObuCore, ObuScalars

(* An agent of the list is asked, by command or in automatic mode.         *)
LEMMA AskKeeps ==
  ASSUME ObuInv, NEW i \in Indices, AskEntry(i)
  PROVE  ObuInv'
<1>1. ObuCore /\ ObuDataOK /\ ObuFlagsOK /\ Len(obuList) \in Nat
  BY LenProperties DEF ObuInv, ObuCore, ObuDataOK
<1>2. PICK sent \in BOOLEAN : /\ SendRequest(obuList[i], sent)
                              /\ obuWaiting' = WaitsAfter(sent)
  BY DEF AskEntry
<1>3. obuList[i] \in Entries /\ Sound(obuList[i], obuHome)
  BY <1>1, EntryTyped DEF ObuCore, ObuListSound
<1>4. /\ net \subseteq net' /\ ObuNetOK'
      /\ obuIdent' \in 0 .. MaxIdent /\ obuSock' \in BOOLEAN
  BY <1>2, <1>3, RequestSent
<1>5. /\ ObuListSound' /\ ObuOneEntryPerAgent' /\ ObuHomeConsistent'
      /\ ObuConnectedWasAccepted'
  BY <1>1, <1>4, AgentsKept DEF AskEntry
<1>6. ObuRxSent'
  BY <1>1, <1>4, RxKept DEF AskEntry
<1>7. obuWaiting' \in BOOLEAN
  BY <1>1, <1>2 DEF WaitsAfter, ObuFlagsOK
<1>8. obuPc' \in {"await", "reset"} /\ (obuPc' = "await" <=> obuWaiting')
  BY <1>7 DEF AskEntry, AfterSend
<1>9. obuGw' \in Agents
  BY <1>3 DEF AskEntry, Entries
<1>10. ObuDataOK'
  BY <1>1, <1>4, <1>8, <1>9 DEF ObuDataOK, AskEntry, Indices
<1>11. ObuFlagsOK'
  BY <1>1, <1>4, <1>7 DEF ObuFlagsOK, AskEntry
<1>12. ObuAskedSomeone' /\ ObuAwaitsSomeone'
  BY <1>8 DEF AskEntry, ObuAskedSomeone, ObuAwaitsSomeone, Indices
<1> QED
  BY <1>4, <1>5, <1>6, <1>10, <1>11, <1>12 DEF ObuInv, ObuCore, ObuScalars

LEMMA SendNothingKeeps ==
  ASSUME ObuInv, SendNothing
  PROVE  ObuInv'
<1>1. ObuCore /\ ObuDataOK /\ ObuFlagsOK /\ ObuScalars /\ net' = net
  BY DEF ObuInv, ObuCore, SendNothing
<1>2. /\ ObuListSound' /\ ObuOneEntryPerAgent' /\ ObuHomeConsistent'
      /\ ObuConnectedWasAccepted'
  BY <1>1, AgentsKept DEF SendNothing
<1>3. ObuNetOK' /\ ObuRxSent'
  BY <1>1, NetKept, RxKept DEF ObuInv, SendNothing
<1>4. obuPc' \in {"await", "reset"} /\ (obuPc' = "await" <=> obuWaiting')
  BY <1>1 DEF SendNothing, AfterSend, ObuFlagsOK
<1>5. ObuDataOK'
  BY <1>1, <1>4 DEF ObuDataOK, SendNothing
<1>6. ObuFlagsOK'
  BY <1>1 DEF ObuFlagsOK, SendNothing
<1>7. ObuAskedSomeone' /\ ObuAwaitsSomeone'
  <2>1. obuWaiting => obuSend \in Indices
    BY <1>1 DEF SendNothing, ObuScalars, ObuAskedSomeone, ObuDataOK, Indices
  <2> QED
    BY <1>4, <2>1
      DEF SendNothing, ObuAskedSomeone, ObuAwaitsSomeone, Indices
<1> QED
  BY <1>2, <1>3, <1>5, <1>6, <1>7 DEF ObuInv, ObuCore, ObuScalars

(* The end of the process, in automatic mode with an empty list.           *)
LEMMA AutoCrashKeeps ==
  ASSUME ObuInv, AutoCrash
  PROVE  ObuInv'
<1>1. ObuCore /\ ObuDataOK /\ ObuFlagsOK /\ ObuScalars /\ net' = net
  BY DEF ObuInv, ObuCore, AutoCrash
<1>2. /\ ObuListSound' /\ ObuOneEntryPerAgent' /\ ObuHomeConsistent'
      /\ ObuConnectedWasAccepted'
  BY <1>1, AgentsKept DEF AutoCrash
<1>3. ObuNetOK' /\ ObuRxSent'
  BY <1>1, NetKept, RxKept DEF ObuInv, AutoCrash
<1>4. ObuDataOK'
  BY <1>1 DEF ObuDataOK, AutoCrash
<1>5. ObuFlagsOK'
  BY <1>1 DEF ObuFlagsOK, AutoCrash
<1>6. ~obuWaiting
  <2>1. obuSend = 0 /\ obuPc = "send"
    BY DEF AutoCrash
  <2> QED
    BY <1>1, <2>1 DEF ObuScalars, ObuAskedSomeone
<1>7. ObuAskedSomeone' /\ ObuAwaitsSomeone'
  BY <1>6 DEF AutoCrash, ObuAskedSomeone, ObuAwaitsSomeone
<1> QED
  BY <1>2, <1>3, <1>4, <1>5, <1>7 DEF ObuInv, ObuCore, ObuScalars

-----------------------------------------------------------------------------
(* The packet read answers entry i: the agent it names as home agent is    *)
(* the sender exactly if the entry says so, too.                           *)
LEMMA MatchSound ==
  ASSUME ObuInv, NEW p \in net, p.type = "reply", NEW i \in Match(p)
  PROVE  /\ i \in Indices /\ p.rep \in ReplyPayloads
         /\ obuList[i].dest = p.saddr
         /\ obuList[i].ha = p.rep.ha
<1>1. i \in Indices /\ obuList[i].dest = p.saddr /\ obuList[i].src = p.daddr
  BY DEF Match
<1>2. obuList[i].src \in HomeAddrs /\ Sound(obuList[i], obuHome)
  BY <1>1, EntryTyped DEF ObuInv, ObuCore, ObuListSound
<1>3. p \in Replies
  BY DEF ObuInv, ObuNetOK, Packets, Requests
<1>4. p.daddr[1] = p.rep.ha
  BY <1>1, <1>2 DEF ObuInv, ObuNetOK, HomeIs
<1> QED
  BY <1>1, <1>2, <1>3, <1>4 DEF Sound, Replies

(* The handover of an accepting reply.                                     *)
LEMMA AttachKeeps ==
  ASSUME ObuInv, NEW p \in net, p.type = "reply", p.rep.code = "accepted",
         NEW i \in Match(p), NEW same \in BOOLEAN, Attach(i, p, same),
         net' = net
  PROVE  /\ obuList' \in Seq(Entries) /\ Len(obuList') = Len(obuList)
         /\ obuConnecting' \in {"home", "foreign"}
         /\ obuHome' \in Indices /\ obuNow' \in Indices
         /\ obuAddr' \in HomeAddrs \cup {NoAddr}
         /\ obuGw' \in Agents \cup {NoAgent}
         /\ ObuListSound' /\ ObuOneEntryPerAgent' /\ ObuHomeConsistent'
         /\ ObuConnectedWasAccepted'
<1> DEFINE old == obuList[i]
           type == IF same /\ obuHome = 0 THEN "home" ELSE old.type
           e == [old EXCEPT !.rep = p.rep, !.type = type]
<1>1. ObuCore /\ ObuDataOK /\ ObuScalars /\ Len(obuList) \in Nat
  BY LenProperties DEF ObuInv, ObuCore, ObuDataOK
<1>2. /\ i \in Indices /\ p.rep \in ReplyPayloads
      /\ old.dest = p.saddr /\ old.ha = p.rep.ha
  BY MatchSound
<1>3. /\ old \in Entries /\ Sound(old, obuHome)
      /\ old.dest \in Agents /\ old.ha \in Agents /\ old.home \in HomeAddrs
  BY <1>1, <1>2, EntryTyped DEF ObuCore, ObuListSound
<1>4. /\ e \in Entries /\ e.dest = old.dest /\ e.ha = old.ha
      /\ e.src = old.src /\ e.home = old.home
  <2>1. type \in AgentTypes
    BY <1>3 DEF Entries, AgentTypes
  <2> HIDE DEF old, type
  <2> QED
    BY <1>2, <1>3, <2>1 DEF Entries
<1>5. obuList' = [obuList EXCEPT ![i] = e]
  BY <1>1, <1>2 DEF Attach, ObuDataOK, Indices
<1> HIDE DEF e, old
<1>6. MakesHome(p, same) => old.ha = old.dest
  BY <1>2, <1>3 DEF MakesHome, Sound, old
<1>7. ~MakesHome(p, same) => obuHome # 0
  BY <1>2, <1>3 DEF MakesHome, Sound, old
<1>8. /\ obuHome' = IF MakesHome(p, same) THEN i ELSE obuHome
      /\ obuConnecting' = IF MakesHome(p, same) THEN "home" ELSE "foreign"
      /\ obuNow' = i
  BY DEF Attach, HomeAfter
<1>9. obuHome' \in Indices /\ obuHome' # 0
  BY <1>1, <1>2, <1>7, <1>8 DEF ObuDataOK, Indices
<1>10. Sound(e, obuHome')
  BY <1>3, <1>4, <1>9 DEF Sound, old
<1>11. /\ obuList' \in Seq(Entries) /\ Len(obuList') = Len(obuList)
       /\ \A j \in Indices : j # i => obuList'[j] = obuList[j]
       /\ obuList'[i] = e
       /\ ObuListSound' /\ ObuOneEntryPerAgent'
  BY <1>1, <1>2, <1>4, <1>5, <1>9, <1>10, EntryWritten DEF old
<1>12. obuList'[obuHome'].ha = obuList'[obuHome'].dest
  <2>1. CASE obuHome' = i
    <3>1. old.ha = old.dest
      BY <1>1, <1>6, <1>7, <1>8, <2>1 DEF ObuScalars, ObuHomeConsistent, old
    <3> QED
      BY <1>4, <1>11, <2>1, <3>1
  <2>2. CASE obuHome' # i
    <3>1. obuHome' = obuHome /\ obuHome # 0
      BY <1>7, <1>8, <2>2
    <3> QED
      BY <1>1, <1>9, <1>11, <2>2, <3>1 DEF ObuScalars, ObuHomeConsistent
  <2> QED
    BY <2>1, <2>2
<1>13. ObuHomeConsistent'
  BY <1>2, <1>8, <1>9, <1>12 DEF ObuHomeConsistent, Indices
<1>14. ObuConnectedWasAccepted'
  BY <1>2, <1>4, <1>8, <1>11 DEF ObuConnectedWasAccepted, old
<1>15. obuAddr' \in HomeAddrs \cup {NoAddr}
  BY <1>1, <1>3 DEF Attach, ObuDataOK, old
<1>16. obuGw' \in Agents \cup {NoAgent}
  BY <1>1, <1>3 DEF Attach, ObuDataOK, old
<1> QED
  BY <1>2, <1>8, <1>9, <1>11, <1>13, <1>14, <1>15, <1>16

(* One field of an entry is written.                                       *)
LEMMA RefuseKeeps ==
  ASSUME ObuInv, NEW p \in net, p.type = "reply", NEW i \in Match(p),
         Refuse(i, p), net' = net
  PROVE  /\ obuList' \in Seq(Entries) /\ Len(obuList') = Len(obuList)
         /\ ObuListSound' /\ ObuOneEntryPerAgent' /\ ObuHomeConsistent'
         /\ ObuConnectedWasAccepted'
<1> DEFINE old == obuList[i]
           e == [old EXCEPT !.rep = p.rep]
<1>1. ObuCore /\ ObuDataOK /\ ObuScalars /\ Len(obuList) \in Nat
  BY LenProperties DEF ObuInv, ObuCore, ObuDataOK
<1>2. i \in Indices /\ p.rep \in ReplyPayloads
  BY MatchSound
<1>3. old \in Entries /\ Sound(old, obuHome)
  BY <1>1, <1>2, EntryTyped DEF ObuCore, ObuListSound
<1>4. /\ e \in Entries /\ e.dest = old.dest /\ e.ha = old.ha
      /\ Sound(e, obuHome)
  <2> HIDE DEF old
  <2> QED
    BY <1>2, <1>3 DEF Entries, Sound
<1>5. /\ obuList' = [obuList EXCEPT ![i] = e] /\ obuHome' = obuHome
      /\ obuNow' = obuNow /\ obuConnecting' = obuConnecting
  BY DEF Refuse
<1> HIDE DEF e, old
<1>6. /\ obuList' \in Seq(Entries) /\ Len(obuList') = Len(obuList)
      /\ \A j \in Indices : obuList'[j].dest = obuList[j].dest
      /\ \A j \in Indices : j # i => obuList'[j] = obuList[j]
      /\ obuList'[i] = e
      /\ ObuListSound' /\ ObuOneEntryPerAgent'
  BY <1>1, <1>2, <1>4, <1>5, EntryWritten DEF old
<1>7. obuHome # 0 => obuHome \in Indices
  BY <1>1 DEF ObuDataOK, Indices
<1>8. obuNow # 0 => obuNow \in Indices
  BY <1>1 DEF ObuDataOK, Indices
<1>9. ObuHomeConsistent'
  BY <1>1, <1>4, <1>5, <1>6, <1>7 DEF ObuScalars, ObuHomeConsistent, old
<1>10. ObuConnectedWasAccepted'
  BY <1>1, <1>5, <1>6, <1>8, AcceptedKept
<1> QED
  BY <1>6, <1>9, <1>10

(* A packet ends the wait.                                                 *)
LEMMA ReceiveReplyKeeps ==
  ASSUME ObuInv, ReceiveReply
  PROVE  ObuInv'
<1> DEFINE p == Head(obuRx)
           AgentsGood ==
             /\ obuList' \in Seq(Entries) /\ Len(obuList') = Len(obuList)
             /\ obuConnecting' \in {"none", "home", "foreign"}
             /\ obuHome' \in 0 .. Len(obuList) /\ obuNow' \in 0 .. Len(obuList)
             /\ obuAddr' \in HomeAddrs \cup {NoAddr}
             /\ obuGw' \in Agents \cup {NoAgent}
             /\ ObuListSound' /\ ObuOneEntryPerAgent' /\ ObuHomeConsistent'
             /\ ObuConnectedWasAccepted'
<1>1. /\ ObuCore /\ ObuDataOK /\ ObuFlagsOK /\ ObuScalars /\ net' = net
      /\ obuRx # <<>> /\ obuRx \in Seq(Replies) /\ Len(obuRx) \in Nat
      /\ RxMax \in Nat
  BY LenProperties, ObuBoundsAssumption
    DEF ObuInv, ObuCore, ObuDataOK, ReceiveReply
<1>2. /\ obuRx' \in Seq(Replies) /\ Len(obuRx') = Len(obuRx) - 1
      /\ \A n \in 1 .. Len(obuRx') : obuRx'[n] = obuRx[n + 1]
  BY <1>1, HeadTailProperties DEF ReceiveReply
<1>3. ObuRxSent'
  <2>1. \A n \in 1 .. Len(obuRx') : n + 1 \in 1 .. Len(obuRx)
    BY <1>1, <1>2
  <2> QED
    BY <1>1, <1>2, <2>1 DEF ObuCore, ObuRxSent
<1>4. p \in net /\ p.type = "reply"
  <2>1. p = obuRx[1] /\ 1 \in 1 .. Len(obuRx)
    BY <1>1, EmptySeq
  <2>2. p \in Replies
    BY <1>1, HeadTailProperties
  <2> QED
    BY <1>1, <2>1, <2>2 DEF ObuCore, ObuRxSent, Replies
<1> HIDE DEF p
<1>5. AgentsGood
  <2>1. CASE NoMatch
    BY <1>1, <2>1, AgentsKept DEF NoMatch, ObuDataOK
  <2>2. ASSUME NEW i \in Match(p), ~Accepts(p), Refuse(i, p)
        PROVE  AgentsGood
    BY <1>1, <1>4, <2>2, RefuseKeeps DEF Refuse, ObuDataOK
  <2>3. ASSUME NEW i \in Match(p), Accepts(p), NEW same \in BOOLEAN,
               Attach(i, p, same)
        PROVE  AgentsGood
    BY <1>1, <1>4, <2>3, AttachKeeps DEF Accepts, Indices
  <2>4. {TRUE, ~LinkMayDiffer} \subseteq BOOLEAN
    BY ObuFlagsAssumption
  <2> QED
    BY <2>1, <2>2, <2>3, <2>4 DEF ReceiveReply, p
<1>6. ObuDataOK'
  BY <1>1, <1>2, <1>5 DEF ObuDataOK, ReceiveReply
<1>7. ObuFlagsOK'
  BY <1>1 DEF ObuFlagsOK, ReceiveReply
<1>8. ObuAskedSomeone' /\ ObuAwaitsSomeone'
  BY DEF ReceiveReply, ObuAskedSomeone, ObuAwaitsSomeone
<1>9. ObuNetOK'
  BY <1>1, NetKept DEF ObuInv
<1> QED
  BY <1>3, <1>5, <1>6, <1>7, <1>8, <1>9 DEF ObuInv, ObuCore, ObuScalars

-----------------------------------------------------------------------------
(* A second without a packet: the entry that was asked is marked.          *)
LEMMA TimeoutKeeps ==
  ASSUME ObuInv, Timeout
  PROVE  ObuInv'
<1> DEFINE old == obuList[obuSend]
           e == [old EXCEPT !.type = "foreign"]
<1>1. /\ ObuCore /\ ObuDataOK /\ ObuFlagsOK /\ ObuScalars /\ net' = net
      /\ obuSend \in Indices /\ Len(obuList) \in Nat
  BY LenProperties
    DEF ObuInv, ObuCore, ObuDataOK, Timeout, ObuScalars, ObuAwaitsSomeone
<1>2. old \in Entries /\ Sound(old, obuHome)
  BY <1>1, EntryTyped DEF ObuCore, ObuListSound
<1>3. /\ e \in Entries /\ e.dest = old.dest /\ e.ha = old.ha
      /\ Sound(e, obuHome)
  <2> HIDE DEF old
  <2> QED
    BY <1>2 DEF Entries, AgentTypes, Sound
<1>4. /\ obuList' = [obuList EXCEPT ![obuSend] = e] /\ obuHome' = obuHome
      /\ obuNow' = obuNow /\ obuConnecting' = obuConnecting
  BY DEF Timeout
<1> HIDE DEF e, old
<1>5. /\ obuList' \in Seq(Entries) /\ Len(obuList') = Len(obuList)
      /\ \A j \in Indices : obuList'[j].dest = obuList[j].dest
      /\ \A j \in Indices : j # obuSend => obuList'[j] = obuList[j]
      /\ obuList'[obuSend] = e
      /\ ObuListSound' /\ ObuOneEntryPerAgent'
  BY <1>1, <1>3, <1>4, EntryWritten DEF old
<1>6. obuHome # 0 => obuHome \in Indices
  BY <1>1 DEF ObuDataOK, Indices
<1>7. obuNow # 0 => obuNow \in Indices
  BY <1>1 DEF ObuDataOK, Indices
<1>8. ObuHomeConsistent'
  BY <1>1, <1>3, <1>4, <1>5, <1>6 DEF ObuScalars, ObuHomeConsistent, old
<1>9. ObuConnectedWasAccepted'
  BY <1>1, <1>4, <1>5, <1>7, AcceptedKept
<1>10. obuRx' \in Seq(Replies) /\ Len(obuRx') <= RxMax /\ ObuRxSent'
  <2>1. CASE obuRx = <<>>
    BY <1>1, <2>1, RxKept DEF Timeout, ObuDataOK
  <2>2. CASE obuRx # <<>>
    <3>1. /\ obuRx' \in Seq(Replies) /\ Len(obuRx') = Len(obuRx) - 1
          /\ \A n \in 1 .. Len(obuRx') : obuRx'[n] = obuRx[n + 1]
          /\ Len(obuRx) \in Nat
      BY <1>1, <2>2, HeadTailProperties, LenProperties DEF Timeout, ObuDataOK
    <3>2. Len(obuRx) <= RxMax /\ RxMax \in Nat
      BY <1>1, ObuBoundsAssumption DEF ObuDataOK
    <3>3. \A n \in 1 .. Len(obuRx') : n + 1 \in 1 .. Len(obuRx)
      BY <3>1
    <3>4. Len(obuRx') <= RxMax
      BY <3>1, <3>2
    <3> QED
      BY <1>1, <3>1, <3>3, <3>4 DEF ObuCore, ObuRxSent
  <2> QED
    BY <2>1, <2>2
<1>11. ObuDataOK'
  <2>1. obuTimeouts' \in 0 .. MaxTimeouts
    BY <1>1, ObuBoundsAssumption DEF Timeout, ObuDataOK
  <2> QED
    BY <1>1, <1>4, <1>5, <1>10, <2>1 DEF ObuDataOK, Timeout
<1>12. ObuFlagsOK'
  BY <1>1 DEF ObuFlagsOK, Timeout
<1>13. ObuAskedSomeone' /\ ObuAwaitsSomeone'
  BY DEF Timeout, ObuAskedSomeone, ObuAwaitsSomeone
<1>14. ObuNetOK'
  BY <1>1, NetKept DEF ObuInv
<1> QED
  BY <1>5, <1>8, <1>9, <1>10, <1>11, <1>12, <1>13, <1>14
    DEF ObuInv, ObuCore, ObuScalars

(* The kernel queues a reply.                                              *)
LEMMA DeliverKeeps ==
  ASSUME ObuInv, NEW p \in net, Deliver(p)
  PROVE  ObuInv'
<1>1. ObuCore /\ ObuDataOK /\ ObuFlagsOK /\ ObuScalars /\ net' = net
  BY DEF ObuInv, ObuCore, Deliver
<1>2. /\ ObuListSound' /\ ObuOneEntryPerAgent' /\ ObuHomeConsistent'
      /\ ObuConnectedWasAccepted'
  BY <1>1, AgentsKept DEF Deliver
<1>3. ObuNetOK'
  BY <1>1, NetKept DEF ObuInv
<1>4. p \in Replies
  BY DEF Deliver, ObuInv, ObuNetOK, Packets, Requests
<1>5. obuRx \in Seq(Replies) /\ Len(obuRx) \in Nat
  BY <1>1, LenProperties DEF ObuDataOK
<1>6. /\ obuRx' \in Seq(Replies) /\ Len(obuRx') = Len(obuRx) + 1
      /\ \A n \in 1 .. Len(obuRx) : obuRx'[n] = obuRx[n]
      /\ obuRx'[Len(obuRx) + 1] = p
  BY <1>4, <1>5, AppendProperties DEF Deliver
<1>7. Len(obuRx') <= RxMax
  BY <1>5, <1>6, ObuBoundsAssumption DEF Deliver
<1>8. ObuRxSent'
  <2>1. \A n \in 1 .. Len(obuRx') : n \in 1 .. Len(obuRx) \/ n = Len(obuRx) + 1
    BY <1>5, <1>6
  <2> QED
    BY <1>1, <1>6, <2>1 DEF ObuCore, ObuRxSent
<1>9. ObuDataOK'
  BY <1>1, <1>6, <1>7 DEF ObuDataOK, Deliver
<1>10. ObuFlagsOK'
  BY <1>1 DEF ObuFlagsOK, Deliver
<1>11. ObuAskedSomeone' /\ ObuAwaitsSomeone'
  BY <1>1 DEF Deliver, ObuScalars, ObuAskedSomeone, ObuAwaitsSomeone, Indices
<1> QED
  BY <1>2, <1>3, <1>8, <1>9, <1>10, <1>11 DEF ObuInv, ObuCore, ObuScalars

(* The end of a tick and the command thread write indices and flags only.  *)
LEMMA TickEndKeeps ==
  ASSUME ObuInv, EndTick
  PROVE  ObuInv'
<1>1. ObuCore /\ ObuDataOK /\ ObuFlagsOK /\ ObuScalars /\ net' = net
  BY DEF ObuInv, ObuCore, EndTick
<1>2. /\ ObuListSound' /\ ObuOneEntryPerAgent' /\ ObuHomeConsistent'
      /\ ObuConnectedWasAccepted'
  BY <1>1, AgentsKept DEF EndTick
<1>3. ObuNetOK' /\ ObuRxSent'
  BY <1>1, NetKept, RxKept DEF ObuInv, EndTick
<1>4. ObuDataOK'
  <2>1. Len(obuList) \in Nat
    BY <1>1, LenProperties DEF ObuDataOK
  <2> QED
    BY <1>1, <2>1 DEF ObuDataOK, EndTick
<1>5. ObuFlagsOK'
  BY <1>1 DEF ObuFlagsOK, EndTick
<1>6. ObuAskedSomeone' /\ ObuAwaitsSomeone'
  BY <1>1 DEF EndTick, ObuScalars, ObuAskedSomeone, ObuAwaitsSomeone
<1> QED
  BY <1>2, <1>3, <1>4, <1>5, <1>6 DEF ObuInv, ObuCore, ObuScalars

LEMMA PromptKeeps ==
  ASSUME ObuInv,
         (\E i \in Indices : PromptCheck(i)) \/ PromptWrite \/ PromptAuto
  PROVE  ObuInv'
<1>1. ObuCore /\ ObuDataOK /\ ObuFlagsOK /\ ObuScalars /\ net' = net
      /\ PromptOther
  BY DEF ObuInv, ObuCore, PromptCheck, PromptWrite, PromptAuto, PromptOther
<1>2. /\ ObuListSound' /\ ObuOneEntryPerAgent' /\ ObuHomeConsistent'
      /\ ObuConnectedWasAccepted'
  BY <1>1, AgentsKept DEF PromptOther
<1>3. ObuNetOK' /\ ObuRxSent'
  BY <1>1, NetKept, RxKept DEF ObuInv, PromptOther
<1>4. /\ obuPrompt' \in 0 .. Len(obuList) /\ obuSend' \in 0 .. Len(obuList)
      /\ obuSend # 0 => obuSend' # 0
  <2>1. Len(obuList) \in Nat /\ obuPrompt \in 0 .. Len(obuList)
        /\ obuSend \in 0 .. Len(obuList)
    BY <1>1, LenProperties DEF ObuDataOK
  <2> QED
    BY <2>1 DEF PromptCheck, PromptWrite, PromptAuto, Indices
<1>5. ObuDataOK'
  BY <1>1, <1>4 DEF ObuDataOK, PromptOther
<1>6. ObuFlagsOK'
  BY <1>1 DEF ObuFlagsOK, PromptOther, PromptCheck, PromptWrite, PromptAuto
<1>7. ObuAskedSomeone'
  BY <1>1, <1>4 DEF PromptOther, ObuScalars, ObuAskedSomeone
<1>8. ObuAwaitsSomeone'
  <2>1. obuSend \in Indices => obuSend' \in Indices
    BY <1>1, <1>4, LenProperties DEF Indices, ObuDataOK
  <2> QED
    BY <1>1, <2>1 DEF PromptOther, ObuScalars, ObuAwaitsSomeone, Indices
<1> QED
  BY <1>2, <1>3, <1>5, <1>6, <1>7, <1>8 DEF ObuInv, ObuCore, ObuScalars

(* The state of a process that has just started.                           *)
Fresh ==
  /\ obuPc = "wsa" /\ obuList = <<>> /\ obuSend = 0 /\ obuWaiting = FALSE
  /\ obuConnecting = "none" /\ obuHome = 0 /\ obuNow = 0
  /\ obuAddr = NoAddr /\ obuGw = NoAgent
  /\ obuAuto = FALSE /\ obuPrompt = 0 /\ obuRx = <<>> /\ obuSock = TRUE
  /\ obuIdent \in 0 .. MaxIdent /\ obuTimeouts \in 0 .. MaxTimeouts
  /\ obuRestarts \in 0 .. MaxObuRestarts

(* It is sound, whatever is on the network.                                *)
LEMMA FreshKeeps == Fresh => ObuCore
<1> SUFFICES ASSUME Fresh
             PROVE  ObuCore
  OBVIOUS
<1> USE DEF Fresh
<1>1. /\ <<>> \in Seq(Entries) /\ <<>> \in Seq(Replies) /\ Len(<<>>) = 0
      /\ Indices = {}
  BY EmptySeq DEF Indices
<1>2. ObuDataOK
  BY <1>1, MaxListAssumption, ObuBoundsAssumption DEF ObuDataOK
<1>3. ObuFlagsOK
  BY DEF ObuFlagsOK
<1>4. ObuListSound /\ ObuOneEntryPerAgent /\ ObuConnectedWasAccepted
  BY <1>1 DEF ObuListSound, ObuOneEntryPerAgent, ObuConnectedWasAccepted
<1>5. ObuRxSent
  BY <1>1 DEF ObuRxSent
<1>6. ObuScalars
  BY DEF ObuScalars, ObuAskedSomeone, ObuAwaitsSomeone, ObuHomeConsistent
<1> QED
  BY <1>2, <1>3, <1>4, <1>5, <1>6 DEF ObuCore

(* Every step of the OBU keeps the invariant, whatever its environment has *)
(* put on the network.                                                     *)
LEMMA ObuNextKeeps ==
  ASSUME ObuInv, ObuNext
  PROVE  ObuInv'
<1>1. ASSUME NEW a \in Agents, HearNew(a) \/ HearKnown(a)
      PROVE  ObuInv'
  BY <1>1, HearNewKeeps, HearKnownKeeps
<1>2. CASE HearNothing
  BY <1>2, HearNothingKeeps
<1>3. CASE SendChosen
  <2>1. obuSend \in Indices
    BY <1>3, LenProperties
      DEF SendChosen, ObuInv, ObuCore, ObuDataOK, Indices
  <2> QED
    BY <1>3, <2>1, AskKeeps DEF SendChosen
<1>4. CASE SendAuto
  BY <1>4, AskKeeps DEF SendAuto
<1>5. CASE AutoCrash
  BY <1>5, AutoCrashKeeps
<1>6. CASE SendNothing
  BY <1>6, SendNothingKeeps
<1>7. CASE ReceiveReply
  BY <1>7, ReceiveReplyKeeps
<1>8. CASE Timeout
  BY <1>8, TimeoutKeeps
<1>9. CASE EndTick
  BY <1>9, TickEndKeeps
<1>10. CASE (\E i \in Indices : PromptCheck(i)) \/ PromptWrite \/ PromptAuto
  BY <1>10, PromptKeeps
<1>11. ASSUME NEW p \in net, Deliver(p)
       PROVE  ObuInv'
  BY <1>11, DeliverKeeps
<1>12. CASE ObuRestart
  <2>1. /\ net' = net /\ obuIdent' = obuIdent /\ obuTimeouts' = obuTimeouts
        /\ obuRestarts' = obuRestarts + 1 /\ obuRestarts < MaxObuRestarts
    BY <1>12 DEF ObuRestart
  <2>2. /\ obuIdent' \in 0 .. MaxIdent /\ obuTimeouts' \in 0 .. MaxTimeouts
        /\ obuRestarts' \in 0 .. MaxObuRestarts
    BY <2>1, ObuBoundsAssumption DEF ObuInv, ObuCore, ObuDataOK
  <2>3. ObuNetOK'
    BY <2>1, NetKept DEF ObuInv
  <2>4. Fresh'
    BY <1>12, <2>2 DEF ObuRestart, Fresh
  <2>5. ObuCore'
    BY <2>4, FreshKeeps, PTL
  <2> QED
    BY <2>3, <2>5 DEF ObuInv
<1> QED
  BY <1>1, <1>2, <1>3, <1>4, <1>5, <1>6, <1>7, <1>8, <1>9, <1>10, <1>11, <1>12
    DEF ObuNext, ObuTick

(* What an agent answers to a request.                                     *)
LEMMA AgentAnswersKeeps ==
  ASSUME ObuInv, NEW q \in net, NEW code \in Codes, AgentAnswers(q, code)
  PROVE  ObuInv'
<1> DEFINE r == AgentReply(q, code)
<1>1. ObuCore /\ ObuNetOK /\ q.type = "request" /\ net' = net \cup {r}
      /\ UNCHANGED obuVars
  BY DEF ObuInv, AgentAnswers
<1>2. q \in Requests /\ q.req \in RequestPayloads
      /\ HomeIs(q.saddr, q.req.ha) /\ HomeIs(q.req.home, q.req.ha)
  BY <1>1 DEF ObuNetOK, Packets, Requests, Replies
<1>3. r.rep \in ReplyPayloads
  <2>1. ReplyLifetime \in Nat
    BY DEF ReplyLifetime, Htonl, ConfiguredLifetime
  <2> QED
    BY <1>2, <2>1 DEF AgentReply, ReplyPayloads, RequestPayloads
<1>4. r \in Replies
  BY <1>2, <1>3 DEF AgentReply, Replies, Requests, RequestPayloads, Agents
<1>5. /\ r.type = "reply"
      /\ HomeIs(r.daddr, r.rep.ha) /\ HomeIs(r.rep.home, r.rep.ha)
  BY <1>2 DEF AgentReply, HomeIs
<1> HIDE DEF r
<1>6. ObuNetOK'
  BY <1>1, <1>4, <1>5 DEF ObuNetOK, Packets, HomeIs
<1>7. ObuDataOK'
  BY <1>1 DEF ObuCore, ObuDataOK, obuVars
<1>8. ObuFlagsOK' /\ ObuScalars'
  BY <1>1 DEF ObuCore, ObuFlagsOK, ObuScalars, ObuAskedSomeone,
              ObuAwaitsSomeone, ObuHomeConsistent, Indices, obuVars
<1>9. /\ ObuListSound' /\ ObuOneEntryPerAgent' /\ ObuConnectedWasAccepted'
      /\ ObuRxSent'
  BY <1>1, AgentsKept, RxKept DEF obuVars
<1> QED
  BY <1>6, <1>7, <1>8, <1>9 DEF ObuInv, ObuCore

-----------------------------------------------------------------------------
(* Types, network and agent list together are an invariant of the OBU with *)
(* agents that answer as they like.                                        *)
THEOREM ObuInvariant == ObuSpec => []ObuInv
<1>1. ObuSpecInit => ObuInv
  <2>1. SUFFICES ASSUME ObuSpecInit
                 PROVE  ObuInv
    OBVIOUS
  <2>2. ObuNetOK
    BY <2>1 DEF ObuSpecInit, ObuNetOK
  <2>3. /\ obuIdent \in 0 .. MaxIdent /\ obuTimeouts \in 0 .. MaxTimeouts
        /\ obuRestarts \in 0 .. MaxObuRestarts
    BY <2>1, IdentAssumption, ObuBoundsAssumption DEF ObuSpecInit, ObuInit
  <2>4. ObuCore
    BY <2>1, <2>3, FreshKeeps DEF ObuSpecInit, ObuInit, Fresh
  <2> QED
    BY <2>2, <2>4 DEF ObuInv
<1>2. ObuInv /\ [ObuSpecNext]_<<obuVars, net>> => ObuInv'
  <2>1. SUFFICES ASSUME ObuInv, [ObuSpecNext]_<<obuVars, net>>
                 PROVE  ObuInv'
    OBVIOUS
  <2>2. CASE ObuNext
    BY <2>1, <2>2, ObuNextKeeps
  <2>3. ASSUME NEW q \in net, NEW code \in Codes, AgentAnswers(q, code)
        PROVE  ObuInv'
    BY <2>1, <2>3, AgentAnswersKeeps
  <2>4. CASE UNCHANGED <<obuVars, net>>
    <3>1. ObuCore /\ ObuNetOK /\ UNCHANGED obuVars /\ net' = net
      BY <2>1, <2>4 DEF ObuInv
    <3>2. ObuDataOK'
      BY <3>1 DEF ObuCore, ObuDataOK, obuVars
    <3>3. ObuFlagsOK' /\ ObuScalars'
      BY <3>1 DEF ObuCore, ObuFlagsOK, ObuScalars, ObuAskedSomeone,
                  ObuAwaitsSomeone, ObuHomeConsistent, Indices, obuVars
    <3>4. /\ ObuListSound' /\ ObuOneEntryPerAgent' /\ ObuConnectedWasAccepted'
          /\ ObuRxSent' /\ ObuNetOK'
      BY <3>1, AgentsKept, RxKept, NetKept DEF obuVars
    <3> QED
      BY <3>2, <3>3, <3>4 DEF ObuInv, ObuCore
  <2> QED
    BY <2>1, <2>2, <2>3, <2>4 DEF ObuSpecNext
<1> QED
  BY <1>1, <1>2, PTL DEF ObuSpec

(* The OBU's state keeps its types: no index leaves the agent list, which  *)
(* keeps to its size.                                                      *)
THEOREM ObuTypeCorrect == ObuSpec => []ObuTypeOK
<1>1. ObuInv => ObuTypeOK
  BY ObuTypes DEF ObuInv, ObuCore
<1> QED
  BY <1>1, ObuInvariant, PTL

(* However often an agent is heard, it has one entry in the agent list.    *)
THEOREM ObuAlwaysOneEntry == ObuSpec => []ObuOneEntryPerAgent
<1>1. ObuInv => ObuOneEntryPerAgent
  BY DEF ObuInv, ObuCore
<1> QED
  BY <1>1, ObuInvariant, PTL

(* While a reply is awaited the loop knows whom it asked, whatever the     *)
(* command thread writes: the timeout marks an entry of the list.          *)
THEOREM ObuAlwaysAwaitsSomeone == ObuSpec => []ObuAwaitsSomeone
<1>1. ObuInv => ObuAwaitsSomeone
  BY DEF ObuInv, ObuCore, ObuScalars
<1> QED
  BY <1>1, ObuInvariant, PTL

(* A connected vehicle has a home agent, whose entry says so.              *)
THEOREM ObuHomeAlwaysConsistent == ObuSpec => []ObuHomeConsistent
<1>1. ObuInv => ObuHomeConsistent
  BY DEF ObuInv, ObuCore, ObuScalars
<1> QED
  BY <1>1, ObuInvariant, PTL

(* The agent the vehicle is connected to has accepted a request.           *)
THEOREM ObuConnectedAlwaysAccepted == ObuSpec => []ObuConnectedWasAccepted
<1>1. ObuInv => ObuConnectedWasAccepted
  BY DEF ObuInv, ObuCore
<1> QED
  BY <1>1, ObuInvariant, PTL
=============================================================================
