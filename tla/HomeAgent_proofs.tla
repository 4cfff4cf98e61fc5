--------------------------- MODULE HomeAgent_proofs -------------------------
(***************************************************************************)
(* Proofs about the home agents, for every set of agents and vehicles and  *)
(* every table size.                                                       *)
(***************************************************************************)
EXTENDS HomeAgent, TLAPS

(* What the network carries in HASpec.                                     *)
HANetOK ==
  /\ net \subseteq Packets
  /\ \A p \in net : p.type = "request" =>
       p.saddr \in {p.req.coa, <<p.req.ha, FixedHost>>}

(* The inductive invariant: types, network and table belong together,      *)
(* because the slot that a request gets is only a slot if the table is     *)
(* filled from its first slot on.                                          *)
HAInv == HATypeOK /\ HANetOK /\ HATableSound

(* The slot search of OBU_Add finds the least element of a set that has    *)
(* one.                                                                    *)
LEMMA FirstIsLeast ==
  ASSUME NEW S, S \subseteq Nat, NEW m \in S, \A j \in S : m <= j
  PROVE  First(S) = m
<1>1. \E i \in S : \A j \in S : i <= j
  OBVIOUS
<1>2. First(S) \in S /\ \A j \in S : First(S) <= j
  BY <1>1 DEF First
<1>3. First(S) \in Nat /\ m \in Nat
  BY <1>2
<1>4. First(S) <= m /\ m <= First(S)
  BY <1>2
<1> QED
  BY <1>3, <1>4

(* In a sound table that is not full, f_e_V2XHO_Registration_OBU_Add takes *)
(* the slot of the home address, or else the first one behind those in use.*)
LEMMA ChosenSlotIs ==
  ASSUME HATypeOK, HATableSound, NEW a \in HAs, NEW home \in HomeAddrs, ~Full(a)
  PROVE  \/ /\ ChosenSlot(a, home) \in Used(a)
            /\ haSlots[a][ChosenSlot(a, home)].req.home = home
         \/ /\ \A i \in Used(a) : haSlots[a][i].req.home # home
            /\ ChosenSlot(a, home) = haNum[a] + 1
            /\ haNum[a] + 1 \in Slots
<1>1. CASE SlotsOf(a, home) # {}
  <2>1. PICK i \in SlotsOf(a, home) : TRUE
    BY <1>1
  <2>2. \A j \in SlotsOf(a, home) : j = i
    BY <2>1 DEF SlotsOf, HATableSound
  <2>3. First(SlotsOf(a, home)) = i
    <3>1. SlotsOf(a, home) \subseteq Nat
      BY DEF SlotsOf, Used, Slots
    <3>2. \A j \in SlotsOf(a, home) : i <= j
      BY <2>1, <2>2, <3>1
    <3> QED
      BY <2>1, <3>1, <3>2, FirstIsLeast
  <2> QED
    BY <1>1, <2>1, <2>3 DEF ChosenSlot, SlotsOf
<1>2. CASE SlotsOf(a, home) = {}
  <2>1. haNum[a] \in 0 .. MaxBindings /\ haNum[a] # MaxBindings
    BY DEF Full, HATypeOK
  <2>2. /\ haNum[a] \in Nat /\ MaxBindings \in Nat
        /\ haNum[a] + 1 <= MaxBindings
    BY <2>1, MaxBindingsAssumption
  <2>3. Slots \ Used(a) = haNum[a] + 1 .. MaxBindings
    BY <2>2 DEF Slots, HATableSound
  <2>4. haNum[a] + 1 \in Slots \ Used(a)
    BY <2>2, <2>3
  <2>5. First(Slots \ Used(a)) = haNum[a] + 1
    <3>1. \A j \in Slots \ Used(a) : haNum[a] + 1 <= j
      BY <2>2, <2>3
    <3>2. Slots \ Used(a) \subseteq Nat
      BY DEF Slots
    <3> QED
      BY <2>4, <3>1, <3>2, FirstIsLeast
  <2> QED
    BY <1>2, <2>4, <2>5 DEF ChosenSlot, SlotsOf
<1> QED
  BY <1>1, <1>2

-----------------------------------------------------------------------------
(* A slot in use holds a binding, of some home address.                    *)
LEMMA BindingTyped ==
  ASSUME HATypeOK, NEW a \in HAs, NEW i \in Used(a)
  PROVE  /\ haSlots[a][i] \in Bindings
         /\ haSlots[a][i].req.home \in HomeAddrs
<1>1. i \in Slots /\ ~haSlots[a][i].isempty
  BY DEF Used
<1>2. haSlots[a][i] \in Bindings \cup {Empty}
  BY <1>1 DEF HATypeOK
<1>3. haSlots[a][i] \in Bindings
  BY <1>1, <1>2 DEF Empty
<1> QED
  BY <1>3 DEF Bindings, RequestPayloads

(* What a home agent reads from its socket is a request of the right type, *)
(* whose IP source is the care-of address in it or the vehicle's first home*)
(* address.                                                                *)
LEMMA RequestTyped ==
  ASSUME HANetOK, NEW a \in HAs, NEW p \in RequestsTo(a)
  PROVE  /\ p \in Requests /\ p \in net
         /\ p.req \in RequestPayloads /\ p.saddr \in HomeAddrs \cup Agents
         /\ p.req.home \in HomeAddrs /\ p.req.coa \in Agents
         /\ p.req.ha \in Agents
         /\ p.saddr \in {p.req.coa, <<p.req.ha, FixedHost>>}
<1>1. p \in Packets /\ p \in net /\ p.type = "request"
  BY DEF HANetOK, RequestsTo
<1>2. p \in Requests
  BY <1>1 DEF Packets, Requests, Replies
<1> QED
  BY <1>1, <1>2 DEF Requests, RequestPayloads, HANetOK

(* The lifetime field of a reply is a natural number (zero, in fact).      *)
LEMMA LifetimeTyped == ReplyLifetime \in Nat
BY DEF ReplyLifetime, Htonl, ConfiguredLifetime

(* The answer to a request is a reply of the right type.                   *)
LEMMA ReplyTyped ==
  ASSUME HANetOK, NEW a \in HAs, NEW p \in RequestsTo(a)
  PROVE  HAReply(a, p) \in Replies
<1>1. p.req \in RequestPayloads /\ p.saddr \in HomeAddrs \cup Agents
  BY RequestTyped
<1>2. HAReply(a, p).rep \in ReplyPayloads
  BY <1>1, LifetimeTyped DEF HAReply, ReplyPayloads, RequestPayloads, Codes
<1> QED
  BY <1>1, <1>2 DEF HAReply, Replies, Agents

(* Accepting a request keeps every field of the agent's state in its type. *)
LEMMA AcceptKeepsTypes ==
  ASSUME HAInv, NEW a \in HAs, NEW p \in RequestsTo(a), NEW sent \in BOOLEAN,
         HAAccept(a, p, sent)
  PROVE  HATypeOK'
<1> DEFINE i == ChosenSlot(a, p.req.home)
           old == haSlots[a][i]
<1>1. /\ p.req \in RequestPayloads /\ p.saddr \in HomeAddrs \cup Agents
      /\ p.req.home \in HomeAddrs /\ p.req.coa \in Agents
  BY RequestTyped DEF HAInv
<1>2. i \in Slots /\ (old.isempty => haNum[a] + 1 <= MaxBindings)
  BY <1>1, ChosenSlotIs DEF HAInv, HAAccept, Used, Slots
<1>3. haSlots' \in [HAs -> [Slots -> Bindings \cup {Empty}]]
  <2>1. Connected(old, sent) \in BOOLEAN /\ WithFa(old, p.req, sent) \in BOOLEAN
    BY <1>2 DEF HAInv, HATypeOK, Connected, WithFa, Bindings, Empty
  <2> QED
    BY <1>1, <1>2, <2>1 DEF HAInv, HATypeOK, HAAccept, Bindings
<1>4. haNum' \in [HAs -> 0 .. MaxBindings]
  BY <1>2, MaxBindingsAssumption DEF HAInv, HATypeOK, HAAccept
<1>5. haRoute' \in [HAs -> [HomeAddrs -> Routes]]
  <2>1. RouteFor(p.req, p.saddr) \in Routes
    BY <1>1 DEF RouteFor, Routes, DirectRoute, TunnelRoute, ViaRoute
  <2> QED
    BY <1>1, <2>1 DEF HAInv, HATypeOK, HAAccept, InstallRoute
<1>6. haTunnels' \in [HAs -> SUBSET Agents]
  BY <1>1 DEF HAInv, HATypeOK, HAAccept, TunnelFor
<1>7. haSock' \in [HAs -> BOOLEAN]
  BY DEF HAInv, HATypeOK, HAAccept
<1>8. haBound' \in SUBSET (HAs \X HomeAddrs \X Agents)
  BY <1>1 DEF HAInv, HATypeOK, HAAccept
<1>9. haRestarts' \in 0 .. MaxRestarts
  BY DEF HAInv, HATypeOK, HAAccept
<1> QED
  BY <1>3, <1>4, <1>5, <1>6, <1>7, <1>8, <1>9 DEF HATypeOK

(* Accepting a request puts nothing but a reply on the network.            *)
LEMMA AcceptKeepsNet ==
  ASSUME HAInv, NEW a \in HAs, NEW p \in RequestsTo(a), NEW sent \in BOOLEAN,
         HAAccept(a, p, sent)
  PROVE  HANetOK'
<1>1. HAReply(a, p) \in Packets /\ HAReply(a, p).type = "reply"
  BY ReplyTyped DEF HAInv, Packets, HAReply
<1> QED
  BY <1>1 DEF HAInv, HANetOK, HAAccept

(* Accepting a request keeps the table sound: no second slot for the home  *)
(* address, no gap, and a counter that is exact.                           *)
LEMMA AcceptKeepsTable ==
  ASSUME HAInv, NEW a \in HAs, NEW p \in RequestsTo(a), NEW sent \in BOOLEAN,
         HAAccept(a, p, sent)
  PROVE  HATableSound'
<1> DEFINE home == p.req.home
           i == ChosenSlot(a, home)
<1>1. home \in HomeAddrs
  BY RequestTyped DEF HAInv
<1>2. \A b \in HAs \ {a} : haSlots'[b] = haSlots[b] /\ haNum'[b] = haNum[b]
  BY DEF HAInv, HATypeOK, HAAccept
<1>3. i \in Slots /\ haSlots'[a][i].req = p.req /\ ~haSlots'[a][i].isempty
  BY <1>1, ChosenSlotIs DEF HAInv, HATypeOK, HAAccept, Used
<1>4. \A j \in Slots \ {i} : haSlots'[a][j] = haSlots[a][j]
  BY <1>3 DEF HAInv, HATypeOK, HAAccept
<1>5. \A j \in Used(a) : haSlots[a][j].req.home = home => j = i
  BY <1>1, ChosenSlotIs DEF HAInv, HATableSound, HAAccept
<1>6. Used(a)' = Used(a) \cup {i}
  BY <1>3, <1>4 DEF Used
<1>7. Used(a)' = 1 .. haNum'[a]
  <2>1. haNum[a] \in Nat
    BY DEF HAInv, HATypeOK
  <2>2. CASE i \in Used(a)
    BY <1>6, <2>2 DEF HAInv, HATypeOK, HATableSound, HAAccept, Used
  <2>3. CASE i \notin Used(a)
    <3>1. i = haNum[a] + 1
      BY <1>1, <2>3, ChosenSlotIs DEF HAInv, HAAccept
    <3>2. haNum'[a] = haNum[a] + 1
      BY <1>3, <2>3 DEF HAInv, HATypeOK, HAAccept, Used
    <3> QED
      BY <1>6, <2>1, <3>1, <3>2 DEF HAInv, HATableSound
  <2> QED
    BY <2>2, <2>3
<1>8. \A j, k \in Used(a)' :
        haSlots'[a][j].req.home = haSlots'[a][k].req.home => j = k
  BY <1>3, <1>4, <1>5, <1>6 DEF HAInv, HATableSound, Used
<1> QED
  BY <1>2, <1>7, <1>8 DEF HAInv, HATableSound, Used

(* The invariant holds before any packet is sent.                          *)
LEMMA HAInvInit == HASpecInit => HAInv
<1> SUFFICES ASSUME HASpecInit PROVE HAInv
  OBVIOUS
<1>1. HATypeOK
  BY MaxBindingsAssumption, MaxRestartsAssumption
  DEF HASpecInit, HAInit, HATypeOK, Routes, NoRoute
<1>2. HANetOK
  BY DEF HASpecInit, HANetOK
<1>3. HATableSound
  BY DEF HASpecInit, HAInit, HATableSound, Used, Empty
<1> QED
  BY <1>1, <1>2, <1>3 DEF HAInv

(* Every step, restarts and new requests included, keeps the invariant.    *)
LEMMA HAInvNext == HAInv /\ [HASpecNext]_<<haVars, net>> => HAInv'
<1> SUFFICES ASSUME HAInv, [HASpecNext]_<<haVars, net>> PROVE HAInv'
  OBVIOUS
<1>1. ASSUME NEW a \in HAs, NEW p \in RequestsTo(a), NEW sent \in BOOLEAN,
             HAAccept(a, p, sent)
      PROVE  HAInv'
  BY <1>1, AcceptKeepsTypes, AcceptKeepsNet, AcceptKeepsTable DEF HAInv
<1>2. ASSUME NEW a \in HAs, HARestart(a)
      PROVE  HAInv'
  <2>1. HATypeOK'
    <3>1. haNum' \in [HAs -> 0 .. MaxBindings]
      BY <1>2, MaxBindingsAssumption DEF HAInv, HATypeOK, HARestart
    <3>2. haRestarts' \in 0 .. MaxRestarts
      BY <1>2, MaxRestartsAssumption DEF HAInv, HATypeOK, HARestart
    <3> QED
      BY <1>2, <3>1, <3>2 DEF HAInv, HATypeOK, HARestart, Routes
  <2>2. HANetOK'
    BY <1>2 DEF HAInv, HANetOK, HARestart
  <2>3. HATableSound'
    BY <1>2 DEF HAInv, HATypeOK, HATableSound, HARestart, Used, Empty
  <2> QED
    BY <2>1, <2>2, <2>3 DEF HAInv
<1>3. ASSUME NEW p \in ClientRequests, ClientSend(p)
      PROVE  HAInv'
  <2>1. p \in Packets /\ p.saddr \in {p.req.coa, <<p.req.ha, FixedHost>>}
    BY DEF ClientRequests, Packets
  <2> QED
    BY <1>3, <2>1
    DEF HAInv, HATypeOK, HANetOK, HATableSound, ClientSend, haVars, Used
<1>4. CASE UNCHANGED <<haVars, net>>
  BY <1>4 DEF HAInv, HATypeOK, HANetOK, HATableSound, haVars, Used
<1> QED
  BY <1>1, <1>2, <1>3, <1>4
  DEF HASpecNext, HANext, HAHandleRequest, HAIgnoreFull

(* In every behaviour of the home agents their state has its type and the  *)
(* binding tables are sound.                                               *)
THEOREM HAInvariant == HASpec => []HAInv
BY HAInvInit, HAInvNext, PTL DEF HASpec

(* Type correctness of the home agents, however many there are.            *)
THEOREM HATypeCorrect == HASpec => []HATypeOK
<1>1. HAInv => HATypeOK
  BY DEF HAInv
<1> QED
  BY <1>1, HAInvariant, PTL

(* No home address is ever bound twice at one home agent, and the counter  *)
(* that decides "full" is exact: for tables of any size.                   *)
THEOREM HATableAlwaysSound == HASpec => []HATableSound
<1>1. HAInv => HATableSound
  BY DEF HAInv
<1> QED
  BY <1>1, HAInvariant, PTL

-----------------------------------------------------------------------------
(***************************************************************************)
(* What an accepted request does to the binding tables: it is written into *)
(* slot i of agent a, the only slot that its home address may have had.    *)
(***************************************************************************)
WritesSlot(a, p, i, sent) ==
  /\ i \in Slots
  /\ \A b \in HAs \ {a} : haSlots'[b] = haSlots[b]
  /\ haSlots'[a][i].req = p.req /\ ~haSlots'[a][i].isempty
  /\ haSlots'[a][i].isconnected =>
       sent \/ (i \in Used(a) /\ haSlots[a][i].isconnected)
  /\ i \in Used(a) => haSlots[a][i].req.home = p.req.home
  /\ \A j \in Slots \ {i} : haSlots'[a][j] = haSlots[a][j]
  /\ \A j \in Used(a) \ {i} : haSlots[a][j].req.home # p.req.home

(* Every accepted request writes exactly one slot, in that way.            *)
LEMMA AcceptWrites ==
  ASSUME HAInv, NEW a \in HAs, NEW p \in RequestsTo(a), NEW sent \in BOOLEAN,
         HAAccept(a, p, sent)
  PROVE  \E i \in Slots : WritesSlot(a, p, i, sent)
<1> DEFINE home == p.req.home
           i == ChosenSlot(a, home)
<1>1. home \in HomeAddrs
  BY RequestTyped DEF HAInv
<1>2. \/ i \in Used(a) /\ haSlots[a][i].req.home = home
      \/ /\ \A j \in Used(a) : haSlots[a][j].req.home # home
         /\ i = haNum[a] + 1 /\ i \in Slots
  BY <1>1, ChosenSlotIs DEF HAInv, HAAccept
<1>3. i \in Slots
  BY <1>2 DEF Used
<1>4. haNum[a] \in Nat /\ Used(a) = 1 .. haNum[a]
  BY DEF HAInv, HATypeOK, HATableSound
<1>5. i \in Used(a) => haSlots[a][i].req.home = home
  BY <1>2, <1>4
<1>6. \A j \in Used(a) \ {i} : haSlots[a][j].req.home # home
  BY <1>2 DEF HAInv, HATableSound
<1>7. \A j \in Slots \ {i} : haSlots'[a][j] = haSlots[a][j]
  BY <1>3 DEF HAInv, HATypeOK, HAAccept
<1>8. haSlots'[a][i] = [isempty |-> FALSE, req |-> p.req,
                        isconnected |-> Connected(haSlots[a][i], sent),
                        iswithfa |-> WithFa(haSlots[a][i], p.req, sent)]
  BY <1>3 DEF HAInv, HATypeOK, HAAccept
<1>9. haSlots'[a][i].isconnected =>
        sent \/ (i \in Used(a) /\ haSlots[a][i].isconnected)
  BY <1>3, <1>8 DEF Connected, Used
<1>10. \A b \in HAs \ {a} : haSlots'[b] = haSlots[b]
  BY DEF HAInv, HATypeOK, HAAccept
<1>11. WritesSlot(a, p, i, sent)
  BY <1>3, <1>5, <1>6, <1>7, <1>8, <1>9, <1>10 DEF WritesSlot
<1> QED
  BY <1>3, <1>11

(* A binding that stays, with its route, still agrees with it.             *)
LEMMA RouteFitsKept ==
  ASSUME NEW b, NEW j, RouteFits(b, j), haSlots'[b][j] = haSlots[b][j],
         haRoute'[b][haSlots[b][j].req.home]
           = haRoute[b][haSlots[b][j].req.home],
         haTunnels[b] \subseteq haTunnels'[b]
  PROVE  RouteFits(b, j)'
BY DEF RouteFits

(* Every kind of step keeps the routes in agreement with the bindings.     *)
LEMMA RouteAgreesNext ==
  HAInv /\ HARouteAgrees /\ [HASpecNext]_<<haVars, net>> => HARouteAgrees'
<1> SUFFICES ASSUME HAInv, HARouteAgrees, [HASpecNext]_<<haVars, net>>
             PROVE  HARouteAgrees'
  OBVIOUS
<1>1. ASSUME NEW a \in HAs, NEW p \in RequestsTo(a), NEW sent \in BOOLEAN,
             HAAccept(a, p, sent)
      PROVE  HARouteAgrees'
  <2> DEFINE home == p.req.home
  <2>1. home \in HomeAddrs /\ p.saddr \in {p.req.coa, <<p.req.ha, FixedHost>>}
    BY RequestTyped DEF HAInv
  <2>2. PICK i \in Slots : WritesSlot(a, p, i, sent)
    BY <1>1, AcceptWrites
  <2>3. /\ haRoute'[a][home] = RouteFor(p.req, p.saddr)
        /\ \A h \in HomeAddrs \ {home} : haRoute'[a][h] = haRoute[a][h]
        /\ haTunnels'[a] = haTunnels[a] \cup TunnelFor(p.req)
    BY <1>1, <2>1 DEF HAInv, HATypeOK, HAAccept, InstallRoute
  <2>4. \A b \in HAs \ {a} : /\ haRoute'[b] = haRoute[b]
                             /\ haTunnels'[b] = haTunnels[b]
    BY <1>1 DEF HAInv, HATypeOK, HAAccept
  <2>5. ASSUME NEW b \in HAs, NEW j \in Used(b)'
        PROVE  RouteFits(b, j)'
    <3>1. CASE b # a
      <4>1. haSlots'[b] = haSlots[b]
        BY <2>2, <3>1 DEF WritesSlot
      <4>2. RouteFits(b, j)
        BY <2>5, <4>1 DEF HARouteAgrees, Used
      <4>3. haRoute'[b] = haRoute[b] /\ haTunnels'[b] = haTunnels[b]
        BY <2>4, <3>1
      <4> QED
        BY <4>1, <4>2, <4>3, RouteFitsKept
    <3>2. CASE b = a /\ j = i
      <4>1. haSlots'[a][i].req = p.req
        BY <2>2 DEF WritesSlot
      <4> QED
        BY <2>1, <2>3, <3>2, <4>1 DEF RouteFits, RouteFor, TunnelFor, ViaRoute
    <3>3. CASE b = a /\ j # i
      <4>1. j \in Used(a) /\ haSlots'[a][j] = haSlots[a][j]
        BY <2>2, <2>5, <3>3 DEF WritesSlot, Used
      <4>2. haSlots[a][j].req.home \in HomeAddrs
        BY <4>1, BindingTyped DEF HAInv
      <4>3. haSlots[a][j].req.home # home
        BY <2>2, <3>3, <4>1 DEF WritesSlot
      <4>4. RouteFits(a, j)
        BY <4>1 DEF HARouteAgrees
      <4>5. haRoute'[a][haSlots[a][j].req.home]
              = haRoute[a][haSlots[a][j].req.home]
        BY <2>3, <4>2, <4>3
      <4> HIDE DEF home
      <4> QED
        BY <2>3, <3>3, <4>1, <4>4, <4>5, RouteFitsKept
    <3> QED
      BY <3>1, <3>2, <3>3
  <2> QED
    BY <2>5 DEF HARouteAgrees
<1>2. ASSUME NEW a \in HAs, HARestart(a)
      PROVE  HARouteAgrees'
  <2>1. /\ Used(a)' = {}
        /\ \A b \in HAs \ {a} : /\ haSlots'[b] = haSlots[b]
                                /\ haRoute'[b] = haRoute[b]
        /\ haTunnels' = haTunnels
    BY <1>2 DEF HAInv, HATypeOK, HARestart, Used, Empty
  <2>2. ASSUME NEW b \in HAs, NEW j \in Used(b)'
        PROVE  RouteFits(b, j)'
    <3>1. b # a
      BY <2>1, <2>2
    <3>2. haSlots'[b] = haSlots[b] /\ haRoute'[b] = haRoute[b]
      BY <2>1, <3>1
    <3>3. RouteFits(b, j)
      BY <2>2, <3>2 DEF HARouteAgrees, Used
    <3> QED
      BY <2>1, <3>2, <3>3, RouteFitsKept
  <2> QED
    BY <2>2 DEF HARouteAgrees
<1>3. CASE UNCHANGED haVars
  <2>1. haSlots' = haSlots /\ haRoute' = haRoute /\ haTunnels' = haTunnels
    BY <1>3 DEF haVars
  <2>2. ASSUME NEW b \in HAs, NEW j \in Used(b)'
        PROVE  RouteFits(b, j)'
    <3>1. RouteFits(b, j)
      BY <2>1, <2>2 DEF HARouteAgrees, Used
    <3> QED
      BY <2>1, <3>1, RouteFitsKept
  <2> QED
    BY <2>2 DEF HARouteAgrees
<1>4. ASSUME NEW p \in ClientRequests, ClientSend(p)
      PROVE  HARouteAgrees'
  BY <1>3, <1>4 DEF ClientSend
<1> QED
  BY <1>1, <1>2, <1>3, <1>4
  DEF HASpecNext, HANext, HAHandleRequest, HAIgnoreFull

(* The kernel route of a bound home address always agrees with its current *)
(* binding, whatever requests were made before, in whatever order.         *)
THEOREM HARouteAlwaysAgrees == HASpec => []HARouteAgrees
<1>1. HASpecInit => HARouteAgrees
  BY DEF HASpecInit, HAInit, HARouteAgrees, Used, Empty
<1> QED
  BY <1>1, HAInvariant, RouteAgreesNext, PTL DEF HASpec

(* No registration evicts or moves a binding: only a restart empties slots.*)
THEOREM HABindingsStay == HASpec => HABindingStable
<1> DEFINE Stays == haRestarts' = haRestarts =>
             \A a \in HAs : \A i \in Used(a) :
               /\ ~haSlots'[a][i].isempty
               /\ haSlots'[a][i].req.home = haSlots[a][i].req.home
<1>1. HAInv /\ [HASpecNext]_<<haVars, net>> => [Stays]_haVars
  <2> SUFFICES ASSUME HAInv, [HASpecNext]_<<haVars, net>>
               PROVE  Stays \/ UNCHANGED haVars
    OBVIOUS
  <2>1. ASSUME NEW a \in HAs, NEW p \in RequestsTo(a), NEW sent \in BOOLEAN,
               HAAccept(a, p, sent)
        PROVE  Stays
    <3>1. PICK i \in Slots : WritesSlot(a, p, i, sent)
      BY <2>1, AcceptWrites
    <3>2. ASSUME NEW b \in HAs, NEW j \in Used(b)
          PROVE  /\ ~haSlots'[b][j].isempty
                 /\ haSlots'[b][j].req.home = haSlots[b][j].req.home
      BY <3>1, <3>2 DEF WritesSlot, Used
    <3> QED
      BY <3>2
  <2>2. ASSUME NEW a \in HAs, HARestart(a)
        PROVE  Stays
    BY <2>2 DEF HARestart, HAInv, HATypeOK
  <2> QED
    BY <2>1, <2>2
    DEF HASpecNext, HANext, HAHandleRequest, HAIgnoreFull, ClientSend
<1> QED
  BY <1>1, HAInvariant, PTL DEF HASpec, HABindingStable

-----------------------------------------------------------------------------
(***************************************************************************)
(* Replies and the bindings they stand for.                                *)
(***************************************************************************)
(* No accepted request takes a home address out of the table.              *)
LEMMA AcceptKeepsHomes ==
  ASSUME HAInv, NEW a \in HAs, NEW p \in RequestsTo(a), NEW sent \in BOOLEAN,
         HAAccept(a, p, sent)
  PROVE  /\ SlotsOf(a, p.req.home)' # {}
         /\ \A b \in HAs, h \in HomeAddrs :
              SlotsOf(b, h) # {} => SlotsOf(b, h)' # {}
<1>1. PICK i \in Slots : WritesSlot(a, p, i, sent)
  BY AcceptWrites
<1>2. SlotsOf(a, p.req.home)' # {}
  BY <1>1 DEF WritesSlot, SlotsOf, Used
<1>3. ASSUME NEW b \in HAs, NEW h \in HomeAddrs, NEW j \in SlotsOf(b, h)
      PROVE  j \in SlotsOf(b, h)'
  BY <1>1, <1>3 DEF WritesSlot, SlotsOf, Used
<1> QED
  BY <1>2, <1>3

(* Every kind of step keeps the replies backed by bindings.                *)
LEMMA RepliesBackedNext ==
  HAInv /\ HARepliesBacked /\ [HASpecNext]_<<haVars, net>> => HARepliesBacked'
<1> SUFFICES ASSUME HAInv, HARepliesBacked, [HASpecNext]_<<haVars, net>>,
                    NEW q \in net', q.type = "reply", q.saddr \in HAs
             PROVE  /\ \E coa \in Agents :
                         <<q.saddr, q.rep.home, coa>> \in haBound'
                    /\ haRestarts' = 0 => SlotsOf(q.saddr, q.rep.home)' # {}
  BY DEF HARepliesBacked
<1>1. ASSUME q \in net
      PROVE  /\ q.rep.home \in HomeAddrs
             /\ \E coa \in Agents : <<q.saddr, q.rep.home, coa>> \in haBound
             /\ haRestarts = 0 => SlotsOf(q.saddr, q.rep.home) # {}
  <2>1. q \in Replies
    BY <1>1 DEF HAInv, HANetOK, Packets, Requests
  <2> QED
    BY <1>1, <2>1 DEF HARepliesBacked, Replies, ReplyPayloads
<1>2. ASSUME NEW a \in HAs, NEW p \in RequestsTo(a), NEW sent \in BOOLEAN,
             HAAccept(a, p, sent)
      PROVE  /\ \E coa \in Agents : <<q.saddr, q.rep.home, coa>> \in haBound'
             /\ haRestarts' = 0 => SlotsOf(q.saddr, q.rep.home)' # {}
  <2>1. CASE q \in net
    <3>1. haBound \subseteq haBound' /\ haRestarts' = haRestarts
      BY <1>2 DEF HAAccept
    <3> QED
      BY <1>1, <1>2, <2>1, <3>1, AcceptKeepsHomes
  <2>2. CASE q = HAReply(a, p)
    <3>1. q.saddr = a /\ q.rep.home = p.req.home
      BY <2>2 DEF HAReply
    <3>2. <<a, p.req.home, p.req.coa>> \in haBound' /\ p.req.coa \in Agents
      BY <1>2, RequestTyped DEF HAInv, HAAccept
    <3> QED
      BY <1>2, <3>1, <3>2, AcceptKeepsHomes
  <2> QED
    BY <1>2, <2>1, <2>2 DEF HAAccept
<1>3. ASSUME NEW a \in HAs, HARestart(a)
      PROVE  /\ \E coa \in Agents : <<q.saddr, q.rep.home, coa>> \in haBound'
             /\ haRestarts' = 0 => SlotsOf(q.saddr, q.rep.home)' # {}
  <2>1. haRestarts' # 0 /\ haBound' = haBound /\ q \in net
    BY <1>3, MaxRestartsAssumption DEF HARestart, HAInv, HATypeOK
  <2> QED
    BY <1>1, <2>1
<1>4. ASSUME NEW p \in ClientRequests, ClientSend(p)
      PROVE  /\ \E coa \in Agents : <<q.saddr, q.rep.home, coa>> \in haBound'
             /\ haRestarts' = 0 => SlotsOf(q.saddr, q.rep.home)' # {}
  <2>1. q \in net
    BY <1>4 DEF ClientSend, ClientRequests, Requests
  <2> QED
    BY <1>1, <1>4, <2>1 DEF ClientSend, haVars, SlotsOf, Used
<1>5. CASE UNCHANGED <<haVars, net>>
  BY <1>1, <1>5 DEF haVars, SlotsOf, Used
<1> QED
  BY <1>2, <1>3, <1>4, <1>5
  DEF HASpecNext, HANext, HAHandleRequest, HAIgnoreFull

(* Every reply stands for a binding its sender made, which is still there  *)
(* as long as nothing was restarted.                                       *)
THEOREM HARepliesAlwaysBacked == HASpec => []HARepliesBacked
<1>1. HASpecInit => HARepliesBacked
  BY DEF HASpecInit, HARepliesBacked
<1> QED
  BY <1>1, HAInvariant, RepliesBackedNext, PTL DEF HASpec

(* Every kind of step keeps connected slots answered.                      *)
LEMMA ConnectedWasToldNext ==
  HAInv /\ HAConnectedWasTold /\ [HASpecNext]_<<haVars, net>>
    => HAConnectedWasTold'
<1> SUFFICES ASSUME HAInv, HAConnectedWasTold, [HASpecNext]_<<haVars, net>>
             PROVE  HAConnectedWasTold'
  OBVIOUS
<1>1. net \subseteq net'
  <2>1. ASSUME NEW a \in HAs, NEW p \in RequestsTo(a), HAHandleRequest(a, p)
        PROVE  net \subseteq net'
    BY <2>1 DEF HAHandleRequest, HAAccept, HAIgnoreFull
  <2>2. ASSUME NEW a \in HAs, HARestart(a)
        PROVE  net \subseteq net'
    BY <2>2 DEF HARestart
  <2>3. ASSUME NEW p \in ClientRequests, ClientSend(p)
        PROVE  net \subseteq net'
    BY <2>3 DEF ClientSend
  <2> QED
    BY <2>1, <2>2, <2>3 DEF HASpecNext, HANext
<1>2. ASSUME NEW a \in HAs, NEW p \in RequestsTo(a), NEW sent \in BOOLEAN,
             HAAccept(a, p, sent)
      PROVE  HAConnectedWasTold'
  <2>1. PICK i \in Slots : WritesSlot(a, p, i, sent)
    BY <1>2, AcceptWrites
  <2>2. ASSUME NEW b \in HAs, NEW j \in Used(b)', haSlots'[b][j].isconnected
        PROVE  \E q \in net' : /\ q.type = "reply" /\ q.saddr = b
                               /\ q.rep.home = haSlots'[b][j].req.home
    <3>1. CASE b = a /\ j = i /\ sent
      <4>1. HAReply(a, p) \in net' /\ haSlots'[a][i].req = p.req
        BY <1>2, <2>1, <3>1 DEF HAAccept, WritesSlot
      <4> QED
        BY <3>1, <4>1 DEF HAReply
    <3>2. CASE ~(b = a /\ j = i /\ sent)
      <4>1. /\ j \in Used(b) /\ haSlots[b][j].isconnected
            /\ haSlots'[b][j].req.home = haSlots[b][j].req.home
        BY <2>1, <2>2, <3>2 DEF WritesSlot, Used
      <4> QED
        BY <1>1, <4>1 DEF HAConnectedWasTold
    <3> QED
      BY <3>1, <3>2
  <2> QED
    BY <2>2 DEF HAConnectedWasTold
<1>3. ASSUME NEW a \in HAs, HARestart(a)
      PROVE  HAConnectedWasTold'
  <2>1. Used(a)' = {} /\ \A b \in HAs \ {a} : haSlots'[b] = haSlots[b]
    BY <1>3 DEF HAInv, HATypeOK, HARestart, Used, Empty
  <2> QED
    BY <1>1, <2>1 DEF HAConnectedWasTold, Used
<1>4. CASE UNCHANGED haVars
  BY <1>1, <1>4 DEF HAConnectedWasTold, haVars, Used
<1> QED
  BY <1>2, <1>3, <1>4
  DEF HASpecNext, HANext, HAHandleRequest, HAIgnoreFull, ClientSend

(* A slot is marked connected only once its home address has been answered:*)
(* a send that fails never sets the mark.                                  *)
THEOREM HAConnectedAlwaysTold == HASpec => []HAConnectedWasTold
<1>1. HASpecInit => HAConnectedWasTold
  BY DEF HASpecInit, HAInit, HAConnectedWasTold, Used, Empty
<1> QED
  BY <1>1, HAInvariant, ConnectedWasToldNext, PTL DEF HASpec

-----------------------------------------------------------------------------
(***************************************************************************)
(* The registry that the tables implement.                                 *)
(***************************************************************************)
(* The lines of a table that is not full have places of their own, the     *)
(* slots in use.                                                           *)
LEMMA LinesFit ==
  ASSUME HATypeOK, HATableSound, NEW a \in HAs, ~Full(a)
  PROVE  Book!HasRoom(Lines(a))
<1> DEFINE Of(t, i) ==
             t = <<haSlots[a][i].req.home, haSlots[a][i].req.coa>>
           place == [t \in Lines(a) |-> CHOOSE i \in Used(a) : Of(t, i)]
<1>1. haNum[a] \in 0 .. MaxBindings - 1 /\ Used(a) = 1 .. haNum[a]
  BY MaxBindingsAssumption DEF HATypeOK, HATableSound, Full
<1>2. ASSUME NEW t \in Lines(a)
      PROVE  place[t] \in Used(a) /\ Of(t, place[t])
  <2>1. \E i \in Used(a) : Of(t, i)
    BY DEF Lines
  <2> QED
    BY <2>1
<1>3. Used(a) \subseteq 1 .. MaxBindings - 1
  BY <1>1, MaxBindingsAssumption
<1>4. place \in [Lines(a) -> 1 .. MaxBindings - 1]
  BY <1>2, <1>3
<1>5. ASSUME NEW x \in Lines(a), NEW y \in Lines(a), place[x] = place[y]
      PROVE  x = y
  BY <1>2, <1>5
<1> HIDE DEF place
<1> QED
  BY <1>4, <1>5 DEF Book!HasRoom

(* An accepted request writes its line in place of the old one.            *)
LEMMA AcceptWritesLine ==
  ASSUME HAInv, NEW a \in HAs, NEW p \in RequestsTo(a), NEW sent \in BOOLEAN,
         HAAccept(a, p, sent)
  PROVE  /\ Lines(a)' = Book!Written(Lines(a), p.req.home, p.req.coa)
         /\ \A b \in HAs \ {a} : Lines(b)' = Lines(b)
<1>1. PICK i \in Slots : WritesSlot(a, p, i, sent)
  BY AcceptWrites
<1>2. \A b \in HAs \ {a} : Lines(b)' = Lines(b)
  BY <1>1 DEF WritesSlot, Lines, Used
<1>3. Used(a)' = Used(a) \cup {i}
  BY <1>1 DEF WritesSlot, Used
<1>4. haSlots'[a][i].req = p.req
  BY <1>1 DEF WritesSlot
<1>5. \A j \in Used(a) \ {i} :
        haSlots'[a][j] = haSlots[a][j] /\ haSlots[a][j].req.home # p.req.home
  BY <1>1 DEF WritesSlot, Used
<1>6. i \in Used(a) => haSlots[a][i].req.home = p.req.home
  BY <1>1 DEF WritesSlot
<1>7. ASSUME NEW t \in Lines(a)'
      PROVE  t \in Book!Written(Lines(a), p.req.home, p.req.coa)
  <2>1. PICK j \in Used(a)' :
          t = <<haSlots'[a][j].req.home, haSlots'[a][j].req.coa>>
    BY <1>7 DEF Lines
  <2>2. CASE j = i
    BY <1>4, <2>1, <2>2 DEF Book!Written
  <2>3. CASE j # i
    <3>1. j \in Used(a) \ {i}
      BY <1>3, <2>1, <2>3
    <3>2. t \in Lines(a) /\ t[1] # p.req.home
      BY <1>5, <2>1, <3>1 DEF Lines
    <3> QED
      BY <3>2 DEF Book!Written
  <2> QED
    BY <2>2, <2>3
<1>8. ASSUME NEW t \in Book!Written(Lines(a), p.req.home, p.req.coa)
      PROVE  t \in Lines(a)'
  <2>1. CASE t = <<p.req.home, p.req.coa>>
    BY <1>3, <1>4, <2>1 DEF Lines
  <2>2. CASE t \in Lines(a) /\ t[1] # p.req.home
    <3>1. PICK j \in Used(a) :
            t = <<haSlots[a][j].req.home, haSlots[a][j].req.coa>>
      BY <2>2 DEF Lines
    <3>2. j # i
      BY <1>6, <2>2, <3>1
    <3>3. haSlots'[a][j] = haSlots[a][j] /\ j \in Used(a)'
      BY <1>3, <1>5, <3>2
    <3> QED
      BY <3>1, <3>3 DEF Lines
  <2> QED
    BY <2>1, <2>2 DEF Book!Written
<1> QED
  BY <1>2, <1>7, <1>8

LEMMA AcceptRegisters ==
  ASSUME HAInv, NEW a \in HAs, NEW p \in RequestsTo(a), NEW sent \in BOOLEAN,
         HAAccept(a, p, sent)
  PROVE  Book!Register(a, p.req.home, p.req.coa, p.req.ident)
<1> DEFINE books == [b \in HAs |-> Lines(b)]
<1>1. Book!HasRoom(Lines(a))
  BY LinesFit DEF HAInv, HAAccept
<1>2. books' = [books EXCEPT ![a] =
                  Book!Written(@, p.req.home, p.req.coa)]
  BY AcceptWritesLine
<1>3. Acknowledged' \in {Acknowledged,
                         Acknowledged \cup {<<a, p.req.home, p.req.ident>>}}
  <2>1. CASE net' = net
    BY <2>1 DEF Acknowledged
  <2>2. CASE net' = net \cup {HAReply(a, p)}
    BY <2>2 DEF Acknowledged, HAReply
  <2> QED
    BY <2>1, <2>2 DEF HAAccept
<1> QED
  BY <1>1, <1>2, <1>3 DEF Book!Register

LEMMA RestartForgets ==
  ASSUME HAInv, NEW a \in HAs, HARestart(a)
  PROVE  Book!Forget(a)
<1>1. haSlots' = [haSlots EXCEPT ![a] = [i \in Slots |-> Empty]]
      /\ haSlots \in [HAs -> [Slots -> Bindings \cup {Empty}]]
      /\ net' = net
  BY DEF HARestart, HAInv, HATypeOK
<1>2. Lines(a)' = {}
  BY <1>1 DEF Lines, Used, Empty
<1>3. \A b \in HAs \ {a} : Lines(b)' = Lines(b)
  BY <1>1 DEF Lines, Used
<1>4. Acknowledged' = Acknowledged
  BY <1>1 DEF Acknowledged
<1> QED
  BY <1>2, <1>3, <1>4 DEF Book!Forget

(* Whatever a home agent does is a step of the registry, or none.          *)
LEMMA HAStepRegisters ==
  ASSUME HAInv, HANext
  PROVE  [Book!RegistryNext]_<<[a \in HAs |-> Lines(a)], Acknowledged>>
<1>1. ASSUME NEW a \in HAs, NEW p \in RequestsTo(a), NEW sent \in BOOLEAN,
             HAAccept(a, p, sent)
      PROVE  Book!RegistryNext
  <2>1. /\ p.req.home \in HomeAddrs /\ p.req.coa \in Agents
        /\ p.req.ident \in Idents
    BY RequestTyped DEF HAInv, RequestPayloads
  <2> QED
    BY <1>1, <2>1, AcceptRegisters DEF Book!RegistryNext
<1>2. ASSUME NEW a \in HAs, HARestart(a) PROVE Book!RegistryNext
  BY <1>2, RestartForgets DEF Book!RegistryNext
<1>3. ASSUME NEW a \in HAs, NEW p \in RequestsTo(a), HAIgnoreFull(a, p)
      PROVE  UNCHANGED <<[b \in HAs |-> Lines(b)], Acknowledged>>
  BY <1>3 DEF HAIgnoreFull, haVars, Lines, Used, Acknowledged
<1> QED
  BY <1>1, <1>2, <1>3 DEF HANext, HAHandleRequest

(* The tables of the home agents, of any size, are a registry: one line    *)
(* per home address, written and acknowledged together, lost by a restart  *)
(* only.                                                                   *)
THEOREM HomeAgentImplements == HASpec => HAImplementsRegistry
<1>1. HASpecInit => Book!RegistryInit
  <2> SUFFICES ASSUME HASpecInit PROVE Book!RegistryInit
    OBVIOUS
  <2>1. \A a \in HAs : Lines(a) = {}
    BY DEF HASpecInit, HAInit, Lines, Used, Empty
  <2>2. Acknowledged = {}
    BY DEF HASpecInit, Acknowledged
  <2> QED
    BY <2>1, <2>2 DEF Book!RegistryInit
<1>2. HAInv /\ [HASpecNext]_<<haVars, net>>
        => [Book!RegistryNext]_<<[a \in HAs |-> Lines(a)], Acknowledged>>
  <2> SUFFICES ASSUME HAInv, [HASpecNext]_<<haVars, net>>
      PROVE [Book!RegistryNext]_<<[a \in HAs |-> Lines(a)], Acknowledged>>
    OBVIOUS
  <2>1. ASSUME NEW p \in ClientRequests, ClientSend(p)
        PROVE  UNCHANGED <<[b \in HAs |-> Lines(b)], Acknowledged>>
    <3>1. p.type # "reply"
      BY DEF ClientRequests, Requests
    <3> QED
      BY <2>1, <3>1 DEF ClientSend, haVars, Lines, Used, Acknowledged
  <2>2. CASE UNCHANGED <<haVars, net>>
    BY <2>2 DEF haVars, Lines, Used, Acknowledged
  <2> QED
    BY <2>1, <2>2, HAStepRegisters DEF HASpecNext
<1> QED
  BY <1>1, <1>2, HAInvariant, PTL
  DEF HASpec, HAImplementsRegistry, Book!RegistrySpec
=============================================================================
