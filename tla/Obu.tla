-------------------------------- MODULE Obu ---------------------------------
(***************************************************************************)
(* The OBU: the 50 ms task loop Th_v_V2XHO_OBU_Task_Running_Do, the agent  *)
(* list it keeps (f_i_V2XHO_OBU_Add_Registration_List) and the thread that *)
(* takes the driver's handover commands.  One vehicle.                     *)
(*                                                                         *)
(* A tick has four parts, obuPc: "wsa" reads the advertisement that the    *)
(* radio callback queued, if any; "send" sends the request that a command  *)
(* or the automatic mode asks for; "await" waits for a reply; "reset" ends *)
(* the tick by forgetting which agent was asked.  The command thread runs  *)
(* between any two of them.                                                *)
(*                                                                         *)
(* Indices are 1 .. ; 0 stands for the code's 0xFF.                        *)
(***************************************************************************)
EXTENDS V2XNet, Sequences

CONSTANTS
  Vehicle,         \* this OBU's link address
  MaxList,         \* the size of reg_list, 16 in the code
  LinkMayDiffer,   \* a reply's link source may not be the advertisement's
  Prompt,          \* the driver gives handover commands
  AutoMode,        \* the driver may start the automatic mode, command 99
  RxMax,           \* bound on the replies waiting in the packet socket
  MaxTimeouts,     \* bound: how many waits may end without a reply
  MaxObuRestarts   \* bound: how often the process may be restarted

ASSUME VehicleAssumption == Vehicle \in Obus
ASSUME MaxListAssumption == MaxList \in Nat \ {0}
ASSUME ObuFlagsAssumption ==
  LinkMayDiffer \in BOOLEAN /\ Prompt \in BOOLEAN /\ AutoMode \in BOOLEAN
ASSUME ObuBoundsAssumption ==
  RxMax \in Nat /\ MaxTimeouts \in Nat /\ MaxObuRestarts \in Nat

AgentTypes == {"unknown", "foreign", "home"}
NoReply == [none |-> TRUE]
NoAgent == "none"
NoAddr == <<>>

(* One element of reg_list and reg_sub_list.  The care-of address of its   *)
(* request is always dest, the agent heard.                                *)
Entries == [dest: Agents, src: HomeAddrs, home: HomeAddrs, ha: Agents,
            type: AgentTypes, rep: ReplyPayloads \cup {NoReply}]

VARIABLES
  obuPc,          \* part of the tick: "wsa", "send", "await", "reset"; "dead"
  obuList,        \* reg_list and reg_sub_list, up to registed_num
  obuSend,        \* registration_request_send_num
  obuWaiting,     \* status->waiting_regreply
  obuConnecting,  \* status->connecting
  obuHome,        \* home_agent_num
  obuNow,         \* connecting_now
  obuAddr,        \* the address of the V2X interface
  obuGw,          \* the next hop of the kernel's default route
  obuAuto,        \* g_agent_num is 99
  obuPrompt,      \* the command thread is between its check and its write
  obuRx,          \* replies in the packet socket
  obuSock,        \* raw_socket_ip is open
  obuIdent,       \* the clock, as a count of the requests made
  obuTimeouts,    \* history: waits that timed out so far
  obuRestarts     \* history: restarts so far

obuVars ==
  <<obuPc, obuList, obuSend, obuWaiting, obuConnecting, obuHome, obuNow,
    obuAddr, obuGw, obuAuto, obuPrompt, obuRx, obuSock, obuIdent, obuTimeouts,
    obuRestarts>>

ObuInit ==
  /\ obuPc = "wsa" /\ obuList = <<>> /\ obuSend = 0 /\ obuWaiting = FALSE
  /\ obuConnecting = "none" /\ obuHome = 0 /\ obuNow = 0
  /\ obuAddr = NoAddr /\ obuGw = NoAgent
  /\ obuAuto = FALSE /\ obuPrompt = 0
  /\ obuRx = <<>> /\ obuSock = TRUE /\ obuIdent = 0
  /\ obuTimeouts = 0 /\ obuRestarts = 0

-----------------------------------------------------------------------------
(***************************************************************************)
(* The agent list.                                                         *)
(***************************************************************************)
Indices == 1 .. Len(obuList)
\* Fault: the search starts behind the first entry.
IndexOf_SkipsFirst(a) == {i \in Indices \ {1} : obuList[i].dest = a}

IndexOf(a) == {i \in Indices : obuList[i].dest = a}

(* An agent heard for the first time.  Without a home agent it is asked to *)
(* be one, for host 28 of its network; otherwise the entry copies the home *)
(* agent's.                                                                *)
NewEntry(a) ==
  IF obuHome = 0
  THEN [dest |-> a, src |-> <<a, FixedHost>>, home |-> <<a, FixedHost>>,
        ha |-> a, type |-> "unknown", rep |-> NoReply]
  ELSE [obuList[obuHome] EXCEPT !.dest = a, !.type = "unknown", !.rep = NoReply]

(* The refresh of a known entry.  Without a home agent an agent that has   *)
(* not failed to answer gets a new, byte-swapped home address: req_payload *)
(* takes it, source_address does not.                                      *)
Refreshed(i) ==
  IF obuHome # 0
  THEN {[obuList[i] EXCEPT !.src = obuList[obuHome].src,
                           !.home = obuList[obuHome].home,
                           !.ha = obuList[obuHome].ha]}
  ELSE IF obuList[i].type = "unknown"
       THEN {[obuList[i] EXCEPT !.home = <<obuList[i].dest, x>>,
                                !.ha = obuList[i].dest] : x \in SwappedHosts}
       ELSE {obuList[i]}

\* Fault: the interface gets the address of the agent.
AddrFor_Agent(e) == e.dest

(* The interface address is set along with a home address.                 *)
AddrFor(e) == IF obuHome = 0 /\ e.type = "unknown" THEN e.home ELSE obuAddr

Request(e) ==
  [type |-> "request", mac |-> Vehicle, saddr |-> e.src, daddr |-> e.dest,
   req |-> [home |-> e.home, ha |-> e.ha, coa |-> e.dest,
            ident |-> obuIdent + 1]]

(* f_i_V2XHO_OBU_Send_Registration_Request to entry e; a failed send closes*)
(* the socket, and nothing opens it again.                                 *)
SendOk == obuSock /\ obuIdent < MaxIdent
SendFails == (~obuSock \/ SendMayFail)

SendRequest(e, sent) ==
  IF sent THEN /\ SendOk
               /\ net' = net \cup {Request(e)}
               /\ obuIdent' = obuIdent + 1
               /\ UNCHANGED obuSock
          ELSE /\ SendFails
               /\ obuSock' = FALSE
               /\ UNCHANGED <<net, obuIdent>>
NoRequest == UNCHANGED <<net, obuIdent, obuSock>>

\* Fault: waiting_regreply is set before the outcome of the send is known.
WaitsAfter_Always(sent) == TRUE

(* A successful send starts the wait; a failed one does not end it.        *)
WaitsAfter(sent) == sent \/ obuWaiting

-----------------------------------------------------------------------------
(***************************************************************************)
(* Part "wsa".  The loop is never here while it waits for a reply, so the  *)
(* test of waiting_regreply at its head is always passed.                  *)
(***************************************************************************)
WsaOther == UNCHANGED <<obuConnecting, obuHome, obuNow, obuGw, obuAuto,
                        obuPrompt, obuRx, obuTimeouts, obuRestarts>>

(* A newly heard agent is asked at once while there is no home agent.      *)
AsksNewcomer == obuHome = 0

HearNew(a) ==
  /\ obuPc = "wsa" /\ Len(obuList) < MaxList /\ IndexOf(a) = {}
  /\ obuPc' = "send"
  /\ obuList' = Append(obuList, NewEntry(a))
  /\ obuAddr' = AddrFor(NewEntry(a))
  /\ IF AsksNewcomer
     THEN \E sent \in BOOLEAN :
            /\ SendRequest(NewEntry(a), sent)
            /\ obuSend' = IF sent THEN Len(obuList) + 1 ELSE 0
            /\ obuWaiting' = WaitsAfter(sent)
     ELSE NoRequest /\ UNCHANGED <<obuSend, obuWaiting>>
  /\ WsaOther

HearKnown(a) ==
  /\ obuPc = "wsa" /\ Len(obuList) < MaxList
  /\ \E i \in IndexOf(a) : \E e \in Refreshed(i) :
       /\ obuList' = [obuList EXCEPT ![i] = e]
       /\ obuAddr' = AddrFor(e)
  /\ obuPc' = "send"
  /\ NoRequest /\ UNCHANGED <<obuSend, obuWaiting>>
  /\ WsaOther

(* No advertisement, or the list is full: registed_num < 16 fails and not  *)
(* even a known agent is refreshed.                                        *)
HearNothing ==
  /\ obuPc = "wsa"
  /\ obuPc' = "send"
  /\ UNCHANGED <<obuList, obuAddr, obuSend, obuWaiting>>
  /\ NoRequest
  /\ WsaOther

-----------------------------------------------------------------------------
(***************************************************************************)
(* Part "send".                                                            *)
(***************************************************************************)
AfterSend == obuPc' = IF obuWaiting' THEN "await" ELSE "reset"

(* The default route is replaced first; then the request is sent.          *)
AskEntry(i) ==
  /\ obuSend' = i
  /\ obuGw' = obuList[i].dest
  /\ \E sent \in BOOLEAN :
       /\ SendRequest(obuList[i], sent)
       /\ obuWaiting' = WaitsAfter(sent)
  /\ AfterSend
  /\ UNCHANGED <<obuList, obuConnecting, obuHome, obuNow, obuAddr, obuAuto,
                 obuPrompt, obuRx, obuTimeouts, obuRestarts>>

(* The driver's choice.  In automatic mode the request that part "wsa" has *)
(* just sent is sent once more.                                            *)
SendChosen ==
  /\ obuPc = "send" /\ obuSend # 0 /\ (~obuWaiting \/ obuAuto)
  /\ AskEntry(obuSend)

(* Every five seconds the automatic mode asks some agent of the list.      *)
SendAuto ==
  /\ obuPc = "send" /\ obuAuto /\ obuSend = 0
  /\ \E i \in Indices : AskEntry(i)

(* With an empty list that is a division by registed_num = 0: SIGFPE.      *)
AutoCrash ==
  /\ obuPc = "send" /\ obuAuto /\ obuSend = 0 /\ obuList = <<>>
  /\ obuPc' = "dead"
  /\ UNCHANGED <<obuList, obuSend, obuWaiting, obuConnecting, obuHome, obuNow,
                 obuAddr, obuGw, obuAuto, obuPrompt, obuRx, obuSock, obuIdent,
                 obuTimeouts, obuRestarts, net>>

(* Nothing chosen, or it has been sent by part "wsa".                      *)
SendNothing ==
  /\ obuPc = "send" /\ (obuSend = 0 \/ (obuWaiting /\ ~obuAuto))
  /\ obuAuto => obuList # <<>>
  /\ UNCHANGED <<obuList, obuSend, obuWaiting, obuConnecting, obuHome, obuNow,
                 obuAddr, obuGw, obuAuto, obuPrompt, obuRx, obuSock, obuIdent,
                 obuTimeouts, obuRestarts, net>>
  /\ AfterSend

-----------------------------------------------------------------------------
(***************************************************************************)
(* Part "await".                                                           *)
(***************************************************************************)
\* Fault: only the destination of the packet is compared.
Match_DestOnly(p) == {i \in Indices : obuList[i].src = p.daddr}

(* The entry a packet answers: the IP source is the agent, the destination *)
(* the source address kept for it.  Neither the identification nor the     *)
(* agent that was asked is looked at.                                      *)
Match(p) ==
  {i \in Indices : obuList[i].dest = p.saddr /\ obuList[i].src = p.daddr}

(* A reply makes its sender the home agent if there is none yet and the    *)
(* link address is the advertisement's, or if it says it is the home agent.*)
MakesHome(p, same) == (same /\ obuHome = 0) \/ p.rep.ha = p.saddr

\* Fault: a reply that is not from the home agent still replaces it.
HomeAfter_Always(i, p, same) == i

HomeAfter(i, p, same) == IF MakesHome(p, same) THEN i ELSE obuHome

(* An accepting reply for entry i: the handover is made.                   *)
Attach(i, p, same) ==
  LET first == same /\ obuHome = 0
      home == MakesHome(p, same)
  IN /\ obuList' = [obuList EXCEPT ![i].rep = p.rep,
                                   ![i].type = IF first THEN "home" ELSE @]
     /\ obuConnecting' = IF home THEN "home" ELSE "foreign"
     /\ obuHome' = HomeAfter(i, p, same)
     /\ obuNow' = i
     /\ obuAddr' = IF home THEN obuList[i].home ELSE obuAddr
     \* NLM_F_EXCL: the route that part "send" has set stays
     /\ obuGw' = IF ~same \/ obuGw # NoAgent THEN obuGw
                 ELSE IF home THEN obuList[i].ha ELSE obuList[i].dest

\* Fault: the code of the reply is not looked at.
Accepts_Any(p) == TRUE

Accepts(p) == p.rep.code = "accepted"

(* A refused entry keeps the reply, nothing else changes.                  *)
Refuse(i, p) ==
  /\ obuList' = [obuList EXCEPT ![i].rep = p.rep]
  /\ UNCHANGED <<obuConnecting, obuHome, obuNow, obuAddr, obuGw>>

NoMatch == UNCHANGED <<obuList, obuConnecting, obuHome, obuNow, obuAddr,
                       obuGw>>

(* The next packet of the socket ends the wait, whatever it answers.       *)
ReceiveReply ==
  /\ obuPc = "await" /\ obuRx # <<>>
  /\ obuRx' = Tail(obuRx)
  /\ obuWaiting' = FALSE
  /\ obuPc' = "reset"
  /\ LET p == Head(obuRx)
     IN \/ /\ Match(p) = {}
           /\ NoMatch
        \/ \E i \in Match(p) :
             IF Accepts(p)
             THEN \E same \in {TRUE, ~LinkMayDiffer} : Attach(i, p, same)
             ELSE Refuse(i, p)
  /\ UNCHANGED <<obuSend, obuAuto, obuPrompt, obuSock, obuIdent, obuTimeouts,
                 obuRestarts, net>>

\* Fault: the socket has no receive timeout, so only a packet shows the time.
TimerChecked_OnPacket == obuRx # <<>>

(* recvfrom gives up after 50 ms: the timer is looked at in any case.      *)
TimerChecked == TRUE

(* One second without a reply.  A packet read by then is thrown away.      *)
Timeout ==
  /\ obuPc = "await"
  /\ TimerChecked
  /\ obuTimeouts < MaxTimeouts
  /\ obuTimeouts' = obuTimeouts + 1
  /\ obuWaiting' = FALSE
  /\ obuList' = [obuList EXCEPT ![obuSend].type = "foreign"]
  /\ obuSend' = 0
  /\ obuRx' = IF obuRx = <<>> THEN <<>> ELSE Tail(obuRx)
  /\ obuPc' = "reset"
  /\ UNCHANGED <<obuConnecting, obuHome, obuNow, obuAddr, obuGw, obuAuto,
                 obuPrompt, obuSock, obuIdent, obuRestarts, net>>

(* Part "reset": registration_request_send_num = 0xFF, also when the       *)
(* command thread has just written it.                                     *)
EndTick ==
  /\ obuPc = "reset"
  /\ obuPc' = "wsa"
  /\ obuSend' = 0
  /\ UNCHANGED <<obuList, obuWaiting, obuConnecting, obuHome, obuNow, obuAddr,
                 obuGw, obuAuto, obuPrompt, obuRx, obuSock, obuIdent,
                 obuTimeouts, obuRestarts, net>>

-----------------------------------------------------------------------------
(***************************************************************************)
(* The command thread: it checks that no reply is awaited, then writes.    *)
(***************************************************************************)
PromptOther ==
  UNCHANGED <<obuPc, obuList, obuWaiting, obuConnecting, obuHome, obuNow,
              obuAddr, obuGw, obuRx, obuSock, obuIdent, obuTimeouts,
              obuRestarts, net>>

PromptCheck(i) ==
  /\ Prompt /\ obuPc # "dead" /\ obuPrompt = 0
  /\ i \in Indices /\ ~obuWaiting
  /\ obuPrompt' = i
  /\ UNCHANGED <<obuSend, obuAuto>>
  /\ PromptOther

PromptWrite ==
  /\ obuPc # "dead" /\ obuPrompt # 0
  /\ obuSend' = obuPrompt
  /\ obuPrompt' = 0
  /\ UNCHANGED obuAuto
  /\ PromptOther

PromptAuto ==
  /\ AutoMode /\ obuPc # "dead" /\ ~obuAuto /\ obuPrompt = 0
  /\ obuAuto' = TRUE
  /\ UNCHANGED <<obuSend, obuPrompt>>
  /\ PromptOther

(* The kernel queues a reply for this vehicle, also when none is awaited.  *)
Deliver(p) ==
  /\ p.type = "reply" /\ p.daddr \in HomeAddrs
  /\ obuPc # "dead" /\ Len(obuRx) < RxMax
  /\ obuRx' = Append(obuRx, p)
  /\ UNCHANGED <<obuPc, obuList, obuSend, obuWaiting, obuConnecting, obuHome,
                 obuNow, obuAddr, obuGw, obuAuto, obuPrompt, obuSock,
                 obuIdent, obuTimeouts, obuRestarts, net>>

(* A restart forgets everything but the clock; main flushes the routes.    *)
ObuRestart ==
  /\ obuRestarts < MaxObuRestarts
  /\ obuRestarts' = obuRestarts + 1
  /\ obuPc' = "wsa" /\ obuList' = <<>> /\ obuSend' = 0 /\ obuWaiting' = FALSE
  /\ obuConnecting' = "none" /\ obuHome' = 0 /\ obuNow' = 0
  /\ obuAddr' = NoAddr /\ obuGw' = NoAgent
  /\ obuAuto' = FALSE /\ obuPrompt' = 0 /\ obuRx' = <<>> /\ obuSock' = TRUE
  /\ UNCHANGED <<obuIdent, obuTimeouts, net>>

ObuTick ==
  \/ \E a \in Agents : HearNew(a) \/ HearKnown(a)
  \/ HearNothing
  \/ SendChosen \/ SendAuto \/ AutoCrash \/ SendNothing
  \/ ReceiveReply \/ Timeout
  \/ EndTick

ObuNext ==
  \/ ObuTick
  \/ \E i \in Indices : PromptCheck(i)
  \/ PromptWrite \/ PromptAuto
  \/ \E p \in net : Deliver(p)
  \/ ObuRestart

-----------------------------------------------------------------------------
(***************************************************************************)
(* The OBU alone, with agents that answer each of its requests: accept or  *)
(* refuse, a home agent to the packet's source, a foreign agent to the home*)
(* address in the request.  The answer may arrive more than once.          *)
(***************************************************************************)
AgentReply(q, code) ==
  [type |-> "reply", mac |-> q.daddr, saddr |-> q.daddr,
   daddr |-> IF q.daddr \in HAs THEN q.saddr ELSE q.req.home,
   rep |-> [code |-> code, home |-> q.req.home, ha |-> q.req.ha,
            ident |-> q.req.ident, lifetime |-> ReplyLifetime]]

AgentAnswers(q, code) ==
  /\ q.type = "request"
  /\ \A p \in net : p.type = "reply" => p.rep.ident # q.req.ident
  /\ net' = net \cup {AgentReply(q, code)}
  /\ UNCHANGED obuVars

ObuSpecInit == ObuInit /\ net = {}
ObuSpecNext == ObuNext \/ \E q \in net, code \in Codes : AgentAnswers(q, code)
ObuSpec == ObuSpecInit /\ [][ObuSpecNext]_<<obuVars, net>>

(* The timer fires and recvfrom returns after 50 ms, so the loop goes on;  *)
(* the command thread does not stop between its check and its write.       *)
ObuFairSpec ==
  ObuSpec /\ WF_<<obuVars, net>>(ObuTick) /\ WF_<<obuVars, net>>(PromptWrite)

-----------------------------------------------------------------------------
(* Type correctness of the OBU's state.                                    *)
ObuTypeOK ==
  /\ obuPc \in {"wsa", "send", "await", "reset", "dead"}
  /\ obuList \in Seq(Entries) /\ Len(obuList) <= MaxList
  /\ obuSend \in 0 .. Len(obuList)
  /\ obuWaiting \in BOOLEAN
  /\ obuConnecting \in {"none", "home", "foreign"}
  /\ obuHome \in 0 .. Len(obuList)
  /\ obuNow \in 0 .. Len(obuList)
  /\ obuAddr \in HomeAddrs \cup {NoAddr}
  /\ obuGw \in Agents \cup {NoAgent}
  /\ obuAuto \in BOOLEAN
  /\ obuPrompt \in 0 .. Len(obuList)
  /\ obuRx \in Seq(Replies) /\ Len(obuRx) <= RxMax
  /\ obuSock \in BOOLEAN
  /\ obuIdent \in 0 .. MaxIdent
  /\ obuTimeouts \in 0 .. MaxTimeouts
  /\ obuRestarts \in 0 .. MaxObuRestarts

(* While a reply is awaited there is a valid entry that was asked, whatever*)
(* the command thread writes meanwhile: the timeout's write to             *)
(* reg_sub_list[registration_request_send_num] stays inside the list.      *)
ObuAwaitsSomeone ==
  /\ obuPc = "await" => obuWaiting /\ obuSend \in Indices
  /\ obuWaiting => obuPc \in {"send", "await"}

(* A vehicle that is connected has a home agent, whose entry says so: its  *)
(* request names the heard agent as its home agent.                        *)
ObuHomeConsistent ==
  /\ (obuConnecting = "none") = (obuHome = 0)
  /\ (obuConnecting = "none") = (obuNow = 0)
  /\ obuHome # 0 => obuList[obuHome].ha = obuList[obuHome].dest
  /\ obuConnecting = "home" => obuNow = obuHome

(* However often an agent is heard, and whether its entry was refreshed,   *)
(* refused or timed out before, it has one entry in the list.              *)
ObuOneEntryPerAgent ==
  \A i, j \in Indices : obuList[i].dest = obuList[j].dest => i = j

(* The agent the vehicle is connected to has accepted a request: a refusal,*)
(* a timeout or a reply of another agent never connects the vehicle to it. *)
ObuConnectedWasAccepted ==
  obuNow # 0 =>
    \E p \in net : /\ p.type = "reply" /\ p.rep.code = "accepted"
                   /\ p.saddr = obuList[obuNow].dest

(* Every wait for a reply ends and the loop reads advertisements again.    *)
ObuListens == obuPc = "await" ~> obuPc = "wsa"

=============================================================================
