------------------------------ MODULE Handover ------------------------------
(***************************************************************************)
(* The V2X handover application as a whole: one vehicle, its home agents   *)
(* and foreign agents, and the network between them.                       *)
(***************************************************************************)
EXTENDS HomeAgent, ForeignAgent, Obu

hoVars == <<haVars, faVars, obuVars, net>>

HandoverInit == HAInit /\ FAInit /\ ObuInit /\ net = {}

HAStep == HANext /\ UNCHANGED <<faVars, obuVars>>

(* The vehicle's kernel asks by ARP with the address of its interface.     *)
FAStep ==
  /\ \E f \in FAs : FAHandle(f) \/ (obuAddr # NoAddr /\ FAHandleArp(f, obuAddr))
  /\ UNCHANGED <<haVars, obuVars>>

ObuStep == ObuNext /\ UNCHANGED <<haVars, faVars>>

HandoverNext == HAStep \/ FAStep \/ ObuStep

HandoverSpec == HandoverInit /\ [][HandoverNext]_hoVars

(***************************************************************************)
(* Fairness: every process goes on, a request or reply that was sent is    *)
(* read by the agent it is for, and the vehicle's kernel gets its replies. *)
(* A foreign agent's thread comes back to what waits at its socket, however*)
(* often it is busy with something else: for a request that is strong      *)
(* fairness; of a reply it is only asked while it stays the visitor's.     *)
(***************************************************************************)
ReplyWaits(k) ==
  \E f \in FAs : \E p \in RepliesTo(f) :
    /\ p.rep.ident = k /\ p.rep.code = "accepted" /\ IsForVisitor(f, p.rep)
    /\ ~(IsConnected(f) /\ RelayedReply(f, p.rep) \in net)

DeliverReply(k) ==
  /\ \E p \in net : p.type = "reply" /\ p.rep.ident = k /\ Deliver(p)
  /\ UNCHANGED <<haVars, faVars>>

HandoverFairSpec ==
  /\ HandoverSpec
  /\ WF_hoVars(ObuTick /\ UNCHANGED <<haVars, faVars>>)
  /\ \A f \in FAs : WF_hoVars(FAWork(f) /\ UNCHANGED <<haVars, obuVars>>)
  /\ \A k \in 1 .. MaxIdent :
       /\ WF_hoVars(HAServe(k) /\ UNCHANGED <<faVars, obuVars>>)
       /\ SF_hoVars(FAServeRequest(k) /\ UNCHANGED <<haVars, obuVars>>)
       /\ \/ []<>~ReplyWaits(k)
          \/ []<><<FAServeReply(k) /\ UNCHANGED <<haVars, obuVars>>>>_hoVars
       /\ WF_hoVars(DeliverReply(k))

-----------------------------------------------------------------------------
(* The vehicle's home agent is a real home agent, never a foreign agent    *)
(* that was heard first: a foreign agent does not answer for itself.       *)
HomeAgentIsHA == obuHome # 0 => obuList[obuHome].dest \in HAs

(* Whatever is lost, late or repeated, the agent the vehicle is connected  *)
(* to is a care-of address that some home agent bound the accepted home    *)
(* address to.                                                             *)
AttachedWasBound ==
  obuNow # 0 =>
    \E h \in HAs :
      <<h, obuList[obuNow].rep.home, obuList[obuNow].dest>> \in haBound

(* The address the connected vehicle gives its V2X interface is a home     *)
(* address that its home agent has bound.                                  *)
AddressWasBound ==
  obuHome # 0 =>
    \E coa \in Agents : <<obuList[obuHome].dest, obuAddr, coa>> \in haBound

(* The handover protocol implements the abstract attachment.               *)
AttachedTo ==
  IF obuNow = 0 THEN <<>>
                ELSE <<obuList[obuNow].rep.home, obuList[obuNow].dest>>
A == INSTANCE Attachment WITH
       Homes <- HomeAddrs, Points <- Agents,
       bound <- {<<b[2], b[3]>> : b \in haBound}, attached <- AttachedTo
ImplementsAttachment == A!AttachmentSpec

(* A vehicle without a home agent that asks one, in a wait that does not   *)
(* time out, gets it as its home agent.                                    *)
FindsHome ==
  (obuPc = "await" /\ obuHome = 0 /\ obuTimeouts = MaxTimeouts
     /\ obuList[obuSend].dest \in HAs)
  ~> obuHome # 0

(* Every request for a handover that the vehicle made is accepted by its   *)
(* home agent and answered by the foreign agent it was made to.            *)
HandoverRelayed ==
  \A f \in FAs, k \in 1 .. MaxIdent :
    (\E p \in RequestsTo(f) :
       p.mac = Vehicle /\ p.req.ident = k /\ Visiting(p.req))
    ~> \E p \in net : p.type = "reply" /\ p.mac = f /\ p.rep.ident = k

=============================================================================
