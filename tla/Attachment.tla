----------------------------- MODULE Attachment -----------------------------
(***************************************************************************)
(* What the handover protocol promises, without messages: a vehicle is     *)
(* attached, under a home address, only to an agent that a home agent has  *)
(* bound that home address to.  Registration comes before attachment.      *)
(***************************************************************************)
CONSTANTS Homes, Points   \* home addresses; the agents to attach to

VARIABLES
  bound,     \* the pairs <<home, agent>> a home agent has ever bound
  attached   \* the pair the vehicle uses, or Nowhere

Nowhere == <<>>

AttachmentInit == bound = {} /\ attached = Nowhere

Bind(home, agent) ==
  /\ bound' = bound \cup {<<home, agent>>}
  /\ UNCHANGED attached

Attached(home, agent) ==
  /\ <<home, agent>> \in bound
  /\ attached' = <<home, agent>>
  /\ UNCHANGED bound

(* The vehicle's process starts again.                                     *)
Detach ==
  /\ attached' = Nowhere
  /\ UNCHANGED bound

AttachmentNext ==
  \/ \E home \in Homes, agent \in Points :
       Bind(home, agent) \/ Attached(home, agent)
  \/ Detach

AttachmentSpec == AttachmentInit /\ [][AttachmentNext]_<<bound, attached>>

=============================================================================
