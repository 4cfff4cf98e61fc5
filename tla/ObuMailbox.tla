----------------------------- MODULE ObuMailbox -----------------------------
(***************************************************************************)
(* How the radio's receive thread hands an advertisement (WSA) to the OBU's*)
(* task loop: F_i_V2XHO_OBU_UDS_Send_WSMP_Data puts it into a datagram     *)
(* socket if waiting_wsa is set, and raises recv_wsa; the loop reads one   *)
(* datagram if recv_wsa is set.  No lock is held.                          *)
(*                                                                         *)
(* recv_wsa, waiting_wsa and waiting_regreply are bit fields of one byte,  *)
(* the second of a packed structure.  Such a field is assigned by a load   *)
(* of the byte, an insertion and a store (ldrb, bfi, strb in the ARM       *)
(* executable of the repository): what the other thread stores in between  *)
(* is undone.                                                              *)
(*                                                                         *)
(* Obu.tla has the same loop at the scale of its parts; here every access  *)
(* to the byte is a step and everything else is left out.                  *)
(***************************************************************************)
EXTENDS Naturals

CONSTANT
  QMax   \* datagrams that the socket holds before sendto gives up

ASSUME QMaxAssumption == QMax \in Nat \ {0}

Fields == {"recv_wsa", "waiting_wsa", "waiting_regreply"}
Bytes == [Fields -> {0, 1}]
Threads == {"radio", "loop"}
NotLoaded == [none |-> TRUE]

RadioPcs == {"idle", "lower", "send", "raise"}
LoopPcs == {"top", "take", "lower", "rearm", "ask", "mark", "unmark",
            "command", "spin", "remark", "arm", "test", "await", "replied",
            "timed_out", "again", "end"}

VARIABLES
  status,    \* the byte of v2xho_equip_state_obu_t with the three fields
  mail,      \* the number of datagrams in the socket
  pc,        \* where each thread is
  reg,       \* the byte a thread has loaded and not yet stored
  asked,     \* registration_request_send_num names an agent
  undone,    \* history: the fields that a store of the radio's thread has
             \*   changed by the way since the loop last assigned them
  misled     \* history: the loop has read a recv_wsa that was undone

mbVars == <<status, mail, pc, reg, asked, undone, misled>>

MailboxInit ==
  /\ status = [f \in Fields |-> IF f = "waiting_wsa" THEN 1 ELSE 0]
  /\ mail = 0
  /\ pc = [t \in Threads |-> IF t = "radio" THEN "idle" ELSE "top"]
  /\ reg = [t \in Threads |-> NotLoaded]
  /\ asked = FALSE
  /\ undone = {} /\ misled = FALSE

Goto(t, there) == pc' = [pc EXCEPT ![t] = there]
Set(field) == status[field] = 1

(***************************************************************************)
(* Thread t assigns v to a field and goes on to there: a load and a store. *)
(***************************************************************************)
Load(t) ==
  /\ reg[t] = NotLoaded
  /\ reg' = [reg EXCEPT ![t] = status]
  /\ UNCHANGED <<status, pc, undone>>

Changed(t) == {f \in Fields : reg[t][f] # status[f]}

Store(t, field, v, there) ==
  /\ reg[t] # NotLoaded
  /\ status' = [reg[t] EXCEPT ![field] = v]
  /\ undone' = IF t = "loop" THEN undone \ {field}
               ELSE undone \cup (Changed(t) \ {field})
  /\ reg' = [reg EXCEPT ![t] = NotLoaded]
  /\ Goto(t, there)

Assign(t, field, v, there) == Load(t) \/ Store(t, field, v, there)

Quiet == UNCHANGED <<status, reg, undone>>

-----------------------------------------------------------------------------
(***************************************************************************)
(* The radio's thread, once for every advertisement it hears.              *)
(***************************************************************************)
RadioHears ==
  /\ pc.radio = "idle" /\ Set("waiting_wsa")
  /\ Goto("radio", "lower")
  /\ Quiet /\ UNCHANGED <<mail, asked, misled>>

RadioLowers ==
  /\ pc.radio = "lower"
  /\ Assign("radio", "waiting_wsa", 0, "send")
  /\ UNCHANGED <<mail, asked, misled>>

\* Fault: nothing is queued while recv_wsa says that something is.
RadioSends_IfRead ==
  /\ pc.radio = "send" /\ mail < QMax
  /\ mail' = IF Set("recv_wsa") THEN mail ELSE mail + 1
  /\ Goto("radio", "raise")
  /\ Quiet /\ UNCHANGED <<asked, misled>>

(* sendto has a timeout of 50 ms.  When the socket is full for that long,  *)
(* the advertisement is dropped and recv_wsa is not raised.                *)
RadioSends ==
  /\ pc.radio = "send" /\ mail < QMax
  /\ mail' = mail + 1
  /\ Goto("radio", "raise")
  /\ Quiet /\ UNCHANGED <<asked, misled>>

RadioDrops ==
  /\ pc.radio = "send" /\ mail = QMax
  /\ Goto("radio", "idle")
  /\ Quiet /\ UNCHANGED <<mail, asked, misled>>

RadioRaises ==
  /\ pc.radio = "raise"
  /\ Assign("radio", "recv_wsa", 1, "idle")
  /\ UNCHANGED <<mail, asked, misled>>

RadioStep ==
  RadioHears \/ RadioLowers \/ RadioSends \/ RadioDrops \/ RadioRaises

-----------------------------------------------------------------------------
(***************************************************************************)
(* The task loop.  First the advertisement.                                *)
(***************************************************************************)
LoopTests ==
  /\ pc.loop = "top"
  /\ Goto("loop", IF Set("recv_wsa") THEN "take" ELSE "command")
  /\ misled' = (misled \/ (Set("recv_wsa") /\ "recv_wsa" \in undone))
  /\ Quiet /\ UNCHANGED <<mail, asked>>

(* recvfrom is called until it returns a datagram.                         *)
LoopTakes ==
  /\ pc.loop = "take" /\ mail > 0
  /\ mail' = mail - 1
  /\ Goto("loop", "lower")
  /\ Quiet /\ UNCHANGED <<asked, misled>>

\* Fault: the loop reads and forgets to lower recv_wsa.
LoopLowers_Forgets ==
  /\ pc.loop = "lower"
  /\ Goto("loop", "rearm")
  /\ Quiet /\ UNCHANGED <<mail, asked, misled>>

LoopLowers ==
  /\ pc.loop = "lower"
  /\ Assign("loop", "recv_wsa", 0, "rearm")
  /\ UNCHANGED <<mail, asked, misled>>

LoopRearms ==
  /\ pc.loop = "rearm"
  /\ Assign("loop", "waiting_wsa", 1, "ask")
  /\ UNCHANGED <<mail, asked, misled>>

(* A new agent is sent a request if no reply is awaited.  The request may  *)
(* fail, or not be made because the agent's type is known.                 *)
LoopAsks ==
  /\ pc.loop = "ask" /\ ~Set("waiting_regreply")
  /\ asked' = TRUE
  /\ \E there \in {"mark", "unmark"} : Goto("loop", there)
  /\ Quiet /\ UNCHANGED <<mail, misled>>

LoopAsksNone ==
  /\ pc.loop = "ask"
  /\ Goto("loop", "command")
  /\ Quiet /\ UNCHANGED <<mail, asked, misled>>

LoopUnmarks ==
  /\ pc.loop = "unmark"
  /\ Assign("loop", "waiting_regreply", 0, "command")
  /\ asked' = (asked /\ pc'.loop # "command")
  /\ UNCHANGED <<mail, misled>>

LoopMarks ==
  /\ pc.loop \in {"mark", "remark"}
  /\ Assign("loop", "waiting_regreply", 1,
            IF pc.loop = "mark" THEN "command" ELSE "arm")
  /\ UNCHANGED <<mail, asked, misled>>

(***************************************************************************)
(* Then the commands.  The driver may have named an agent, if no reply was *)
(* awaited at that time; in the automatic mode the loop names one.  An     *)
(* agent that was named is sent a request, which may fail.  What the driver*)
(* names later, the end of the tick erases.                                *)
(***************************************************************************)
LoopCommands ==
  /\ pc.loop = "command"
  /\ \E auto \in BOOLEAN :
       /\ asked' \in
            IF Set("waiting_regreply") THEN {asked} ELSE {asked, TRUE}
       /\ \E there \in
              IF asked' /\ (auto \/ ~Set("waiting_regreply"))
              THEN {"remark", "arm"}
              ELSE IF ~asked' /\ auto THEN {"spin", "arm"} ELSE {"arm"} :
            Goto("loop", there)
  /\ Quiet /\ UNCHANGED <<mail, misled>>

(* The automatic mode spins until no reply is awaited.                     *)
LoopSpins ==
  /\ pc.loop = "spin" /\ ~Set("waiting_regreply")
  /\ asked' = TRUE
  /\ \E there \in {"remark", "arm"} : Goto("loop", there)
  /\ Quiet /\ UNCHANGED <<mail, misled>>

-----------------------------------------------------------------------------
(***************************************************************************)
(* Last the wait for a reply.                                              *)
(***************************************************************************)
\* Fault: the mailbox is opened only after a datagram was read.
LoopArms_Not ==
  /\ pc.loop = "arm"
  /\ Goto("loop", "test")
  /\ Quiet /\ UNCHANGED <<mail, asked, misled>>

LoopArms ==
  /\ pc.loop = "arm"
  /\ Assign("loop", "waiting_wsa", 1, "test")
  /\ UNCHANGED <<mail, asked, misled>>

LoopTestsReply ==
  /\ pc.loop \in {"test", "again"}
  /\ Goto("loop", IF Set("waiting_regreply") THEN "await" ELSE "end")
  /\ Quiet /\ UNCHANGED <<mail, asked, misled>>

(* A packet of the registration port, one second without any, or a packet  *)
(* of another port before that second is over.                             *)
LoopAwaits(outcome) ==
  /\ pc.loop = "await"
  /\ Goto("loop", outcome)
  /\ Quiet /\ UNCHANGED <<mail, asked, misled>>

(* After a packet the loop condition is tested again.                      *)
LoopReplied ==
  /\ pc.loop = "replied"
  /\ Assign("loop", "waiting_regreply", 0, "again")
  /\ UNCHANGED <<mail, asked, misled>>

\* Fault: the timeout leaves the loop without resetting waiting_regreply.
LoopTimesOut_Keeps ==
  /\ pc.loop = "timed_out"
  /\ Goto("loop", "end")
  /\ asked' = FALSE
  /\ Quiet /\ UNCHANGED <<mail, misled>>

\* Fault: the timeout marks the agent and goes on waiting.
LoopTimesOut_Waits ==
  /\ pc.loop = "timed_out"
  /\ Goto("loop", "again")
  /\ Quiet /\ UNCHANGED <<mail, asked, misled>>

(* A timeout breaks out of the loop.                                       *)
LoopTimesOut ==
  /\ pc.loop = "timed_out"
  /\ Assign("loop", "waiting_regreply", 0, "end")
  /\ asked' = (asked /\ pc'.loop # "end")
  /\ UNCHANGED <<mail, misled>>

LoopEnds ==
  /\ pc.loop = "end"
  /\ asked' = FALSE
  /\ Goto("loop", "top")
  /\ Quiet /\ UNCHANGED <<mail, misled>>

LoopStep ==
  \/ LoopTests \/ LoopTakes \/ LoopLowers \/ LoopRearms
  \/ LoopAsks \/ LoopAsksNone \/ LoopMarks \/ LoopUnmarks
  \/ LoopCommands \/ LoopSpins \/ LoopArms \/ LoopTestsReply
  \/ \E outcome \in {"replied", "timed_out", "again"} : LoopAwaits(outcome)
  \/ LoopReplied \/ LoopTimesOut \/ LoopEnds

MailboxNext == RadioStep \/ LoopStep
MailboxSpec == MailboxInit /\ [][MailboxNext]_mbVars

(* Both threads go on, advertisements keep coming, and the second of a     *)
(* wait is over in the end, whatever other packets come.                   *)
MailboxFairSpec ==
  /\ MailboxSpec
  /\ WF_mbVars(RadioStep)
  /\ WF_mbVars(LoopStep)
  /\ SF_mbVars(LoopAwaits("timed_out") \/ LoopAwaits("replied"))

-----------------------------------------------------------------------------
(* Type correctness of the mailbox.                                        *)
MailboxTypeOK ==
  /\ status \in Bytes
  /\ mail \in 0 .. QMax
  /\ pc \in [Threads -> RadioPcs \cup LoopPcs]
  /\ pc.radio \in RadioPcs /\ pc.loop \in LoopPcs
  /\ reg \in [Threads -> Bytes \cup {NotLoaded}]
  /\ asked \in BOOLEAN /\ misled \in BOOLEAN
  /\ undone \subseteq Fields

(* The loop calls recvfrom without a datagram to read, where it is deaf to *)
(* replies and commands, only if it has once read a recv_wsa that a store  *)
(* of the radio's thread had brought back.                                 *)
MailboxReadFinds == pc.loop = "take" /\ mail = 0 => misled

(* A wait for a reply of nobody, whose timeout would write behind          *)
(* reg_sub_list, and a spin of the automatic mode that finds a reply       *)
(* awaited, only follow a store of the radio's thread that has changed     *)
(* waiting_regreply since the loop last assigned it.                       *)
MailboxWaitHasTarget ==
  \/ pc.loop \in {"await", "timed_out"} /\ ~asked
  \/ pc.loop = "spin" /\ Set("waiting_regreply")
  => "waiting_regreply" \in undone

(* The timeout of a wait marks the agent that was asked, an element of     *)
(* reg_sub_list ("reg_sub_list[16]", v2x_handover_obu.h:106), and nothing  *)
(* behind it.                                                              *)
MailboxMarksAsked == pc.loop = "timed_out" => asked

(* The radio's thread is at rest, and the loop is where nobody frees it:   *)
(* in recvfrom with the mailbox closed and empty, or in the spin.          *)
Caught ==
  /\ pc.radio = "idle"
  /\ \/ pc.loop = "take" /\ mail = 0 /\ ~Set("waiting_wsa")
     \/ pc.loop = "spin" /\ Set("waiting_regreply")

(* The loop comes round again and again, whatever a store undoes, unless   *)
(* it is caught for ever: no wait for a reply stops it.                    *)
MailboxLoopTurns == []<>(pc.loop = "top") \/ <>[]Caught

(* The loop reads advertisements again and again, although raises of       *)
(* recv_wsa get lost and their datagrams stay, until so many have stayed   *)
(* that the socket is full; from then on it is deaf.                       *)
MailboxKeepsReading ==
  \/ []<>(pc.loop = "lower")
  \/ <>[](mail = QMax /\ ~Set("recv_wsa"))
  \/ <>[]Caught

(* Even when a store has undone another, so that the loop is caught in     *)
(* recvfrom, the next advertisement frees it, if the mailbox is open.      *)
MailboxOpenFrees ==
  (pc.loop = "take" /\ pc.radio = "idle" /\ Set("waiting_wsa"))
    ~> pc.loop = "lower"

=============================================================================
