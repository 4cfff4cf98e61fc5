----------------------------- MODULE AnswerLine -----------------------------
(***************************************************************************)
(* What the relay server promises, as one line of numbered requests: a     *)
(* request may be refused at the door, any number of those in the line may *)
(* be lost at any time, none comes back, and who is answered is the oldest *)
(* of those that are left, once.  RelayServer implements it with a queue   *)
(* that each message passes three times.                                   *)
(***************************************************************************)
EXTENDS Naturals, Sequences

CONSTANTS Clients

VARIABLES
  last,       \* the number of the last request
  waiting,    \* the requests in the line, whoever works on them
  answered    \* the requests that were answered, in order

lineVars == <<last, waiting, answered>>

Init == last = 0 /\ waiting = {} /\ answered = <<>>

Enters(c) ==
  /\ last' = last + 1
  /\ \/ waiting' = waiting \cup {[client |-> c, id |-> last + 1]}
     \/ waiting' = waiting
  /\ UNCHANGED answered

Loses == waiting' \subseteq waiting /\ UNCHANGED <<last, answered>>

Oldest(m) == \A w \in waiting : m.id <= w.id

Answers(m) ==
  /\ m \in waiting /\ Oldest(m)
  /\ waiting' = waiting \ {m}
  /\ answered' = Append(answered, m)
  /\ UNCHANGED last

Next ==
  \/ Loses
  \/ \E c \in Clients : Enters(c)
  \/ \E m \in waiting : Answers(m)

Spec == Init /\ [][Next]_lineVars
=============================================================================
