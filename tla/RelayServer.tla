---------------------------- MODULE RelayServer ----------------------------
(***************************************************************************)
(* The OTA relay server: the thread that receives the datagrams of the     *)
(* clients (ECUs) and keeps the table of them, the thread that works on    *)
(* the queued messages, and the tick that ages the table.  The queue is    *)
(* the only way from the first to the second; a message passes it once per *)
(* step of its job:  initial -> report -> response -> gone.                *)
(*                                                                         *)
(* Life_Timer[i] is modelled by the ticks that are left of it.             *)
(* socket_job_state and client_data_info are written and read by nothing,  *)
(* and left out.  MemoryQueue is the queue at the scale of its bytes.      *)
(***************************************************************************)
EXTENDS Naturals, Sequences, FiniteSets

CONSTANTS
  Clients,         \* the addresses of the clients
  Nobody,          \* the 0 of a free slot
  MaxClientSize,   \* MAX_CLIENT_SIZE
  SocketTimer,     \* SOCKET_TIMER
  QueueRoom,       \* messages that the memory of the queue holds
  SeqLimit,        \* the last number that %02X prints with two digits
  SeqDigits,       \* the values of a digit of it
  FirstCounts,     \* what malloc may leave in connected_client_num
  NetMayFail,      \* a transfer may fail
  MaxMessages      \* bound: datagrams that are queued

ASSUME NobodyAssumption == Nobody \notin Clients
ASSUME RelaySizesAssumption ==
  /\ MaxClientSize \in Nat \ {0} /\ SocketTimer \in Nat \ {0}
  /\ QueueRoom \in Nat \ {0} /\ SeqLimit \in Nat /\ SeqDigits \in Nat \ {0}
  /\ MaxMessages \in Nat
ASSUME FirstCountsAssumption == FirstCounts \subseteq Nat
ASSUME NetMayFailAssumption == NetMayFail \in BOOLEAN

Slots == 1 .. MaxClientSize

(***************************************************************************)
(* What a client sends: a complete report of its firmware or program, a    *)
(* report of the wrong length, or something else.  A message whose number  *)
(* is too long for the header gets a wrong length, or a huge one.          *)
(***************************************************************************)
Kinds == {"firmware", "program", "cut", "alien"}
Forms == Kinds \cup {"huge", "image", "empty"}
Jobs == {"initial", "report", "response"}

Messages ==
  [id: 1 .. MaxMessages, client: Clients, form: Forms, job: Jobs]
NoMessage == [id |-> 0]

JobPcs == {"loop", "push", "request", "response", "requesting",
           "downloading", "keypress", "pause", "sending", "resending",
           "flush"}

VARIABLES
  slot,        \* socket, Life_Timer, socket_message_seq of each slot
  num,         \* connected_client_num
  serverPc,    \* the slot that the expiry loop looks at next, 0 in recvfrom
  queue,       \* G_Data_Info
  pushed,      \* history: datagrams queued so far, the next one's number
  jobPc,       \* where the job thread is
  hand,        \* the message it has popped
  dataIs,      \* the counter of its loop over the queue
  flushIs,     \* the counter of the flushing loop
  curlUsed,    \* g_curl_isused
  zero,        \* what descriptor 0 is: "stdin", "free" or "job"
  onZero,      \* the job thread's socket was given descriptor 0
  answers,     \* history: the images sent, in order
  strayed,     \* history: times that descriptor 0 was closed, while open, by a
               \* thread it did not belong to, counted up to 2
  netFailed,   \* history: the network made a download fail
  firstNum     \* history: what connected_client_num was at first

serverVars == <<slot, num, serverPc, strayed>>
jobVars == <<jobPc, hand, dataIs, flushIs, curlUsed, onZero, answers,
             netFailed>>
relayVars ==
  <<slot, num, serverPc, queue, pushed, jobPc, hand, dataIs, flushIs,
    curlUsed, zero, onZero, answers, strayed, netFailed, firstNum>>

Free == [client |-> Nobody, life |-> 0, seq |-> 0]

RelayInit ==
  /\ slot = [i \in Slots |-> Free]
  /\ num \in FirstCounts /\ firstNum = num
  /\ serverPc = 0
  /\ queue = <<>> /\ pushed = 0
  /\ jobPc = "loop" /\ hand = NoMessage /\ dataIs = 0 /\ flushIs = 0
  /\ curlUsed = FALSE /\ zero = "stdin" /\ onZero = FALSE
  /\ answers = <<>> /\ strayed = 0 /\ netFailed = FALSE

-----------------------------------------------------------------------------
(***************************************************************************)
(* The server thread: one datagram or none in 250 ms, then the expiry loop *)
(* over all slots, and again.                                              *)
(***************************************************************************)

\* Fault: the scan for the slot starts at the end of the table.
FirstFor_Last(c, i) ==
  /\ slot[i].client \in {Nobody, c}
  /\ \A j \in Slots : j > i => slot[j].client \notin {Nobody, c}

(* The scan ends at the first slot that is free or the client's own.       *)
FirstFor(c, i) ==
  /\ slot[i].client \in {Nobody, c}
  /\ \A j \in Slots : j < i => slot[j].client \notin {Nobody, c}

(* %02X prints three digits from 256 on: the third one and the first seven *)
(* of the length are then read as the length.                              *)
Framed(kind, seq) ==
  IF kind = "alien" \/ seq <= SeqLimit THEN kind
  ELSE IF seq % SeqDigits = 0 THEN "cut" ELSE "huge"

HasRoom == Len(queue) < QueueRoom

\* Fault: "continue" after the message that the table is full.
ServerPasses_Full ==
  /\ serverPc = 0
  /\ serverPc' = IF num = MaxClientSize THEN 0 ELSE 1
  /\ UNCHANGED <<slot, num, queue, pushed, zero, strayed, firstNum>>
  /\ UNCHANGED jobVars

(* Nothing is received, or the table is full: then nothing is looked at,   *)
(* whoever sent it.                                                        *)
ServerPasses ==
  /\ serverPc = 0
  /\ serverPc' = 1
  /\ UNCHANGED <<slot, num, queue, pushed, zero, strayed, firstNum>>
  /\ UNCHANGED jobVars

(* The datagram itself is not queued.                                      *)
ServerRegisters(c, i) ==
  /\ serverPc = 0 /\ num # MaxClientSize
  /\ FirstFor(c, i) /\ slot[i].client = Nobody
  /\ slot' = [slot EXCEPT ![i] =
                [client |-> c, life |-> SocketTimer, seq |-> 0]]
  /\ num' = num + 1
  /\ serverPc' = 1
  /\ UNCHANGED <<queue, pushed, zero, strayed, firstNum>>
  /\ UNCHANGED jobVars

Refreshed(s) ==
  [client |-> s.client, life |-> SocketTimer, seq |-> s.seq + 1]

(* A full queue refuses the message; the caller takes every size_t result  *)
(* for success.                                                            *)
ServerQueues(c, i, kind) ==
  /\ serverPc = 0 /\ num # MaxClientSize
  /\ FirstFor(c, i) /\ slot[i].client = c
  /\ pushed < MaxMessages
  /\ slot' = [slot EXCEPT ![i] = Refreshed(@)]
  /\ pushed' = pushed + 1
  /\ queue' = IF HasRoom
              THEN Append(queue, [id |-> pushed + 1, client |-> c,
                                  form |-> Framed(kind, slot[i].seq + 1),
                                  job |-> "initial"])
              ELSE queue
  /\ serverPc' = 1
  /\ UNCHANGED <<num, zero, strayed, firstNum>>
  /\ UNCHANGED jobVars

Expires(i) == slot[i].client # Nobody /\ slot[i].life = 0

\* Fault: the loop runs to MAX_CLIENT_SIZE inclusive.
NextSlot_Beyond(i) == IF i > MaxClientSize THEN 0 ELSE i + 1

NextSlot(i) == IF i = MaxClientSize THEN 0 ELSE i + 1

ServerKeeps ==
  /\ serverPc # 0 /\ ~Expires(serverPc)
  /\ serverPc' = NextSlot(serverPc)
  /\ UNCHANGED <<slot, num, queue, pushed, zero, strayed, firstNum>>
  /\ UNCHANGED jobVars

Strayed ==
  IF zero # "free" /\ strayed < 2 THEN strayed + 1 ELSE strayed

\* Fault: the counter is not decremented with the slot.
ServerExpires_Uncounted ==
  /\ serverPc # 0 /\ Expires(serverPc)
  /\ slot' = [slot EXCEPT ![serverPc] = Free]
  /\ zero' = "free"
  /\ strayed' = Strayed
  /\ serverPc' = NextSlot(serverPc)
  /\ UNCHANGED <<num, queue, pushed, firstNum>>
  /\ UNCHANGED jobVars

(* The slot is cleared before close is called with what it holds: it is    *)
(* descriptor 0 that is closed.                                            *)
ServerExpires ==
  /\ serverPc # 0 /\ Expires(serverPc)
  /\ slot' = [slot EXCEPT ![serverPc] = Free]
  /\ num' = IF num > 0 THEN num - 1 ELSE num
  /\ zero' = "free"
  /\ strayed' = Strayed
  /\ serverPc' = NextSlot(serverPc)
  /\ UNCHANGED <<queue, pushed, firstNum>>
  /\ UNCHANGED jobVars

ServerStep == ServerPasses \/ ServerKeeps \/ ServerExpires

(* 100 ms pass.                                                            *)
Tick ==
  /\ slot' = [i \in Slots |->
                [slot[i] EXCEPT !.life = IF @ > 0 THEN @ - 1 ELSE 0]]
  /\ UNCHANGED <<num, serverPc, queue, pushed, zero, strayed, firstNum>>
  /\ UNCHANGED jobVars

-----------------------------------------------------------------------------
(***************************************************************************)
(* The job thread.  After each tick of its timer it pops messages while    *)
(* its counter is below the length of the queue, which shrinks meanwhile.  *)
(***************************************************************************)
Known(c) == num > 0 /\ \E i \in Slots : slot[i].client = c

(* Where the job of a popped message takes the thread.  The byte behind a  *)
(* program report, which the push back cut off, decides about it.          *)
NextPcs(m) ==
  CASE m.job = "initial" -> {IF m.form = "alien" THEN "flush" ELSE "push"}
    [] m.job = "report" ->
         CASE m.form = "firmware" -> {"request"}
           [] m.form = "program" -> {"request", "flush"}
           [] OTHER -> {"flush"}
    [] m.job = "response" -> {"response"}

JobTakes ==
  /\ jobPc = "loop" /\ dataIs < Len(queue)
  /\ LET m == Head(queue) IN
       /\ Known(m.client)
       /\ jobPc' \in NextPcs(m)
       /\ hand' = IF jobPc' = "push" THEN [m EXCEPT !.job = "report"] ELSE m
  /\ queue' = Tail(queue)
  /\ UNCHANGED <<slot, num, serverPc, pushed, dataIs, flushIs, curlUsed,
                 zero, onZero, answers, strayed, netFailed, firstNum>>

(* A message of a client that is not in the table is dropped.              *)
JobForgets ==
  /\ jobPc = "loop" /\ dataIs < Len(queue)
  /\ ~Known(Head(queue).client)
  /\ queue' = Tail(queue) /\ dataIs' = dataIs + 1
  /\ UNCHANGED <<slot, num, serverPc, pushed, jobPc, hand, flushIs,
                 curlUsed, zero, onZero, answers, strayed, netFailed,
                 firstNum>>

\* Fault: the counter of the loop starts at 1.
JobRestarts_One ==
  /\ jobPc = "loop" /\ dataIs >= Len(queue) /\ dataIs # 0
  /\ dataIs' = 1
  /\ UNCHANGED <<slot, num, serverPc, queue, pushed, jobPc, hand, flushIs,
                 curlUsed, zero, onZero, answers, strayed, netFailed,
                 firstNum>>

(* The loop has ended and the timer fires again.                           *)
JobRestarts ==
  /\ jobPc = "loop" /\ dataIs >= Len(queue) /\ dataIs # 0
  /\ dataIs' = 0
  /\ UNCHANGED <<slot, num, serverPc, queue, pushed, jobPc, hand, flushIs,
                 curlUsed, zero, onZero, answers, strayed, netFailed,
                 firstNum>>

(* The message at hand is done with.                                       *)
Done == jobPc' = "loop" /\ hand' = NoMessage /\ dataIs' = dataIs + 1

(* A message of a huge length, or one more than fits, is refused and lost. *)
JobPushes ==
  /\ jobPc = "push" /\ Done
  /\ queue' = IF hand.form # "huge" /\ HasRoom
              THEN Append(queue, hand) ELSE queue
  /\ UNCHANGED <<slot, num, serverPc, pushed, flushIs, curlUsed, zero,
                 onZero, answers, strayed, netFailed, firstNum>>

(* A socket is opened: the lowest free descriptor is given to it.          *)
Opens ==
  /\ onZero' = (zero = "free")
  /\ zero' = IF zero = "free" THEN "job" ELSE zero

(* It is closed, if it has not been closed by the server thread before.    *)
Closes ==
  /\ onZero' = FALSE
  /\ zero' = IF zero = "job" THEN "free" ELSE zero

(* The server thread has closed it.                                        *)
Hit == onZero /\ zero # "job"

(* As long as g_curl_isused is set, the thread waits here.                 *)
JobConnects ==
  /\ jobPc \in {"request", "response"} /\ ~curlUsed
  /\ jobPc' = IF jobPc = "request" THEN "requesting" ELSE "downloading"
  /\ curlUsed' = TRUE
  /\ Opens
  /\ UNCHANGED <<slot, num, serverPc, queue, pushed, hand, dataIs, flushIs,
                 answers, strayed, netFailed, firstNum>>

(* The version check answered with an address to download from.            *)
JobRequests ==
  /\ jobPc = "requesting"
  /\ jobPc' = "push" /\ hand' = [hand EXCEPT !.job = "response",
                                            !.form = "image"]
  /\ curlUsed' = FALSE
  /\ Closes
  /\ UNCHANGED <<slot, num, serverPc, queue, pushed, dataIs, flushIs,
                 answers, strayed, netFailed, firstNum>>

\* Fault: the flag is not reset on the way out.
JobRequestFails_Flag ==
  /\ jobPc = "requesting"
  /\ Done
  /\ Closes
  /\ UNCHANGED <<slot, num, serverPc, queue, pushed, flushIs, curlUsed,
                 answers, strayed, netFailed, firstNum>>

(* It had no address, failed, or its answer was empty: the message is      *)
(* dropped.  A connection that fails leaves sockfd unset, and close(sockfd)*)
(* closes whatever it holds.                                               *)
JobRequestFails ==
  /\ jobPc = "requesting"
  /\ Done
  /\ curlUsed' = FALSE
  /\ \/ Closes /\ UNCHANGED strayed
     \/ /\ NetMayFail /\ zero = "stdin"
        /\ onZero' = FALSE /\ zero' = "free" /\ strayed' = Strayed
  /\ UNCHANGED <<slot, num, serverPc, queue, pushed, flushIs, answers,
                 netFailed, firstNum>>

(* The download has come to its end.  "Press Any Key" is asked on the      *)
(* standard input: without one it takes five seconds.                      *)
JobDownloads ==
  /\ jobPc = "downloading"
  /\ \E form \in {"image", "empty"} : hand' = [hand EXCEPT !.form = form]
  /\ curlUsed' = FALSE
  /\ Closes
  /\ jobPc' = IF zero = "stdin" THEN "keypress" ELSE "pause"
  /\ UNCHANGED <<slot, num, serverPc, queue, pushed, dataIs, flushIs,
                 answers, strayed, netFailed, firstNum>>

(* It failed: the function returns without resetting g_curl_isused.        *)
JobDownloadFails ==
  /\ jobPc = "downloading" /\ (NetMayFail \/ Hit)
  /\ jobPc' = "flush"
  /\ netFailed' = (netFailed \/ ~Hit)
  /\ Closes
  /\ UNCHANGED <<slot, num, serverPc, queue, pushed, hand, dataIs, flushIs,
                 curlUsed, answers, strayed, firstNum>>

(* Environment: the operator presses the key, or the five seconds are over.*)
JobResumes ==
  /\ jobPc \in {"keypress", "pause"}
  /\ jobPc' = "sending"
  /\ Opens
  /\ UNCHANGED <<slot, num, serverPc, queue, pushed, hand, dataIs, flushIs,
                 curlUsed, answers, strayed, netFailed, firstNum>>

Answer(m) == [client |-> m.client, id |-> m.id]

\* Fault: the indication that was sent is pushed back like other jobs.
JobSends_Again ==
  /\ jobPc = "sending"
  /\ jobPc' = "push"
  /\ answers' = IF hand.form = "image" THEN Append(answers, Answer(hand))
                ELSE answers
  /\ Closes
  /\ UNCHANGED <<slot, num, serverPc, queue, pushed, hand, dataIs, flushIs,
                 curlUsed, strayed, netFailed, firstNum>>

(* The image is sent piece by piece.                                       *)
JobSends ==
  /\ jobPc = "sending"
  /\ jobPc' = "flush"
  /\ answers' = IF hand.form = "image" THEN Append(answers, Answer(hand))
                ELSE answers
  /\ Closes
  /\ UNCHANGED <<slot, num, serverPc, queue, pushed, hand, dataIs, flushIs,
                 curlUsed, strayed, netFailed, firstNum>>

(* A piece cannot be sent: the last one is given up, any other one is sent *)
(* again until it can be, which a closed socket never can.                 *)
JobSendFails ==
  /\ jobPc = "sending" /\ (NetMayFail \/ Hit)
  /\ \/ jobPc' = "flush"
     \/ Hit /\ hand.form = "image" /\ jobPc' = "resending"
  /\ Closes
  /\ UNCHANGED <<slot, num, serverPc, queue, pushed, hand, dataIs, flushIs,
                 curlUsed, answers, strayed, netFailed, firstNum>>

(***************************************************************************)
(* A message is at its end, one way or the other: the queue is flushed, up *)
(* to two messages a round, while the counter is below its length.  The    *)
(* second is to be pushed back if it is another client's; the address of   *)
(* its length is passed for the length, and the push refuses it.           *)
(***************************************************************************)
Rest(q) == IF Len(q) > 1 THEN Tail(Tail(q)) ELSE <<>>

JobFlushes ==
  /\ jobPc = "flush" /\ flushIs < Len(queue)
  /\ queue' = Rest(queue) /\ flushIs' = flushIs + 1
  /\ UNCHANGED <<slot, num, serverPc, pushed, jobPc, hand, dataIs, curlUsed,
                 zero, onZero, answers, strayed, netFailed, firstNum>>

JobFinishes ==
  /\ jobPc = "flush" /\ flushIs >= Len(queue)
  /\ Done /\ flushIs' = 0
  /\ UNCHANGED <<slot, num, serverPc, queue, pushed, curlUsed, zero, onZero,
                 answers, strayed, netFailed, firstNum>>

JobStep ==
  \/ JobTakes \/ JobForgets \/ JobRestarts \/ JobPushes
  \/ JobConnects \/ JobRequests \/ JobRequestFails
  \/ JobDownloads \/ JobDownloadFails \/ JobResumes
  \/ JobSends \/ JobSendFails \/ JobFlushes \/ JobFinishes

ServerHears == \E c \in Clients, i \in Slots :
                 \/ ServerRegisters(c, i)
                 \/ \E kind \in Kinds : ServerQueues(c, i, kind)

RelayNext == ServerStep \/ ServerHears \/ Tick \/ JobStep

RelaySpec == RelayInit /\ [][RelayNext]_relayVars

(* The timers fire, both threads are scheduled, and the operator presses   *)
(* the key; nobody has to send anything.                                   *)
RelayFairSpec ==
  /\ RelaySpec
  /\ WF_relayVars(ServerStep) /\ WF_relayVars(Tick) /\ WF_relayVars(JobStep)

-----------------------------------------------------------------------------
RelayTypeOK ==
  /\ slot \in [Slots -> [client: Clients \cup {Nobody},
                         life: 0 .. SocketTimer, seq: 0 .. MaxMessages]]
  /\ num \in Nat /\ firstNum \in FirstCounts
  /\ serverPc \in 0 .. MaxClientSize
  /\ queue \in Seq(Messages) /\ pushed \in 0 .. MaxMessages
  /\ jobPc \in JobPcs /\ hand \in Messages \cup {NoMessage}
  /\ dataIs \in Nat /\ flushIs \in Nat
  /\ curlUsed \in BOOLEAN /\ onZero \in BOOLEAN /\ netFailed \in BOOLEAN
  /\ zero \in {"stdin", "free", "job"} /\ strayed \in 0 .. 2
  /\ answers \in Seq([client: Clients, id: 1 .. MaxMessages])

(* connected_client_num, which the threads use for "full" and "empty", is  *)
(* what malloc left in it and the used slots of the table: neither two     *)
(* slots of one client nor expiries in between make it drift.              *)
RelaySlotsCounted ==
  num = firstNum + Cardinality({i \in Slots : slot[i].client # Nobody})

(* A client that comes back after an earlier slot became free has two.  It *)
(* is always the earlier one that is heard, so the later copy never        *)
(* outlives it: no client loses the slot it is heard in to its stale copy. *)
RelayOlderCopyDies ==
  \A i, j \in Slots :
    i < j /\ slot[i].client = slot[j].client => slot[j].life <= slot[i].life

Stuck ==
  \/ jobPc \in {"request", "response"} /\ curlUsed
  \/ jobPc = "resending"

(* The job thread waits for ever, for a flag that nobody will reset or for *)
(* a closed socket to send, only after the network has made a download     *)
(* fail or a second client has been thrown out (the first one cost the     *)
(* standard input, the second one the socket that had taken its place).    *)
RelayStuckCause == Stuck => netFailed \/ strayed >= 2

(* Each message passes the queue three times among those of others, and    *)
(* may be lost at any of them; still the answers go out in the order in    *)
(* which the messages came in, and at most one to each.                    *)
RelayAnswersInOrder ==
  \A a, b \in 1 .. Len(answers) : a < b => answers[a].id < answers[b].id

-----------------------------------------------------------------------------
(* The job thread works on the message it holds; otherwise what it holds   *)
(* is nothing, or done with.                                               *)
Busy == jobPc \notin {"loop", "flush"}

Queued == {Answer(queue[n]) : n \in 1 .. Len(queue)}
InWork == IF Busy THEN {Answer(hand)} ELSE {}

Line == INSTANCE AnswerLine
          WITH last <- pushed, waiting <- Queued \cup InWork,
               answered <- answers

(* The queue and the message at hand are one line: a request that was lost *)
(* never shows up again, none is there twice, and an answer goes to the    *)
(* client that asked, when no older request is left.                       *)
RelayImplementsLine == Line!Spec

-----------------------------------------------------------------------------
Pending(k) ==
  hand.id = k \/ \E n \in 1 .. Len(queue) : queue[n].id = k

(* A queued message is gone in the end, answered or lost, unless the       *)
(* thread got stuck: messages do not circle in the queue for ever, and the *)
(* counter of the loop does not run away from the length of the queue.     *)
RelayDrains ==
  \A k \in 1 .. MaxMessages : Pending(k) ~> (~Pending(k) \/ Stuck)

(* A full table throws clients out although they are still sending: no one *)
(* is heard while it is full, so it does not stay full.                    *)
RelayFullEmpties ==
  (num = MaxClientSize /\ firstNum < MaxClientSize) ~> num # MaxClientSize

(* "Flushing Received Data by Client[%s]" (librelayserver.c:687): what is  *)
(* flushed at the end of a message is what its client sent.                *)
RelayFlushesOwn ==
  [][jobPc = "flush" => \A n \in 1 .. Len(queue) :
       queue[n].client = hand.client
         \/ \E k \in 1 .. Len(queue') : queue'[k].id = queue[n].id]_relayVars
=============================================================================
