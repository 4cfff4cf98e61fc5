------------------------- MODULE RelayServer_proofs -------------------------
(***************************************************************************)
(* The relay server for any clients, sizes of the table, the queue and the *)
(* timer, and any number of messages: its types, its table, the cause of   *)
(* a thread that is stuck, and the order of the answers.                   *)
(***************************************************************************)
EXTENDS RelayServer, FiniteSetTheorems, SequenceTheorems, TLAPS

SlotType == [client: Clients \cup {Nobody}, life: 0 .. SocketTimer,
             seq: 0 .. MaxMessages]

(* A sequence number has not been counted further than the datagrams.      *)
SeqsCounted == \A i \in Slots : slot[i].seq <= pushed

(* Outside of its loop the thread has a message, and no other number than  *)
(* that of a datagram is in use.                                           *)
HandHeld ==
  /\ jobPc # "loop" => hand \in Messages
  /\ hand.id <= pushed
  /\ \A n \in 1 .. Len(queue) : queue[n].id <= pushed

TypeInv == RelayTypeOK /\ SeqsCounted /\ HandHeld

(* What the server and the tick do.                                        *)
SlotTyped == slot' \in [Slots -> SlotType] /\ SeqsCounted'
ServerTyped ==
  /\ SlotTyped
  /\ num' \in Nat /\ serverPc' \in 0 .. MaxClientSize
  /\ pushed' \in 0 .. MaxMessages /\ queue' \in Seq(Messages)
  /\ zero' \in {"stdin", "free", "job"} /\ strayed' \in 0 .. 2

Flags ==
  /\ curlUsed \in BOOLEAN /\ onZero \in BOOLEAN /\ netFailed \in BOOLEAN

(* The messages of the queue, one by one.                                  *)
LEMMA InQueue ==
  ASSUME queue \in Seq(Messages), NEW n \in 1 .. Len(queue)
  PROVE  queue[n] \in Messages /\ queue[n].id \in Nat
<1>1. queue[n] \in Messages
  BY ElementOfSeq
<1> QED
  BY <1>1 DEF Messages

LEMMA TypeInvInit == RelayInit => TypeInv
<1> SUFFICES ASSUME RelayInit PROVE TypeInv
  OBVIOUS
<1>1. slot \in [Slots -> SlotType] /\ SeqsCounted
  BY RelaySizesAssumption
  DEF RelayInit, SlotType, SeqsCounted, Free, Slots
<1>2. /\ num \in Nat /\ firstNum \in FirstCounts
      /\ serverPc \in 0 .. MaxClientSize /\ pushed \in 0 .. MaxMessages
      /\ dataIs \in Nat /\ flushIs \in Nat /\ strayed \in 0 .. 2
  BY RelaySizesAssumption, FirstCountsAssumption DEF RelayInit
<1>3. /\ queue \in Seq(Messages)
      /\ answers \in Seq([client: Clients, id: 1 .. MaxMessages])
  BY DEF RelayInit
<1>4. /\ jobPc \in JobPcs /\ hand \in Messages \cup {NoMessage}
      /\ zero \in {"stdin", "free", "job"}
  BY DEF RelayInit, JobPcs
<1>5. Flags
  BY DEF RelayInit, Flags
<1>6. HandHeld
  BY DEF RelayInit, HandHeld, NoMessage
<1> QED
  BY <1>1, <1>2, <1>3, <1>4, <1>5, <1>6
  DEF TypeInv, RelayTypeOK, SlotType, Flags

(* The server thread and the tick.                                         *)
LEMMA ServerTypes ==
  ASSUME TypeInv, ServerStep \/ ServerHears \/ Tick
  PROVE  TypeInv'
<1> USE RelaySizesAssumption, FirstCountsAssumption, NobodyAssumption
    DEF TypeInv, RelayTypeOK
<1>1. ServerTyped
  <2> USE DEF ServerTyped, SlotTyped, SlotType, SeqsCounted, Slots
  <2>1. CASE ServerPasses
    BY <2>1 DEF ServerPasses
  <2>2. CASE ServerKeeps
    BY <2>2 DEF ServerKeeps, NextSlot
  <2>3. CASE ServerExpires
    <3>1. serverPc \in Slots
      BY <2>3 DEF ServerExpires
    <3> QED
      BY <2>3, <3>1 DEF ServerExpires, NextSlot, Free, Strayed
  <2>4. ASSUME NEW c \in Clients, NEW i \in Slots, ServerRegisters(c, i)
        PROVE  ServerTyped
    BY <2>4 DEF ServerRegisters
  <2>5. ASSUME NEW c \in Clients, NEW i \in Slots, NEW kind \in Kinds,
               ServerQueues(c, i, kind)
        PROVE  ServerTyped
    <3> DEFINE m == [id |-> pushed + 1, client |-> c,
                     form |-> Framed(kind, slot[i].seq + 1),
                     job |-> "initial"]
    <3>1. pushed' = pushed + 1 /\ pushed' \in 0 .. MaxMessages
      BY <2>5 DEF ServerQueues
    <3>2. m \in Messages
      BY <3>1 DEF Messages, Framed, Kinds, Forms, Jobs
    <3>3. queue' \in Seq(Messages)
      BY <2>5, <3>2 DEF ServerQueues
    <3>4. SlotTyped
      <4>1. slot' = [slot EXCEPT ![i] = Refreshed(slot[i])]
        BY <2>5 DEF ServerQueues
      <4>2. slot[i] \in SlotType /\ slot[i].seq <= pushed
        OBVIOUS
      <4>3. Refreshed(slot[i]) = [client |-> slot[i].client,
                                  life |-> SocketTimer,
                                  seq |-> slot[i].seq + 1]
        BY DEF Refreshed
      <4>4. slot[i].seq + 1 \in 0 .. MaxMessages
        <5>1. slot[i].seq \in Nat /\ pushed \in Nat /\ pushed < MaxMessages
          BY <2>5, <4>2 DEF ServerQueues
        <5> QED
          BY <4>2, <5>1
      <4>5. Refreshed(slot[i]) \in SlotType
        <5>1. slot[i].client \in Clients \cup {Nobody}
          BY <4>2
        <5>2. SocketTimer \in 0 .. SocketTimer
          OBVIOUS
        <5> QED
          BY <4>3, <4>4, <5>1, <5>2
      <4>6. \A j \in Slots : slot'[j].seq <= pushed'
        <5>1. ASSUME NEW j \in Slots, j # i PROVE slot'[j].seq <= pushed'
          <6>1. slot'[j] = slot[j] /\ slot[j] \in SlotType
                /\ slot[j].seq <= pushed
            BY <4>1, <5>1
          <6> QED
            BY <3>1, <6>1
        <5>2. slot'[i] = Refreshed(slot[i])
          BY <4>1
        <5>3. slot'[i].seq <= pushed'
          BY <3>1, <4>2, <4>3, <5>2
        <5> QED
          BY <5>1, <5>3
      <4> QED
        BY <4>1, <4>5, <4>6
    <3> QED
      BY <2>5, <3>1, <3>3, <3>4 DEF ServerQueues
  <2>6. CASE Tick
    <3>1. ASSUME NEW i \in Slots
          PROVE  slot'[i] \in SlotType /\ slot'[i].seq = slot[i].seq
      <4> DEFINE left == IF slot[i].life > 0 THEN slot[i].life - 1 ELSE 0
      <4>1. slot[i] \in SlotType
        OBVIOUS
      <4>2. slot'[i] = [slot[i] EXCEPT !.life = left]
        BY <2>6 DEF Tick
      <4>3. left \in 0 .. SocketTimer
        BY <4>1
      <4>4. slot'[i] = [client |-> slot[i].client, life |-> left,
                        seq |-> slot[i].seq]
        BY <4>1, <4>2
      <4> HIDE DEF left
      <4> QED
        BY <4>1, <4>3, <4>4
    <3>2. slot' \in [Slots -> SlotType]
      BY <2>6, <3>1 DEF Tick
    <3>3. SlotTyped
      BY <2>6, <3>1, <3>2 DEF Tick
    <3> QED
      BY <2>6, <3>3 DEF Tick
  <2> QED
    BY <2>1, <2>2, <2>3, <2>4, <2>5, <2>6 DEF ServerStep, ServerHears
<1>2. UNCHANGED jobVars /\ UNCHANGED firstNum
  BY DEF ServerStep, ServerHears, ServerPasses, ServerKeeps, ServerExpires,
         ServerRegisters, ServerQueues, Tick
<1>3. HandHeld'
  <2>1. CASE UNCHANGED <<queue, pushed>>
    BY <1>2, <2>1 DEF HandHeld, jobVars
  <2>2. ASSUME NEW c \in Clients, NEW i \in Slots, NEW kind \in Kinds,
               ServerQueues(c, i, kind)
        PROVE  HandHeld'
    <3> DEFINE m == [id |-> pushed + 1, client |-> c,
                     form |-> Framed(kind, slot[i].seq + 1),
                     job |-> "initial"]
    <3>1. /\ pushed' = pushed + 1
          /\ queue' = queue \/ queue' = Append(queue, m)
      BY <2>2 DEF ServerQueues
    <3>2. m.id = pushed + 1
      OBVIOUS
    <3>3. hand.id \in Nat /\ \A n \in 1 .. Len(queue) : queue[n].id \in Nat
      <4>1. hand.id \in Nat
        BY DEF Messages, NoMessage
      <4> QED
        BY <4>1, InQueue
    <3> HIDE DEF m
    <3>4. \A n \in 1 .. Len(queue') : queue'[n].id <= pushed'
      <4>1. ASSUME NEW n \in 1 .. Len(queue), queue'[n] = queue[n]
            PROVE  queue'[n].id <= pushed'
        <5>1. queue[n].id \in Nat /\ queue[n].id <= pushed
          BY <3>3 DEF HandHeld
        <5> QED
          BY <3>1, <4>1, <5>1
      <4>2. CASE queue' = queue
        BY <4>1, <4>2
      <4>3. CASE queue' = Append(queue, m)
        <5>1. /\ Len(queue') = Len(queue) + 1
              /\ queue'[Len(queue) + 1] = m
              /\ \A n \in 1 .. Len(queue) : queue'[n] = queue[n]
          BY <4>3
        <5> QED
          BY <3>1, <3>2, <4>1, <5>1
      <4> QED
        BY <3>1, <4>2, <4>3
    <3> QED
      BY <1>2, <3>1, <3>3, <3>4 DEF HandHeld, jobVars
  <2> QED
    BY <2>1, <2>2
    DEF ServerStep, ServerHears, ServerPasses, ServerKeeps, ServerExpires,
        ServerRegisters, Tick
<1> QED
  BY <1>1, <1>2, <1>3 DEF jobVars, ServerTyped, SlotTyped, SlotType

(* The message that is popped is one of the queue.                         *)
LEMMA Popped ==
  ASSUME TypeInv, Len(queue) > 0
  PROVE  /\ Head(queue) \in Messages /\ Head(queue) = queue[1]
         /\ Tail(queue) \in Seq(Messages)
         /\ Len(Tail(queue)) = Len(queue) - 1
         /\ \A n \in 1 .. Len(queue) - 1 : Tail(queue)[n] = queue[n + 1]
BY DEF TypeInv, RelayTypeOK

(* Flushing takes messages off the front.                                  *)
LEMMA Flushed ==
  ASSUME TypeInv, Len(queue) > 0
  PROVE  /\ Rest(queue) \in Seq(Messages)
         /\ \/ Len(Rest(queue)) = 0
            \/ /\ Len(Rest(queue)) = Len(queue) - 2
               /\ \A n \in 1 .. Len(queue) - 2 :
                    Rest(queue)[n] = queue[n + 2]
<1> DEFINE tail == Tail(queue)
<1>1. /\ tail \in Seq(Messages) /\ Len(tail) = Len(queue) - 1
      /\ \A n \in 1 .. Len(queue) - 1 : tail[n] = queue[n + 1]
  BY Popped
<1>2. CASE Len(queue) > 1
  <2>1. Rest(queue) = Tail(tail) /\ Len(tail) > 0
    BY <1>1, <1>2 DEF Rest
  <2> HIDE DEF tail
  <2>2. /\ Tail(tail) \in Seq(Messages) /\ Len(Tail(tail)) = Len(tail) - 1
        /\ \A n \in 1 .. Len(tail) - 1 : Tail(tail)[n] = tail[n + 1]
    BY <1>1, <2>1
  <2>3. ASSUME NEW n \in 1 .. Len(queue) - 2
        PROVE  Rest(queue)[n] = queue[n + 2]
    <3>1. n \in 1 .. Len(tail) - 1 /\ n + 1 \in 1 .. Len(queue) - 1
      BY <1>1
    <3>2. tail[n + 1] = queue[(n + 1) + 1] /\ (n + 1) + 1 = n + 2
      BY <1>1, <3>1
    <3> QED
      BY <2>1, <2>2, <3>1, <3>2
  <2>4. Len(Rest(queue)) = Len(queue) - 2
    BY <1>1, <2>1, <2>2
  <2> QED
    BY <2>1, <2>2, <2>3, <2>4
<1>3. CASE ~(Len(queue) > 1)
  BY <1>3 DEF Rest
<1> QED
  BY <1>2, <1>3

(* A message that goes back into the queue is the one at hand.             *)
LEMMA PushedBack ==
  ASSUME TypeInv, JobPushes
  PROVE  /\ hand \in Messages
         /\ queue' = queue \/ queue' = Append(queue, hand)
BY DEF TypeInv, RelayTypeOK, HandHeld, JobPushes

LEMMA NextPcsTyped ==
  ASSUME NEW m \in Messages
  PROVE  NextPcs(m) \subseteq {"flush", "push", "request", "response"}
BY DEF NextPcs, Messages, Jobs

(* What the job thread does to the message at hand.                        *)
LEMMA HandTypes ==
  ASSUME TypeInv, JobStep
  PROVE  /\ jobPc' \in JobPcs /\ hand' \in Messages \cup {NoMessage}
         /\ jobPc' # "loop" => hand' \in Messages
         /\ hand'.id <= pushed
<1> USE DEF TypeInv, RelayTypeOK, HandHeld
<1>1. CASE JobTakes
  <2> DEFINE m == Head(queue)
  <2>1. m \in Messages /\ m.id <= pushed
    <3>1. Len(queue) \in Nat /\ Len(queue) > 0
      BY <1>1 DEF JobTakes
    <3>2. m = queue[1] /\ m \in Messages /\ 1 \in 1 .. Len(queue)
      BY <3>1, Popped
    <3> QED
      BY <3>2
  <2>2. jobPc' \in {"flush", "push", "request", "response"}
    BY <1>1, <2>1, NextPcsTyped DEF JobTakes
  <2>3. hand' = m \/ hand' = [m EXCEPT !.job = "report"]
    BY <1>1 DEF JobTakes
  <2>4. [m EXCEPT !.job = "report"] \in Messages
    BY <2>1 DEF Messages, Jobs
  <2>5. [m EXCEPT !.job = "report"].id = m.id
    BY <2>1 DEF Messages
  <2> HIDE DEF m
  <2> QED
    BY <2>1, <2>2, <2>3, <2>4, <2>5 DEF JobPcs
<1>2. CASE JobForgets \/ JobRestarts
  BY <1>2 DEF JobForgets, JobRestarts
<1>3. CASE JobPushes \/ JobRequestFails \/ JobFinishes
  BY <1>3 DEF JobPushes, JobRequestFails, JobFinishes, Done, JobPcs, NoMessage
<1>4. CASE JobConnects \/ JobResumes \/ JobFlushes
  BY <1>4 DEF JobConnects, JobResumes, JobFlushes, JobPcs
<1>5. CASE JobRequests
  <2>1. hand \in Messages
    BY <1>5 DEF JobRequests
  <2>2. hand' \in Messages /\ hand'.id = hand.id
    BY <1>5, <2>1 DEF JobRequests, Messages, Jobs, Forms
  <2> QED
    BY <1>5, <2>2 DEF JobRequests, JobPcs
<1>6. CASE JobDownloads
  <2>1. hand \in Messages
    BY <1>6 DEF JobDownloads
  <2>2. hand' \in Messages /\ hand'.id = hand.id
    BY <1>6, <2>1 DEF JobDownloads, Messages, Forms
  <2> QED
    BY <1>6, <2>2 DEF JobDownloads, JobPcs
<1>7. CASE JobDownloadFails \/ JobSends \/ JobSendFails
  BY <1>7 DEF JobDownloadFails, JobSends, JobSendFails, JobPcs
<1> QED
  BY <1>1, <1>2, <1>3, <1>4, <1>5, <1>6, <1>7 DEF JobStep

(* What it does to the queue.                                              *)
LEMMA QueueTypes ==
  ASSUME TypeInv, JobStep
  PROVE  /\ queue' \in Seq(Messages)
         /\ \A n \in 1 .. Len(queue') : queue'[n].id <= pushed
<1> USE DEF TypeInv, RelayTypeOK, HandHeld
<1>1. CASE JobTakes \/ JobForgets
  <2>1. queue' = Tail(queue) /\ Len(queue) > 0
    BY <1>1 DEF JobTakes, JobForgets
  <2>2. /\ Tail(queue) \in Seq(Messages)
        /\ Len(Tail(queue)) = Len(queue) - 1
        /\ \A n \in 1 .. Len(queue) - 1 : Tail(queue)[n] = queue[n + 1]
    BY <2>1, Popped
  <2>3. ASSUME NEW n \in 1 .. Len(queue) - 1
        PROVE  Tail(queue)[n].id <= pushed
    <3>1. n + 1 \in 1 .. Len(queue) /\ Tail(queue)[n] = queue[n + 1]
      BY <2>2
    <3> QED
      BY <3>1
  <2> QED
    BY <2>1, <2>2, <2>3
<1>2. CASE JobPushes
  <2>1. CASE queue' = queue
    BY <2>1
  <2>2. CASE queue' = Append(queue, hand)
    <3>1. hand \in Messages
      BY <1>2, PushedBack
    <3>2. /\ queue' \in Seq(Messages) /\ Len(queue') = Len(queue) + 1
          /\ queue'[Len(queue) + 1] = hand
          /\ \A n \in 1 .. Len(queue) : queue'[n] = queue[n]
      BY <2>2, <3>1
    <3>3. hand.id <= pushed /\ Len(queue) \in Nat
      BY LenProperties
    <3>4. \A n \in 1 .. Len(queue') :
            n \in 1 .. Len(queue) \/ n = Len(queue) + 1
      BY <3>2, <3>3
    <3>5. \A n \in 1 .. Len(queue) : queue[n].id <= pushed
      OBVIOUS
    <3> HIDE DEF TypeInv, RelayTypeOK, HandHeld
    <3> QED
      BY <3>2, <3>3, <3>4, <3>5
  <2> QED
    BY <1>2, <2>1, <2>2, PushedBack
<1>3. CASE JobFlushes
  <2>1. queue' = Rest(queue) /\ Len(queue) > 0
    BY <1>3 DEF JobFlushes
  <2>2. /\ Rest(queue) \in Seq(Messages)
        /\ \/ Len(Rest(queue)) = 0
           \/ /\ Len(Rest(queue)) = Len(queue) - 2
              /\ \A n \in 1 .. Len(queue) - 2 : Rest(queue)[n] = queue[n + 2]
    BY <2>1, Flushed
  <2>3. ASSUME NEW n \in 1 .. Len(Rest(queue))
        PROVE  Rest(queue)[n].id <= pushed
    <3>1. n + 2 \in 1 .. Len(queue) /\ Rest(queue)[n] = queue[n + 2]
      BY <2>2
    <3> QED
      BY <3>1
  <2> QED
    BY <2>1, <2>2, <2>3
<1>4. CASE UNCHANGED queue
  BY <1>4
<1> QED
  BY <1>1, <1>2, <1>3, <1>4
  DEF JobStep, JobRestarts, JobConnects, JobRequests, JobRequestFails,
      JobDownloads, JobDownloadFails, JobResumes, JobSends, JobSendFails,
      JobFinishes

LEMMA AnswersTyped ==
  ASSUME TypeInv, JobStep
  PROVE  answers' \in Seq([client: Clients, id: 1 .. MaxMessages])
<1> USE DEF TypeInv, RelayTypeOK, HandHeld
<1>1. CASE JobSends
  <2>1. hand \in Messages
    BY <1>1 DEF JobSends
  <2> DEFINE Answers == [client: Clients, id: 1 .. MaxMessages]
  <2>2. Answer(hand) \in Answers
    <3>1. hand.client \in Clients /\ hand.id \in 1 .. MaxMessages
      BY <2>1 DEF Messages
    <3> QED
      BY <3>1 DEF Answer
  <2>3. answers' = answers \/ answers' = Append(answers, Answer(hand))
    BY <1>1 DEF JobSends
  <2>4. answers \in Seq(Answers)
    OBVIOUS
  <2> HIDE DEF Answers
  <2>5. Append(answers, Answer(hand)) \in Seq(Answers)
    BY <2>2, <2>4, AppendProperties, Zenon
  <2>6. answers' \in Seq(Answers)
    BY <2>3, <2>4, <2>5
  <2> QED
    BY <2>6 DEF Answers
<1>2. CASE UNCHANGED answers
  BY <1>2
<1> QED
  BY <1>1, <1>2
  DEF JobStep, JobTakes, JobForgets, JobRestarts, JobPushes, JobConnects,
      JobRequests, JobRequestFails, JobDownloads, JobDownloadFails,
      JobResumes, JobSendFails, JobFlushes, JobFinishes

(* The job thread.                                                         *)
LEMMA JobTypes ==
  ASSUME TypeInv, JobStep
  PROVE  TypeInv'
<1> USE DEF TypeInv, RelayTypeOK
<1>2. UNCHANGED <<slot, num, serverPc, pushed, firstNum>>
  BY DEF JobStep, JobTakes, JobForgets, JobRestarts, JobPushes, JobConnects,
         JobRequests, JobRequestFails, JobDownloads, JobDownloadFails,
         JobResumes, JobSends, JobSendFails, JobFlushes, JobFinishes
<1>3. SeqsCounted'
  BY <1>2 DEF SeqsCounted
<1>4. zero' \in {"stdin", "free", "job"} /\ strayed' \in 0 .. 2
  BY DEF JobStep, JobTakes, JobForgets, JobRestarts, JobPushes, JobConnects,
         JobRequests, JobRequestFails, JobDownloads, JobDownloadFails,
         JobResumes, JobSends, JobSendFails, JobFlushes, JobFinishes,
         Opens, Closes, Strayed
<1>5. Flags'
  <2>1. curlUsed' \in BOOLEAN /\ netFailed' \in BOOLEAN
    BY DEF JobStep, JobTakes, JobForgets, JobRestarts, JobPushes, JobConnects,
           JobRequests, JobRequestFails, JobDownloads, JobDownloadFails,
           JobResumes, JobSends, JobSendFails, JobFlushes, JobFinishes
  <2>2. onZero' \in BOOLEAN
    BY DEF JobStep, JobTakes, JobForgets, JobRestarts, JobPushes, JobConnects,
           JobRequests, JobRequestFails, JobDownloads, JobDownloadFails,
           JobResumes, JobSends, JobSendFails, JobFlushes, JobFinishes,
           Opens, Closes
  <2> QED
    BY <2>1, <2>2 DEF Flags
<1>6. dataIs' \in Nat /\ flushIs' \in Nat
  BY DEF JobStep, JobTakes, JobForgets, JobRestarts, JobPushes, JobConnects,
         JobRequests, JobRequestFails, JobDownloads, JobDownloadFails,
         JobResumes, JobSends, JobSendFails, JobFlushes, JobFinishes, Done
<1> QED
  BY <1>2, <1>3, <1>4, <1>5, <1>6, HandTypes, QueueTypes, AnswersTyped
  DEF HandHeld, Flags

(* The state keeps its types, for all values of the constants.             *)
THEOREM RelayTypeInvariant == RelaySpec => []TypeInv
<1>1. TypeInv /\ UNCHANGED relayVars => TypeInv'
  BY DEF TypeInv, RelayTypeOK, SeqsCounted, HandHeld, relayVars
<1>2. TypeInv /\ [RelayNext]_relayVars => TypeInv'
  BY <1>1, ServerTypes, JobTypes DEF RelayNext
<1> QED
  BY <1>2, TypeInvInit, PTL DEF RelaySpec

THEOREM RelayTypeCorrect == RelaySpec => []RelayTypeOK
<1>1. TypeInv => RelayTypeOK
  BY DEF TypeInv
<1> QED
  BY <1>1, RelayTypeInvariant, PTL

-----------------------------------------------------------------------------
(***************************************************************************)
(* Who is stuck, and why: descriptor 0 belongs to the standard input until *)
(* the first stray close, to the job thread only while it has a socket     *)
(* open; the flag stays set only behind a download that failed.            *)
(***************************************************************************)
StuckInv ==
  /\ zero # "stdin" => strayed >= 1
  /\ onZero => /\ zero # "stdin"
               /\ jobPc \in {"requesting", "downloading", "sending"}
  /\ zero = "job" => onZero
  /\ Hit => strayed >= 2
  /\ jobPc = "resending" => strayed >= 2
  /\ curlUsed => \/ jobPc \in {"requesting", "downloading"}
                 \/ netFailed \/ strayed >= 2

LEMMA StuckInvKept ==
  ASSUME TypeInv, StuckInv, [RelayNext]_relayVars
  PROVE  StuckInv'
<1> USE DEF StuckInv, Hit
<1>1. strayed \in 0 .. 2 /\ zero \in {"stdin", "free", "job"}
      /\ jobPc \in JobPcs
  BY DEF TypeInv, RelayTypeOK
<1>2. CASE UNCHANGED relayVars
  BY <1>2 DEF relayVars
<1>3. CASE ServerExpires
  BY <1>1, <1>3 DEF ServerExpires, Strayed, jobVars
<1>4. CASE ServerPasses \/ ServerKeeps \/ ServerHears \/ Tick
  <2>1. UNCHANGED <<jobVars, zero, strayed>>
    BY <1>4 DEF ServerPasses, ServerKeeps, ServerHears, ServerRegisters,
                ServerQueues, Tick
  <2> QED
    BY <2>1 DEF jobVars
<1>5. CASE JobTakes
  <2>1. Head(queue) \in Messages
    BY <1>5, Popped DEF JobTakes, TypeInv, RelayTypeOK
  <2>2. jobPc' \in {"flush", "push", "request", "response"}
    BY <1>5, <2>1, NextPcsTyped DEF JobTakes
  <2> QED
    BY <1>5, <2>2 DEF JobTakes
<1>6. CASE JobForgets \/ JobRestarts \/ JobPushes \/ JobFlushes \/ JobFinishes
  BY <1>6 DEF JobForgets, JobRestarts, JobPushes, JobFlushes, JobFinishes, Done
<1>7. CASE JobConnects
  BY <1>1, <1>7 DEF JobConnects, Opens
<1>8. CASE JobRequests
  BY <1>1, <1>8 DEF JobRequests, Closes
<1>9. CASE JobRequestFails
  BY <1>1, <1>9 DEF JobRequestFails, Closes, Done, Strayed
<1>10. CASE JobDownloads
  BY <1>1, <1>10 DEF JobDownloads, Closes
<1>11. CASE JobDownloadFails
  BY <1>1, <1>11 DEF JobDownloadFails, Closes
<1>12. CASE JobResumes
  BY <1>1, <1>12 DEF JobResumes, Opens
<1>13. CASE JobSends
  BY <1>1, <1>13 DEF JobSends, Closes
<1>14. CASE JobSendFails
  BY <1>1, <1>14 DEF JobSendFails, Closes
<1> QED
  BY <1>2, <1>3, <1>4, <1>5, <1>6, <1>7, <1>8, <1>9, <1>10, <1>11, <1>12,
     <1>13, <1>14
  DEF RelayNext, ServerStep, JobStep

(* The job thread is never stuck unless a download has failed or somebody  *)
(* else's descriptor was closed twice, for any number of clients.          *)
THEOREM RelayStuckAlwaysCaused == RelaySpec => []RelayStuckCause
<1>1. RelayInit => StuckInv
  BY DEF RelayInit, StuckInv, Hit
<1>2. StuckInv => RelayStuckCause
  BY DEF StuckInv, RelayStuckCause, Stuck
<1> QED
  BY <1>1, <1>2, StuckInvKept, RelayTypeInvariant, PTL DEF RelaySpec

-----------------------------------------------------------------------------
(* A free slot has no life left, so that it is never older than a copy.    *)
CopiesInv ==
  /\ RelayOlderCopyDies
  /\ \A i \in Slots : slot[i].client = Nobody => slot[i].life = 0

(* A slot's new contents are those of the first slot for its client.       *)
LEMMA FirstHeard ==
  ASSUME TypeInv, CopiesInv, NEW c \in Clients, NEW k \in Slots,
         FirstFor(c, k), NEW s,
         s.client = c, s.life = SocketTimer, slot' = [slot EXCEPT ![k] = s]
  PROVE  CopiesInv'
<1> USE DEF CopiesInv, RelayOlderCopyDies, TypeInv, RelayTypeOK
<1>1. /\ Slots \subseteq Nat /\ SocketTimer \in Nat
      /\ \A i \in Slots : slot[i].life \in 0 .. SocketTimer
  BY RelaySizesAssumption DEF Slots
<1>2. slot'[k] = s /\ \A i \in Slots : i # k => slot'[i] = slot[i]
  OBVIOUS
<1>3. ASSUME NEW i \in Slots, NEW j \in Slots, i < j,
             slot'[i].client = slot'[j].client
      PROVE  slot'[j].life <= slot'[i].life
  <2>1. CASE i = k
    BY <1>1, <1>2, <1>3, <2>1
  <2>2. CASE j = k
    <3>1. slot[i].client = c
      BY <1>1, <1>2, <1>3, <2>2
    <3>2. slot[i].client \notin {Nobody, c}
      BY <1>3, <2>2 DEF FirstFor
    <3> QED
      BY <3>1, <3>2
  <2>3. CASE i # k /\ j # k
    BY <1>2, <1>3, <2>3
  <2> QED
    BY <2>1, <2>2, <2>3
<1>4. \A i \in Slots : slot'[i].client = Nobody => slot'[i].life = 0
  BY <1>2, NobodyAssumption
<1> QED
  BY <1>3, <1>4

LEMMA CopiesInvKept ==
  ASSUME TypeInv, CopiesInv, [RelayNext]_relayVars
  PROVE  CopiesInv'
<1>1. CASE UNCHANGED slot
  BY <1>1 DEF CopiesInv, RelayOlderCopyDies
<1>2. ASSUME NEW c \in Clients, NEW k \in Slots, ServerRegisters(c, k)
      PROVE  CopiesInv'
  <2> DEFINE s == [client |-> c, life |-> SocketTimer, seq |-> 0]
  <2>1. s.client = c /\ s.life = SocketTimer
    OBVIOUS
  <2>2. FirstFor(c, k) /\ slot' = [slot EXCEPT ![k] = s]
    BY <1>2 DEF ServerRegisters
  <2> HIDE DEF s
  <2> QED
    BY <2>1, <2>2, FirstHeard
<1>3. ASSUME NEW c \in Clients, NEW k \in Slots, NEW kind \in Kinds,
             ServerQueues(c, k, kind)
      PROVE  CopiesInv'
  <2>1. FirstFor(c, k) /\ slot' = [slot EXCEPT ![k] = Refreshed(slot[k])]
    BY <1>3 DEF ServerQueues
  <2>2. /\ Refreshed(slot[k]).client = c
        /\ Refreshed(slot[k]).life = SocketTimer
    BY <1>3 DEF ServerQueues, Refreshed
  <2> QED
    BY <2>1, <2>2, FirstHeard
<1>4. CASE ServerExpires
  <2> USE DEF CopiesInv, RelayOlderCopyDies, TypeInv, RelayTypeOK
  <2>1. serverPc \in Slots /\ slot[serverPc].life = 0
    BY <1>4 DEF ServerExpires, Expires, Slots
  <2>2. /\ slot'[serverPc].client = Nobody /\ slot'[serverPc].life = 0
        /\ \A i \in Slots : i # serverPc => slot'[i] = slot[i]
    BY <1>4, <2>1 DEF ServerExpires, Free
  <2>3. \A i \in Slots : slot'[i].client = Nobody => slot'[i].life = 0
    BY <2>2
  <2>4. \A i \in Slots : slot[i].life \in Nat
    OBVIOUS
  <2> QED
    BY <2>1, <2>2, <2>3, <2>4
<1>5. CASE Tick
  <2> USE DEF CopiesInv, RelayOlderCopyDies, TypeInv, RelayTypeOK
  <2>1. ASSUME NEW i \in Slots
        PROVE  /\ slot'[i].client = slot[i].client
               /\ slot'[i].life = IF slot[i].life > 0 THEN slot[i].life - 1
                                                      ELSE 0
               /\ slot[i].life \in Nat
    BY <1>5 DEF Tick
  <2> QED
    BY <2>1
<1> QED
  BY <1>1, <1>2, <1>3, <1>4, <1>5
  DEF relayVars, RelayNext, ServerStep, ServerPasses, ServerKeeps, ServerHears,
      JobStep, JobTakes, JobForgets, JobRestarts, JobPushes, JobConnects,
      JobRequests, JobRequestFails, JobDownloads, JobDownloadFails,
      JobResumes, JobSends, JobSendFails, JobFlushes, JobFinishes

(* Of two slots of one client the later one never outlives the earlier.    *)
THEOREM RelayOlderCopyAlwaysDies == RelaySpec => []RelayOlderCopyDies
<1>1. RelayInit => CopiesInv
  BY DEF RelayInit, CopiesInv, RelayOlderCopyDies, Free
<1>2. CopiesInv => RelayOlderCopyDies
  BY DEF CopiesInv
<1> QED
  BY <1>1, <1>2, CopiesInvKept, RelayTypeInvariant, PTL DEF RelaySpec

-----------------------------------------------------------------------------
Used == {i \in Slots : slot[i].client # Nobody}

LEMMA UsedCounted ==
  /\ IsFiniteSet(Used) /\ Cardinality(Used) \in Nat
  /\ Used # {} => Cardinality(Used) > 0
<1>1. IsFiniteSet(Slots)
  BY RelaySizesAssumption, FS_Interval DEF Slots
<1>2. IsFiniteSet(Used)
  BY <1>1, FS_Subset DEF Used
<1>3. Cardinality(Used) \in Nat
  BY <1>2, FS_CardinalityType
<1>4. Used # {} => Cardinality(Used) # 0
  BY <1>2, FS_EmptySet
<1> QED
  BY <1>2, <1>3, <1>4

LEMMA CountKept ==
  ASSUME TypeInv, RelaySlotsCounted, [RelayNext]_relayVars
  PROVE  RelaySlotsCounted'
<1> USE DEF TypeInv, RelayTypeOK
<1>1. num = firstNum + Cardinality(Used) /\ firstNum \in Nat
  BY FirstCountsAssumption DEF RelaySlotsCounted, Used
<1>2. SUFFICES num' = firstNum' + Cardinality(Used')
  BY DEF RelaySlotsCounted, Used
<1>3. CASE UNCHANGED <<slot, num, firstNum>>
  BY <1>1, <1>3 DEF Used
<1>4. ASSUME NEW c \in Clients, NEW k \in Slots, ServerRegisters(c, k)
      PROVE  num' = firstNum' + Cardinality(Used')
  <2>1. k \notin Used
    BY <1>4 DEF ServerRegisters, Used
  <2>2. Used' = Used \cup {k}
    BY <1>4, NobodyAssumption DEF ServerRegisters, Used
  <2>3. Cardinality(Used') = Cardinality(Used) + 1
    BY <2>1, <2>2, UsedCounted, FS_AddElement
  <2> QED
    BY <1>1, <1>4, <2>3, UsedCounted DEF ServerRegisters
<1>5. ASSUME NEW c \in Clients, NEW k \in Slots, NEW kind \in Kinds,
             ServerQueues(c, k, kind)
      PROVE  num' = firstNum' + Cardinality(Used')
  <2>1. slot' = [slot EXCEPT ![k] = Refreshed(slot[k])]
        /\ Refreshed(slot[k]).client = slot[k].client
    BY <1>5 DEF ServerQueues, Refreshed
  <2>2. Used' = Used
    BY <2>1 DEF Used
  <2> QED
    BY <1>1, <1>5, <2>2 DEF ServerQueues
<1>6. CASE ServerExpires
  <2>1. serverPc \in Used
    BY <1>6 DEF ServerExpires, Expires, Used, Slots
  <2>2. Used' = Used \ {serverPc}
    BY <1>6, <2>1 DEF ServerExpires, Used, Free
  <2>3. Cardinality(Used') = Cardinality(Used) - 1
    BY <2>1, <2>2, UsedCounted, FS_RemoveElement
  <2>4. Cardinality(Used) > 0
    BY <2>1, UsedCounted
  <2>5. num' = num - 1 /\ firstNum' = firstNum
    BY <1>1, <1>6, <2>4, UsedCounted DEF ServerExpires
  <2> QED
    BY <1>1, <2>3, <2>5, UsedCounted
<1>7. CASE Tick
  <2>1. \A i \in Slots : slot'[i].client = slot[i].client
    BY <1>7 DEF Tick
  <2>2. Used' = Used
    BY <2>1 DEF Used
  <2> QED
    BY <1>1, <1>7, <2>2 DEF Tick
<1> QED
  BY <1>3, <1>4, <1>5, <1>6, <1>7
  DEF relayVars, RelayNext, ServerStep, ServerPasses, ServerKeeps, ServerHears,
      JobStep, JobTakes, JobForgets, JobRestarts, JobPushes, JobConnects,
      JobRequests, JobRequestFails, JobDownloads, JobDownloadFails,
      JobResumes, JobSends, JobSendFails, JobFlushes, JobFinishes

(* The counter of clients never drifts from the table, whatever malloc     *)
(* left in it and however clients come, expire and come back.              *)
THEOREM RelaySlotsAlwaysCounted == RelaySpec => []RelaySlotsCounted
<1>1. RelayInit => RelaySlotsCounted
  <2> SUFFICES ASSUME RelayInit PROVE RelaySlotsCounted
    OBVIOUS
  <2>1. Used = {}
    BY DEF RelayInit, Free, Used
  <2>2. Cardinality(Used) = 0
    BY <2>1, FS_EmptySet
  <2>3. num = firstNum + Cardinality(Used)
    BY <2>2, FirstCountsAssumption DEF RelayInit
  <2> QED
    BY <2>3, Zenon DEF RelaySlotsCounted, Used
<1> QED
  BY <1>1, CountKept, RelayTypeInvariant, PTL DEF RelaySpec
=============================================================================
