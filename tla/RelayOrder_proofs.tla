------------------------- MODULE RelayOrder_proofs -------------------------
(***************************************************************************)
(* The relay server answers in the order of the messages.  A message is    *)
(* pushed back twice on its way, so the queue is not sorted: what holds is *)
(* that of two messages the older one is further in its job, by the stages *)
(* that the younger one still has before it, or next to be so.             *)
(***************************************************************************)
EXTENDS RelayServer_proofs

Stage(m) == IF m.job = "initial" THEN 0
            ELSE IF m.job = "report" THEN 1 ELSE 2

(* x is in front of y.  An older message has come as far as y, or further; *)
(* a younger one is behind in its job, for it is pushed back behind y.     *)
Before(x, y) ==
  \/ x.id < y.id /\ Stage(y) <= Stage(x)
  \/ y.id < x.id /\ Stage(x) < Stage(y)

QueueOrdered ==
  \A n, k \in 1 .. Len(queue) : n < k => Before(queue[n], queue[k])

(* The message at hand goes behind the queue when it is to be pushed, and  *)
(* was in front of it otherwise.                                           *)
HandOrdered ==
  \A n \in 1 .. Len(queue) :
    /\ jobPc = "push" => Before(queue[n], hand)
    /\ Busy /\ jobPc # "push" => Before(hand, queue[n])

HandJob ==
  /\ jobPc = "push" => hand.job # "initial"
  /\ jobPc \in {"request", "requesting"} => hand.job = "report"
  /\ Busy /\ jobPc \notin {"push", "request", "requesting"}
       => hand.job = "response"

(* What was answered is older than all there is.                           *)
Answered ==
  \A a \in 1 .. Len(answers) :
    /\ answers[a].id <= pushed
    /\ Busy => answers[a].id < hand.id
    /\ \A n \in 1 .. Len(queue) : answers[a].id < queue[n].id

OrderInv ==
  /\ QueueOrdered /\ HandOrdered /\ HandJob /\ Answered
  /\ RelayAnswersInOrder

LEMMA Numbers ==
  ASSUME TypeInv
  PROVE  /\ pushed \in Nat /\ hand.id \in Nat /\ Len(queue) \in Nat
         /\ Len(answers) \in Nat
         /\ \A n \in 1 .. Len(queue) : queue[n] \in Messages
                                       /\ queue[n].id \in Nat
         /\ \A a \in 1 .. Len(answers) : answers[a].id \in Nat
<1> USE DEF TypeInv, RelayTypeOK
<1>1. pushed \in Nat /\ Len(queue) \in Nat /\ Len(answers) \in Nat
  BY RelaySizesAssumption
<1>2. hand.id \in Nat
  BY DEF Messages, NoMessage
<1>3. ASSUME NEW a \in 1 .. Len(answers) PROVE answers[a].id \in Nat
  <2>1. answers[a] \in [client: Clients, id: 1 .. MaxMessages]
    BY ElementOfSeq
  <2> QED
    BY <2>1
<1> QED
  BY <1>1, <1>2, <1>3, InQueue

LEMMA Stages == \A m : Stage(m) \in 0 .. 2
BY DEF Stage

(* A message that is pushed back one stage further belongs behind all that *)
(* it was in front of.                                                     *)
LEMMA StageUp ==
  ASSUME NEW x, NEW y, NEW z, x.id \in Nat, y.id \in Nat,
         Before(x, y), z.id = x.id, Stage(z) = Stage(x) + 1
  PROVE  Before(y, z)
BY Stages DEF Before

(* Nothing is done to the order by taking d messages off the front.        *)
LEMMA ShiftOrdered ==
  ASSUME TypeInv, QueueOrdered, NEW d \in Nat, queue' \in Seq(Messages),
         \/ Len(queue') = 0
         \/ /\ Len(queue') = Len(queue) - d
            /\ \A n \in 1 .. Len(queue) - d : queue'[n] = queue[n + d]
  PROVE  /\ QueueOrdered'
         /\ \A n \in 1 .. Len(queue') :
              n + d \in 1 .. Len(queue) /\ queue'[n] = queue[n + d]
<1>1. Len(queue) \in Nat
  BY Numbers
<1>2. \A n \in 1 .. Len(queue') :
        n + d \in 1 .. Len(queue) /\ queue'[n] = queue[n + d]
  BY <1>1
<1>3. ASSUME NEW n \in 1 .. Len(queue'), NEW k \in 1 .. Len(queue'), n < k
      PROVE  Before(queue'[n], queue'[k])
  <2>1. /\ queue'[n] = queue[n + d] /\ queue'[k] = queue[k + d]
        /\ n + d \in 1 .. Len(queue) /\ k + d \in 1 .. Len(queue)
    BY <1>2
  <2>2. n + d < k + d
    BY <1>3
  <2> QED
    BY <2>1, <2>2 DEF QueueOrdered
<1> QED
  BY <1>2, <1>3 DEF QueueOrdered, Before, Stage

LEMMA AppendOrdered ==
  ASSUME TypeInv, QueueOrdered, NEW m \in Messages,
         \A n \in 1 .. Len(queue) : Before(queue[n], m),
         queue' = Append(queue, m)
  PROVE  /\ QueueOrdered'
         /\ Len(queue') = Len(queue) + 1
         /\ queue'[Len(queue) + 1] = m
         /\ \A n \in 1 .. Len(queue) : queue'[n] = queue[n]
<1>1. /\ Len(queue') = Len(queue) + 1
      /\ queue'[Len(queue) + 1] = m
      /\ \A n \in 1 .. Len(queue) : queue'[n] = queue[n]
  BY DEF TypeInv, RelayTypeOK
<1>2. ASSUME NEW n \in 1 .. Len(queue'), NEW k \in 1 .. Len(queue'), n < k
      PROVE  Before(queue'[n], queue'[k])
  <2>0. Len(queue) \in Nat
    BY Numbers
  <2>1. CASE k = Len(queue) + 1
    <3>1. n \in 1 .. Len(queue) /\ queue'[n] = queue[n] /\ queue'[k] = m
      BY <1>1, <1>2, <2>0, <2>1
    <3> QED
      BY <3>1
  <2>2. CASE k # Len(queue) + 1
    <3>1. n \in 1 .. Len(queue) /\ k \in 1 .. Len(queue)
      BY <1>1, <1>2, <2>0, <2>2
    <3>2. queue'[n] = queue[n] /\ queue'[k] = queue[k]
      BY <1>1, <3>1
    <3> QED
      BY <1>2, <3>1, <3>2 DEF QueueOrdered
  <2> QED
    BY <2>1, <2>2
<1> QED
  BY <1>1, <1>2 DEF QueueOrdered, Before, Stage

(* A new datagram is younger than all, and at its first stage.             *)
LEMMA QueuesOrdered ==
  ASSUME TypeInv, OrderInv, NEW c \in Clients, NEW i \in Slots,
         NEW kind \in Kinds, ServerQueues(c, i, kind), TypeInv'
  PROVE  OrderInv'
<1> USE DEF OrderInv
<1> DEFINE m == [id |-> pushed + 1, client |-> c,
                 form |-> Framed(kind, slot[i].seq + 1), job |-> "initial"]
<1>1. /\ pushed' = pushed + 1
      /\ queue' = queue \/ queue' = Append(queue, m)
      /\ UNCHANGED <<jobPc, hand, answers>>
  BY DEF ServerQueues, jobVars
<1>2. m \in Messages
  <2>1. pushed' \in 0 .. MaxMessages /\ pushed \in Nat
    BY Numbers DEF TypeInv, RelayTypeOK
  <2> QED
    BY <1>1, <2>1 DEF Messages, Framed, Kinds, Forms, Jobs
<1>3. m.id = pushed + 1 /\ Stage(m) = 0
  BY DEF Stage
<1> HIDE DEF m
<1>4. Answered' /\ HandOrdered' /\ QueueOrdered'
  <2>1. ASSUME NEW a \in 1 .. Len(answers), NEW n \in 1 .. Len(queue)
        PROVE  /\ answers[a].id <= pushed'
               /\ Busy' => answers[a].id < hand.id
               /\ answers[a].id < m.id
    BY <1>1, <1>3, Numbers DEF Answered, Busy
  <2>2. CASE queue' = queue
    BY <1>1, <2>1, <2>2, Numbers
    DEF QueueOrdered, HandOrdered, Answered, Busy, Before, Stage
  <2>3. CASE queue' = Append(queue, m)
    <3>1. /\ hand.id < m.id
          /\ \A n \in 1 .. Len(queue) : queue[n].id < m.id
          /\ \A a \in 1 .. Len(answers) : answers[a].id < m.id
      BY <1>3, Numbers DEF TypeInv, HandHeld, Answered
    <3>2. \A n \in 1 .. Len(queue) : Before(queue[n], m)
      BY <1>3, <3>1, Stages DEF Before
    <3>3. /\ QueueOrdered' /\ Len(queue') = Len(queue) + 1
          /\ queue'[Len(queue) + 1] = m
          /\ \A n \in 1 .. Len(queue) : queue'[n] = queue[n]
      BY <1>2, <2>3, <3>2, AppendOrdered
    <3>4. /\ Before(hand, m)
          /\ jobPc = "push" => Before(m, hand)
      <4>1. jobPc = "push" => Stage(hand) > 0
        BY DEF HandJob, Stage
      <4> QED
        BY <1>3, <3>1, <4>1, Stages DEF Before
    <3>5. ASSUME NEW n \in 1 .. Len(queue')
          PROVE  \/ queue'[n] = m
                 \/ n \in 1 .. Len(queue) /\ queue'[n] = queue[n]
      BY <3>3, Numbers
    <3>6. ASSUME NEW n \in 1 .. Len(queue')
          PROVE  /\ jobPc = "push" => Before(queue'[n], hand)
                 /\ Busy /\ jobPc # "push" => Before(hand, queue'[n])
      BY <3>4, <3>5 DEF HandOrdered
    <3>7. HandOrdered'
      BY <1>1, <3>6 DEF HandOrdered, Busy, Before, Stage
    <3>8. ASSUME NEW a \in 1 .. Len(answers)
          PROVE  /\ answers[a].id <= pushed'
                 /\ Busy => answers[a].id < hand.id
                 /\ \A n \in 1 .. Len(queue') :
                      answers[a].id < queue'[n].id
      <4>1. /\ answers[a].id \in Nat /\ answers[a].id <= pushed
            /\ Busy => answers[a].id < hand.id
        BY Numbers DEF Answered
      <4>2. ASSUME NEW n \in 1 .. Len(queue')
            PROVE  answers[a].id < queue'[n].id
        BY <3>1, <3>5 DEF Answered
      <4> QED
        BY <1>1, <4>1, <4>2, Numbers
    <3>9. Answered'
      BY <1>1, <3>8 DEF Answered, Busy
    <3> QED
      BY <3>3, <3>7, <3>9
  <2> QED
    BY <1>1, <2>2, <2>3
<1>5. HandJob' /\ RelayAnswersInOrder'
  BY <1>1 DEF HandJob, Busy, RelayAnswersInOrder
<1> QED
  BY <1>4, <1>5

(* The message that is popped was in front of all others, and unanswered.  *)
LEMMA TakesOrdered ==
  ASSUME TypeInv, OrderInv, JobTakes, TypeInv'
  PROVE  OrderInv'
<1> USE DEF OrderInv
<1> DEFINE m == Head(queue)
<1>1. /\ Len(queue) \in Nat /\ Len(queue) > 0 /\ queue' = Tail(queue)
      /\ UNCHANGED <<pushed, answers>>
      /\ hand' = IF jobPc' = "push" THEN [m EXCEPT !.job = "report"] ELSE m
      /\ jobPc' \in NextPcs(m)
  BY Numbers DEF JobTakes, TypeInv, RelayTypeOK
<1>2. /\ m = queue[1] /\ m \in Messages /\ 1 \in 1 .. Len(queue)
      /\ Tail(queue) \in Seq(Messages) /\ Len(Tail(queue)) = Len(queue) - 1
      /\ \A n \in 1 .. Len(queue) - 1 : Tail(queue)[n] = queue[n + 1]
  BY <1>1, Popped
<1>3. hand'.id = m.id /\ hand'.id \in Nat /\ m.id \in Nat
  BY <1>1, <1>2, Numbers DEF Messages
<1>4. /\ jobPc' = "push" => hand'.job = "report" /\ m.job = "initial"
      /\ jobPc' = "request" => hand'.job = "report"
      /\ jobPc' = "response" => hand'.job = "response"
      /\ jobPc' # "push" => hand' = m
      /\ jobPc' \in {"flush", "push", "request", "response"}
  BY <1>1, <1>2 DEF NextPcs, Messages, Jobs
<1> HIDE DEF m
<1>5. /\ QueueOrdered'
      /\ \A n \in 1 .. Len(queue') :
           n + 1 \in 1 .. Len(queue) /\ queue'[n] = queue[n + 1]
  BY <1>1, <1>2, ShiftOrdered
<1>6. HandJob'
  BY <1>4 DEF HandJob, Busy
<1>7. ASSUME NEW n \in 1 .. Len(queue')
      PROVE  /\ Before(m, queue'[n])
             /\ jobPc' = "push" => Before(queue'[n], hand')
  <2>1. /\ n + 1 \in 1 .. Len(queue) /\ queue'[n] = queue[n + 1]
        /\ 1 < n + 1 /\ queue'[n].id \in Nat
    BY <1>5, Numbers
  <2>2. Before(m, queue'[n])
    BY <1>2, <2>1 DEF QueueOrdered
  <2>3. jobPc' = "push" => Stage(hand') = Stage(m) + 1
    BY <1>4 DEF Stage
  <2> QED
    BY <1>3, <2>1, <2>2, <2>3, StageUp
<1>8. HandOrdered'
  BY <1>4, <1>7 DEF HandOrdered, Busy, Before, Stage
<1>9. Answered'
  <2>1. ASSUME NEW a \in 1 .. Len(answers)
        PROVE  /\ answers[a].id <= pushed' /\ answers[a].id < hand'.id
               /\ \A n \in 1 .. Len(queue') : answers[a].id < queue'[n].id
    BY <1>1, <1>2, <1>3, <1>5 DEF Answered
  <2> QED
    BY <1>1, <2>1 DEF Answered
<1> QED
  BY <1>1, <1>5, <1>6, <1>8, <1>9 DEF RelayAnswersInOrder

(* A message that is thrown away breaks no order.                          *)
LEMMA DropsOrdered ==
  ASSUME TypeInv, OrderInv, JobForgets \/ JobFlushes, TypeInv'
  PROVE  OrderInv'
<1> USE DEF OrderInv
<1>1. /\ UNCHANGED <<jobPc, pushed, answers>> /\ jobPc \in {"loop", "flush"}
      /\ queue' \in Seq(Messages)
  BY DEF JobForgets, JobFlushes, TypeInv, RelayTypeOK
<1>2. \E d \in Nat :
        \/ Len(queue') = 0
        \/ /\ Len(queue') = Len(queue) - d
           /\ \A n \in 1 .. Len(queue) - d : queue'[n] = queue[n + d]
  <2>1. CASE JobForgets
    <3>1. queue' = Tail(queue) /\ Len(queue) > 0
      BY <2>1, Numbers DEF JobForgets, TypeInv, RelayTypeOK
    <3>2. /\ Len(queue') = Len(queue) - 1
          /\ \A n \in 1 .. Len(queue) - 1 : queue'[n] = queue[n + 1]
      BY <3>1, Popped
    <3> QED
      BY <3>2
  <2>2. CASE JobFlushes
    <3>1. queue' = Rest(queue) /\ Len(queue) > 0
      BY <2>2, Numbers DEF JobFlushes, TypeInv, RelayTypeOK
    <3>2. \/ Len(queue') = 0
          \/ /\ Len(queue') = Len(queue) - 2
             /\ \A n \in 1 .. Len(queue) - 2 : queue'[n] = queue[n + 2]
      BY <3>1, Flushed
    <3> QED
      BY <3>2
  <2> QED
    BY <2>1, <2>2
<1>3. PICK d \in Nat :
        \/ Len(queue') = 0
        \/ /\ Len(queue') = Len(queue) - d
           /\ \A n \in 1 .. Len(queue) - d : queue'[n] = queue[n + d]
  BY <1>2
<1>4. /\ QueueOrdered'
      /\ \A n \in 1 .. Len(queue') :
           n + d \in 1 .. Len(queue) /\ queue'[n] = queue[n + d]
  BY <1>1, <1>3, ShiftOrdered
<1>5. HandJob' /\ HandOrdered' /\ RelayAnswersInOrder'
  BY <1>1 DEF HandJob, HandOrdered, RelayAnswersInOrder, Busy
<1>6. Answered'
  BY <1>1, <1>4 DEF Answered, Busy
<1> QED
  BY <1>4, <1>5, <1>6

(* A message goes back behind the queue.                                   *)
LEMMA PushesOrdered ==
  ASSUME TypeInv, OrderInv, JobPushes, TypeInv'
  PROVE  OrderInv'
<1> USE DEF OrderInv
<1>1. /\ jobPc = "push" /\ jobPc' = "loop" /\ UNCHANGED <<pushed, answers>>
      /\ hand \in Messages
      /\ queue' = queue \/ queue' = Append(queue, hand)
  BY PushedBack DEF JobPushes, Done
<1>2. HandJob' /\ HandOrdered' /\ RelayAnswersInOrder'
  BY <1>1 DEF HandJob, HandOrdered, RelayAnswersInOrder, Busy
<1>3. CASE queue' = queue
  BY <1>1, <1>2, <1>3 DEF QueueOrdered, Answered, Busy, Before, Stage
<1>4. CASE queue' = Append(queue, hand)
  <2>1. /\ QueueOrdered' /\ Len(queue') = Len(queue) + 1
        /\ queue'[Len(queue) + 1] = hand
        /\ \A n \in 1 .. Len(queue) : queue'[n] = queue[n]
    BY <1>1, <1>4, AppendOrdered DEF HandOrdered
  <2>2. ASSUME NEW n \in 1 .. Len(queue')
        PROVE  \/ queue'[n] = hand
               \/ n \in 1 .. Len(queue) /\ queue'[n] = queue[n]
    BY <2>1, Numbers
  <2>3. ASSUME NEW a \in 1 .. Len(answers), NEW n \in 1 .. Len(queue')
        PROVE  answers[a].id < queue'[n].id
    BY <1>1, <2>2 DEF Answered, Busy
  <2>4. Answered'
    BY <1>1, <2>3 DEF Answered, Busy
  <2> QED
    BY <1>2, <2>1, <2>4
<1> QED
  BY <1>1, <1>3, <1>4

(* The version check has answered: the message becomes a response.         *)
LEMMA RequestsOrdered ==
  ASSUME TypeInv, OrderInv, JobRequests, TypeInv'
  PROVE  OrderInv'
<1> USE DEF OrderInv
<1>1. /\ jobPc = "requesting" /\ jobPc' = "push"
      /\ UNCHANGED <<queue, pushed, answers>>
      /\ hand \in Messages
      /\ hand' = [hand EXCEPT !.job = "response", !.form = "image"]
  BY DEF JobRequests, TypeInv, HandHeld
<1>2. hand'.id = hand.id /\ hand'.job = "response" /\ hand.id \in Nat
  BY <1>1, Numbers DEF Messages
<1>3. Stage(hand') = Stage(hand) + 1
  BY <1>1, <1>2 DEF HandJob, Stage
<1>4. ASSUME NEW n \in 1 .. Len(queue)
      PROVE  Before(queue[n], hand')
  <2>1. Before(hand, queue[n])
    BY <1>1 DEF HandOrdered, Busy
  <2>2. queue[n].id \in Nat
    BY Numbers
  <2> QED
    BY <1>2, <1>3, <2>1, <2>2, StageUp
<1>5. HandOrdered'
  BY <1>1, <1>4 DEF HandOrdered, Busy, Before, Stage
<1>6. HandJob' /\ RelayAnswersInOrder' /\ Answered'
  BY <1>1, <1>2 DEF HandJob, RelayAnswersInOrder, Answered, Busy
<1>7. QueueOrdered'
  BY <1>1 DEF QueueOrdered, Before, Stage
<1> QED
  BY <1>5, <1>6, <1>7

(* The download fills the message: neither its number nor its job changes. *)
LEMMA DownloadsOrdered ==
  ASSUME TypeInv, OrderInv, JobDownloads, TypeInv'
  PROVE  OrderInv'
<1> USE DEF OrderInv
<1>1. /\ jobPc = "downloading" /\ jobPc' \in {"keypress", "pause"}
      /\ UNCHANGED <<queue, pushed, answers>>
      /\ hand \in Messages
      /\ \E form \in {"image", "empty"} : hand' = [hand EXCEPT !.form = form]
  BY DEF JobDownloads, TypeInv, HandHeld
<1>2. hand'.id = hand.id /\ hand'.job = hand.job
  BY <1>1 DEF Messages
<1>3. ASSUME NEW n \in 1 .. Len(queue) PROVE Before(hand', queue[n])
  <2>1. Before(hand, queue[n])
    BY <1>1 DEF HandOrdered, Busy
  <2> QED
    BY <1>2, <2>1 DEF Before, Stage
<1>4. HandOrdered'
  BY <1>1, <1>3 DEF HandOrdered, Busy, Before, Stage
<1>5. HandJob' /\ RelayAnswersInOrder' /\ Answered'
  BY <1>1, <1>2 DEF HandJob, RelayAnswersInOrder, Answered, Busy
<1>6. QueueOrdered'
  BY <1>1 DEF QueueOrdered, Before, Stage
<1> QED
  BY <1>4, <1>5, <1>6

(* The answer is older than all there is, and younger than the others.     *)
LEMMA SendsOrdered ==
  ASSUME TypeInv, OrderInv, JobSends, TypeInv'
  PROVE  OrderInv'
<1> USE DEF OrderInv
<1>1. /\ jobPc = "sending" /\ jobPc' = "flush"
      /\ UNCHANGED <<queue, pushed, hand>>
      /\ answers' = answers \/ answers' = Append(answers, Answer(hand))
  BY DEF JobSends
<1>2. QueueOrdered' /\ HandOrdered' /\ HandJob'
  BY <1>1 DEF QueueOrdered, HandOrdered, HandJob, Busy, Before, Stage
<1>3. CASE answers' = answers
  BY <1>1, <1>2, <1>3 DEF Answered, Busy, RelayAnswersInOrder
<1>4. CASE answers' = Append(answers, Answer(hand))
  <2>1. ASSUME NEW n \in 1 .. Len(queue) PROVE hand.id < queue[n].id
    <3>1. Before(hand, queue[n]) /\ Stage(hand) = 2
      BY <1>1 DEF HandOrdered, HandJob, Busy, Stage
    <3> QED
      BY <3>1, Stages DEF Before
  <2>2. Answer(hand).id = hand.id /\ hand.id <= pushed
    BY DEF Answer, TypeInv, HandHeld
  <2>3. /\ Len(answers') = Len(answers) + 1
        /\ answers'[Len(answers) + 1] = Answer(hand)
        /\ \A a \in 1 .. Len(answers) : answers'[a] = answers[a]
    BY <1>4 DEF TypeInv, RelayTypeOK
  <2>4. ASSUME NEW a \in 1 .. Len(answers')
        PROVE  \/ a = Len(answers) + 1 /\ answers'[a].id = hand.id
               \/ a \in 1 .. Len(answers) /\ answers'[a] = answers[a]
    BY <2>2, <2>3, Numbers
  <2>5. ASSUME NEW a \in 1 .. Len(answers')
        PROVE  /\ answers'[a].id <= pushed
               /\ \A n \in 1 .. Len(queue) : answers'[a].id < queue[n].id
    BY <2>1, <2>2, <2>4 DEF Answered
  <2>6. Answered'
    BY <1>1, <2>5 DEF Answered, Busy
  <2>7. ASSUME NEW a \in 1 .. Len(answers'), NEW b \in 1 .. Len(answers'),
               a < b
        PROVE  answers'[a].id < answers'[b].id
    <3>1. a \in 1 .. Len(answers) /\ answers'[a] = answers[a]
      BY <2>3, <2>4, <2>7, Numbers
    <3>2. answers[a].id < hand.id
      BY <1>1, <3>1 DEF Answered, Busy
    <3> QED
      BY <2>4, <2>7, <3>1, <3>2 DEF RelayAnswersInOrder
  <2> QED
    BY <1>2, <2>6, <2>7 DEF RelayAnswersInOrder
<1> QED
  BY <1>1, <1>3, <1>4

(* Steps that leave the message where it is, or let it go.                 *)
LEMMA RestOrdered ==
  ASSUME TypeInv, OrderInv, UNCHANGED <<queue, pushed, answers>>,
         \/ UNCHANGED <<jobPc, hand>>
         \/ jobPc' \in {"loop", "flush"}
         \/ hand' = hand /\ jobPc = "request" /\ jobPc' = "requesting"
         \/ /\ hand' = hand
            /\ jobPc \in {"response", "keypress", "pause", "sending"}
            /\ jobPc' \in {"downloading", "sending", "resending"}
  PROVE  OrderInv'
<1> USE DEF OrderInv
<1>1. QueueOrdered' /\ RelayAnswersInOrder'
  BY DEF QueueOrdered, Before, Stage, RelayAnswersInOrder
<1>2. HandJob'
  BY DEF HandJob, Busy
<1>3. HandOrdered'
  BY DEF HandOrdered, Busy, Before, Stage
<1>4. Answered'
  BY DEF Answered, Busy
<1> QED
  BY <1>1, <1>2, <1>3, <1>4

LEMMA OrderInvKept ==
  ASSUME TypeInv, OrderInv, TypeInv', [RelayNext]_relayVars
  PROVE  OrderInv'
<1>1. CASE UNCHANGED relayVars
  BY <1>1, RestOrdered DEF relayVars
<1>2. CASE ServerStep \/ Tick
  BY <1>2, RestOrdered
  DEF ServerStep, ServerPasses, ServerKeeps, ServerExpires, Tick, jobVars
<1>3. CASE ServerHears
  <2>1. ASSUME NEW c \in Clients, NEW i \in Slots, ServerRegisters(c, i)
        PROVE  OrderInv'
    BY <2>1, RestOrdered DEF ServerRegisters, jobVars
  <2> QED
    BY <1>3, <2>1, QueuesOrdered DEF ServerHears
<1>4. CASE JobTakes
  BY <1>4, TakesOrdered
<1>5. CASE JobForgets \/ JobFlushes
  BY <1>5, DropsOrdered
<1>6. CASE JobPushes
  BY <1>6, PushesOrdered
<1>7. CASE JobRequests
  BY <1>7, RequestsOrdered
<1>8. CASE JobDownloads
  BY <1>8, DownloadsOrdered
<1>9. CASE JobSends
  BY <1>9, SendsOrdered
<1>10. CASE JobRestarts
  BY <1>10, RestOrdered DEF JobRestarts
<1>11. CASE JobConnects \/ JobResumes
  BY <1>11, RestOrdered DEF JobConnects, JobResumes
<1>12. CASE JobRequestFails \/ JobFinishes
  BY <1>12, RestOrdered DEF JobRequestFails, JobFinishes, Done
<1>13. CASE JobDownloadFails \/ JobSendFails
  BY <1>13, RestOrdered DEF JobDownloadFails, JobSendFails
<1> QED
  BY <1>1, <1>2, <1>3, <1>4, <1>5, <1>6, <1>7, <1>8, <1>9, <1>10, <1>11,
     <1>12, <1>13
  DEF RelayNext, JobStep

(* The order of the queue, of the message at hand and of the answers.      *)
THEOREM OrderInvariant == RelaySpec => []OrderInv
<1>1. RelayInit => OrderInv
  BY DEF RelayInit, OrderInv, QueueOrdered, HandOrdered, HandJob, Answered,
         RelayAnswersInOrder, Busy
<1> QED
  BY <1>1, OrderInvKept, RelayTypeInvariant, PTL DEF RelaySpec

(* The images go out in the order in which the messages came in, and at    *)
(* most one for each, for any number of clients, slots and messages.       *)
THEOREM RelayAnswersAlwaysInOrder == RelaySpec => []RelayAnswersInOrder
<1>1. OrderInv => RelayAnswersInOrder
  BY DEF OrderInv
<1> QED
  BY <1>1, OrderInvariant, PTL

-----------------------------------------------------------------------------
(* The refinement.  What is waiting is the queue and the message in work.  *)
InLine == Queued \cup InWork

(* A step that answers nobody and leaves nothing in the line that was not  *)
(* there loses what is gone.                                               *)
LEMMA LineLoses ==
  ASSUME UNCHANGED <<pushed, answers>>,
         \A n \in 1 .. Len(queue') : Answer(queue'[n]) \in InLine,
         Busy' => Answer(hand') \in InLine
  PROVE  Line!Next
<1>1. Queued' \subseteq InLine
  BY DEF Queued, Answer
<1>2. InWork' \subseteq InLine
  BY DEF InWork, Answer
<1> QED
  BY <1>1, <1>2 DEF InLine, Line!Next, Line!Loses

LEMMA InQueueInLine ==
  \A n \in 1 .. Len(queue) : Answer(queue[n]) \in InLine
BY DEF InLine, Queued

(* Steps that leave the queue as it is: whose message the thread works on  *)
(* does not change.                                                        *)
LEMMA RestInLine ==
  ASSUME UNCHANGED <<queue, pushed, answers>>,
         Busy' => Busy /\ Answer(hand') = Answer(hand)
  PROVE  Line!Next
<1>1. Busy' => Answer(hand') \in InLine
  BY DEF InLine, InWork
<1> QED
  BY <1>1, InQueueInLine, LineLoses

LEMMA QueuesInLine ==
  ASSUME TypeInv, NEW c \in Clients, NEW i \in Slots, NEW kind \in Kinds,
         ServerQueues(c, i, kind)
  PROVE  Line!Next
<1> DEFINE m == [id |-> pushed + 1, client |-> c,
                 form |-> Framed(kind, slot[i].seq + 1), job |-> "initial"]
           a == [client |-> c, id |-> pushed + 1]
<1>1. /\ pushed' = pushed + 1 /\ answers' = answers
      /\ queue' = queue \/ queue' = Append(queue, m)
      /\ InWork' = InWork
  BY DEF ServerQueues, jobVars, InWork, Busy, Answer
<1>2. Answer(m) = a
  BY DEF Answer
<1> HIDE DEF m
<1>3. Queued' = Queued \/ Queued' = Queued \cup {a}
  <2>1. CASE queue' = queue
    BY <2>1 DEF Queued, Answer
  <2>2. CASE queue' = Append(queue, m)
    <3>1. /\ Len(queue) \in Nat /\ Len(queue') = Len(queue) + 1
          /\ queue'[Len(queue) + 1] = m
          /\ \A n \in 1 .. Len(queue) : queue'[n] = queue[n]
      BY <2>2, Numbers DEF TypeInv, RelayTypeOK
    <3>2. ASSUME NEW n \in 1 .. Len(queue')
          PROVE  \/ n \in 1 .. Len(queue) /\ queue'[n] = queue[n]
                 \/ queue'[n] = m
      BY <3>1
    <3>3. Queued' \subseteq Queued \cup {a}
      BY <1>2, <3>2 DEF Queued, Answer
    <3>4. Queued \subseteq Queued'
      <4>1. 1 .. Len(queue) \subseteq 1 .. Len(queue')
        BY <3>1
      <4> QED
        BY <3>1, <4>1 DEF Queued, Answer
    <3>5. a \in Queued'
      <4>1. Len(queue) + 1 \in 1 .. Len(queue')
        BY <3>1
      <4> QED
        BY <1>2, <3>1, <4>1 DEF Queued, Answer
    <3> QED
      BY <3>3, <3>4, <3>5
  <2> QED
    BY <1>1, <2>1, <2>2
<1>4. \/ InLine' = InLine \cup {a}
      \/ InLine' = InLine
  BY <1>1, <1>3 DEF InLine
<1>5. Line!Enters(c)
  BY <1>1, <1>4 DEF Line!Enters, InLine
<1> QED
  BY <1>5 DEF Line!Next

LEMMA TakesInLine ==
  ASSUME TypeInv, JobTakes
  PROVE  Line!Next
<1>1. /\ Len(queue) \in Nat /\ Len(queue) > 0 /\ queue' = Tail(queue)
      /\ UNCHANGED <<pushed, answers>>
      /\ \/ hand' = Head(queue)
         \/ hand' = [Head(queue) EXCEPT !.job = "report"]
  BY Numbers DEF JobTakes, TypeInv, RelayTypeOK
<1>2. /\ Head(queue) = queue[1] /\ Head(queue) \in Messages
      /\ 1 \in 1 .. Len(queue)
      /\ Len(queue') = Len(queue) - 1
      /\ \A n \in 1 .. Len(queue) - 1 : queue'[n] = queue[n + 1]
  BY <1>1, Popped
<1>3. Answer(hand') = Answer(queue[1])
  BY <1>1, <1>2 DEF Answer, Messages
<1>4. \A n \in 1 .. Len(queue') :
        n + 1 \in 1 .. Len(queue) /\ queue'[n] = queue[n + 1]
  BY <1>1, <1>2
<1>5. \A n \in 1 .. Len(queue') : Answer(queue'[n]) \in InLine
  BY <1>4, InQueueInLine
<1> QED
  BY <1>1, <1>2, <1>3, <1>5, InQueueInLine, LineLoses

LEMMA DropsInLine ==
  ASSUME TypeInv, JobForgets \/ JobFlushes
  PROVE  Line!Next
<1>1. /\ UNCHANGED <<pushed, answers, jobPc>>
      /\ jobPc \in {"loop", "flush"}
      /\ Len(queue) \in Nat /\ Len(queue) > 0
  BY Numbers DEF JobForgets, JobFlushes, TypeInv, RelayTypeOK
<1>2. ~ Busy'
  BY <1>1 DEF Busy
<1>3. ASSUME NEW n \in 1 .. Len(queue')
      PROVE  \E k \in 1 .. Len(queue) : queue'[n] = queue[k]
  <2>1. CASE JobForgets
    <3>1. /\ Len(queue') = Len(queue) - 1
          /\ \A k \in 1 .. Len(queue) - 1 : queue'[k] = queue[k + 1]
      BY <1>1, <2>1, Popped DEF JobForgets
    <3>2. n + 1 \in 1 .. Len(queue) /\ queue'[n] = queue[n + 1]
      BY <1>1, <3>1
    <3> QED
      BY <3>2
  <2>2. CASE JobFlushes
    <3>1. \/ Len(queue') = 0
          \/ /\ Len(queue') = Len(queue) - 2
             /\ \A k \in 1 .. Len(queue) - 2 : queue'[k] = queue[k + 2]
      BY <1>1, <2>2, Flushed DEF JobFlushes
    <3>2. n + 2 \in 1 .. Len(queue) /\ queue'[n] = queue[n + 2]
      BY <1>1, <3>1
    <3> QED
      BY <3>2
  <2> QED
    BY <2>1, <2>2
<1>4. \A n \in 1 .. Len(queue') : Answer(queue'[n]) \in InLine
  BY <1>3, InQueueInLine
<1> QED
  BY <1>1, <1>2, <1>4, LineLoses

LEMMA PushesInLine ==
  ASSUME TypeInv, JobPushes
  PROVE  Line!Next
<1>1. /\ jobPc = "push" /\ jobPc' = "loop" /\ UNCHANGED <<pushed, answers>>
      /\ hand \in Messages /\ Len(queue) \in Nat
      /\ queue' = queue \/ queue' = Append(queue, hand)
  BY PushedBack, Numbers DEF JobPushes, Done
<1>2. ~ Busy' /\ Answer(hand) \in InLine
  BY <1>1 DEF Busy, InLine, InWork
<1>3. ASSUME NEW n \in 1 .. Len(queue')
      PROVE  \/ n \in 1 .. Len(queue) /\ queue'[n] = queue[n]
             \/ queue'[n] = hand
  BY <1>1 DEF TypeInv, RelayTypeOK
<1>4. \A n \in 1 .. Len(queue') : Answer(queue'[n]) \in InLine
  BY <1>2, <1>3, InQueueInLine
<1> QED
  BY <1>1, <1>2, <1>4, LineLoses

(* An image goes to the oldest of the line: the message in work is at its  *)
(* last stage, and all in the queue are younger.                           *)
LEMMA SendsInLine ==
  ASSUME TypeInv, OrderInv, JobSends
  PROVE  Line!Next
<1> DEFINE m == Answer(hand)
<1>1. /\ jobPc = "sending" /\ jobPc' = "flush"
      /\ UNCHANGED <<queue, pushed, hand>>
      /\ answers' = answers \/ answers' = Append(answers, m)
  BY DEF JobSends
<1>2. CASE answers' = answers
  <2>1. ~ Busy'
    BY <1>1 DEF Busy
  <2> QED
    BY <1>1, <1>2, <2>1, RestInLine
<1>3. CASE answers' = Append(answers, m)
  <2>1. ASSUME NEW n \in 1 .. Len(queue)
        PROVE  hand.id < queue[n].id /\ queue[n].id \in Nat
    <3>1. Before(hand, queue[n]) /\ Stage(hand) = 2
      BY <1>1 DEF OrderInv, HandOrdered, HandJob, Busy, Stage
    <3> QED
      BY <3>1, Stages, Numbers DEF Before
  <2>2. m.id = hand.id /\ hand.id \in Nat
    BY Numbers DEF Answer
  <2>3. ASSUME NEW w \in Queued PROVE m.id < w.id /\ w.id \in Nat
    BY <2>1, <2>2 DEF Queued, Answer
  <2>4. InLine = Queued \cup {m} /\ InLine' = Queued
    BY <1>1 DEF InLine, InWork, Busy, Queued, Answer
  <2> HIDE DEF m
  <2>5. m \notin Queued
    BY <2>2, <2>3
  <2>6. m \in InLine /\ InLine' = InLine \ {m}
    BY <2>4, <2>5
  <2>7. \A w \in InLine : m.id <= w.id
    BY <2>2, <2>3, <2>4
  <2>8. Line!Answers(m)
    BY <1>1, <1>3, <2>6, <2>7 DEF Line!Answers, Line!Oldest, InLine
  <2> QED
    BY <2>6, <2>8 DEF Line!Next, InLine
<1> QED
  BY <1>1, <1>2, <1>3

LEMMA RelayStepInLine ==
  ASSUME TypeInv, OrderInv, [RelayNext]_relayVars
  PROVE  Line!Next
<1>1. CASE UNCHANGED relayVars
  BY <1>1, RestInLine DEF relayVars, Busy, Answer
<1>2. CASE ServerStep \/ Tick
  BY <1>2, RestInLine
  DEF ServerStep, ServerPasses, ServerKeeps, ServerExpires, Tick, jobVars,
      Busy, Answer
<1>3. CASE ServerHears
  <2>1. ASSUME NEW c \in Clients, NEW i \in Slots, ServerRegisters(c, i)
        PROVE  Line!Next
    BY <2>1, RestInLine DEF ServerRegisters, jobVars, Busy, Answer
  <2> QED
    BY <1>3, <2>1, QueuesInLine DEF ServerHears
<1>4. CASE JobTakes
  BY <1>4, TakesInLine
<1>5. CASE JobForgets \/ JobFlushes
  BY <1>5, DropsInLine
<1>6. CASE JobPushes
  BY <1>6, PushesInLine
<1>7. CASE JobRequests \/ JobDownloads
  <2>1. /\ jobPc \in {"requesting", "downloading"}
        /\ UNCHANGED <<queue, pushed, answers>>
        /\ \/ hand' = [hand EXCEPT !.job = "response", !.form = "image"]
           \/ \E form \in {"image", "empty"} :
                hand' = [hand EXCEPT !.form = form]
    BY <1>7 DEF JobRequests, JobDownloads
  <2>2. hand \in Messages /\ Busy
    BY <2>1 DEF TypeInv, HandHeld, Busy
  <2>3. Answer(hand') = Answer(hand)
    BY <2>1, <2>2 DEF Answer, Messages
  <2> QED
    BY <2>1, <2>2, <2>3, RestInLine
<1>8. CASE JobSends
  BY <1>8, SendsInLine
<1>9. CASE JobRestarts \/ JobConnects \/ JobResumes
  BY <1>9, RestInLine DEF JobRestarts, JobConnects, JobResumes, Busy, Answer
<1>10. CASE JobRequestFails \/ JobFinishes
  BY <1>10, RestInLine DEF JobRequestFails, JobFinishes, Done, Busy
<1>11. CASE JobDownloadFails \/ JobSendFails
  BY <1>11, RestInLine DEF JobDownloadFails, JobSendFails, Busy, Answer
<1> QED
  BY <1>1, <1>2, <1>3, <1>4, <1>5, <1>6, <1>7, <1>8, <1>9, <1>10, <1>11
  DEF RelayNext, JobStep

(* The queue that each message passes three times is one line, from which  *)
(* the oldest is answered, for any number of clients, slots and messages.  *)
THEOREM RelayImplementsAnswerLine == RelaySpec => RelayImplementsLine
<1>1. RelayInit => Line!Init
  <2> SUFFICES ASSUME RelayInit PROVE Line!Init
    OBVIOUS
  <2>1. Queued = {} /\ InWork = {}
    BY DEF RelayInit, Queued, InWork, Busy
  <2> QED
    BY <2>1 DEF RelayInit, Line!Init
<1>2. TypeInv /\ OrderInv /\ [RelayNext]_relayVars => Line!Next
  BY RelayStepInLine
<1> QED
  BY <1>1, <1>2, RelayTypeInvariant, OrderInvariant, PTL
  DEF RelaySpec, RelayImplementsLine, Line!Spec
=============================================================================
