-------------------------- MODULE ObuMailbox_proofs -------------------------
(***************************************************************************)
(* What goes wrong between the radio's thread and the task loop goes wrong *)
(* because of a byte that is stored back, not because of the handshake:    *)
(* proved for a socket of any size, with every access to the byte a step.  *)
(***************************************************************************)
EXTENDS ObuMailbox, TLAPS

(* Only the loop lowers recv_wsa, and a byte that it loads and stores is   *)
(* never older than that: so no thread holds a recv_wsa that would lower a *)
(* raised one (radio) or raise a lowered one (loop).                       *)
RegsFit ==
  /\ reg["radio"] # NotLoaded /\ reg["radio"]["recv_wsa"] = 0
       => ~Set("recv_wsa")
  /\ reg["loop"] # NotLoaded /\ reg["loop"]["recv_wsa"] = 1
       => Set("recv_wsa")

(* Every raise of recv_wsa that was meant and that the loop has not lowered*)
(* yet, and every one that the radio is about to do, has a datagram of its *)
(* own in the socket.                                                      *)
Raised ==
  IF Set("recv_wsa") /\ "recv_wsa" \notin undone /\ pc["loop"] # "lower"
  THEN 1 ELSE 0
Raising == IF pc["radio"] = "raise" THEN 1 ELSE 0

MailBacked ==
  ~misled =>
    /\ mail >= Raised + Raising
    /\ pc["loop"] = "take" => Set("recv_wsa") /\ "recv_wsa" \notin undone

(* A request that is being marked has been sent.  As long as no store of   *)
(* the radio has changed it, waiting_regreply is set only between the      *)
(* sending of a request and the end of the wait, the agent that was asked  *)
(* is known all that time, and the byte that the loop holds agrees.        *)
WaitBacked ==
  /\ pc["loop"] \in {"mark", "remark"} => asked
  /\ "waiting_regreply" \notin undone =>
       /\ Set("waiting_regreply") =>
            /\ asked
            /\ pc["loop"] \in {"command", "remark", "arm", "test", "again",
                               "await", "replied", "timed_out"}
       /\ pc["loop"] \in {"await", "replied", "timed_out"} => asked
       /\ reg["loop"] # NotLoaded =>
            reg["loop"]["waiting_regreply"] = status["waiting_regreply"]

MailboxInv == MailboxTypeOK /\ RegsFit /\ MailBacked /\ WaitBacked

-----------------------------------------------------------------------------
(* The mailbox is open at first, and no reply is awaited.                  *)
LEMMA MailboxInvInit == MailboxInit => MailboxInv
<1> SUFFICES ASSUME MailboxInit
             PROVE  MailboxInv
  OBVIOUS
<1>1. /\ status["recv_wsa"] = 0 /\ status["waiting_regreply"] = 0
      /\ pc["radio"] = "idle" /\ pc["loop"] = "top"
      /\ reg["radio"] = NotLoaded /\ reg["loop"] = NotLoaded
  BY DEF MailboxInit, Fields, Threads
<1>2. status \in Bytes
  BY DEF MailboxInit, Bytes
<1>3. MailboxTypeOK
  <2>1. /\ pc \in [Threads -> RadioPcs \cup LoopPcs]
        /\ pc.radio \in RadioPcs /\ pc.loop \in LoopPcs
    BY DEF MailboxInit, Threads, RadioPcs, LoopPcs
  <2>2. reg \in [Threads -> Bytes \cup {NotLoaded}]
    BY DEF MailboxInit
  <2>3. mail \in 0 .. QMax
    BY QMaxAssumption DEF MailboxInit
  <2>4. asked \in BOOLEAN /\ misled \in BOOLEAN /\ undone \subseteq Fields
    BY DEF MailboxInit
  <2> QED
    BY <1>2, <2>1, <2>2, <2>3, <2>4 DEF MailboxTypeOK
<1>4. RegsFit
  BY <1>1 DEF RegsFit
<1>5. MailBacked
  BY <1>1 DEF MailboxInit, MailBacked, Raised, Raising, Set
<1>6. WaitBacked
  BY <1>1 DEF WaitBacked, Set
<1> QED
  BY <1>3, <1>4, <1>5, <1>6 DEF MailboxInv

(* A byte is not the mark of an empty register.                            *)
LEMMA BytesLoaded == NotLoaded \notin Bytes
<1>1. \A b \in Bytes : b["recv_wsa"] \in {0, 1} /\ DOMAIN b = Fields
  BY DEF Bytes, Fields
<1>2. DOMAIN NotLoaded = {"none"}
  BY DEF NotLoaded
<1>3. "recv_wsa" \in Fields /\ "recv_wsa" \notin {"none"}
  BY DEF Fields
<1> QED
  BY <1>1, <1>2, <1>3

(* A load only fills the register, with the byte as it is.                 *)
LEMMA LoadIs ==
  ASSUME MailboxTypeOK, NEW t \in Threads, Load(t)
  PROVE  /\ reg[t] = NotLoaded /\ reg' = [reg EXCEPT ![t] = status]
         /\ reg'[t] = status
         /\ \A u \in Threads : u # t => reg'[u] = reg[u]
         /\ reg' \in [Threads -> Bytes \cup {NotLoaded}]
         /\ status' = status /\ pc' = pc /\ undone' = undone
BY DEF Load, MailboxTypeOK

(* A store writes its field and brings back what the register holds of the *)
(* two others.                                                             *)
LEMMA StoreIs ==
  ASSUME MailboxTypeOK, NEW t \in Threads, NEW f \in Fields,
         NEW v \in {0, 1}, NEW there, Store(t, f, v, there)
  PROVE  /\ reg[t] # NotLoaded /\ reg[t] \in Bytes
         /\ status' \in Bytes /\ status'[f] = v
         /\ \A g \in Fields : g # f => status'[g] = reg[t][g]
         /\ reg'[t] = NotLoaded
         /\ \A u \in Threads : u # t => reg'[u] = reg[u]
         /\ reg' \in [Threads -> Bytes \cup {NotLoaded}]
         /\ pc' = [pc EXCEPT ![t] = there]
         /\ undone' \subseteq Fields
<1>1. reg[t] # NotLoaded /\ reg[t] \in Bytes
  BY DEF Store, MailboxTypeOK
<1>2. status' = [reg[t] EXCEPT ![f] = v]
  BY DEF Store
<1>3. /\ status' \in Bytes /\ status'[f] = v
      /\ \A g \in Fields : g # f => status'[g] = reg[t][g]
  BY <1>1, <1>2 DEF Bytes
<1>4. /\ reg'[t] = NotLoaded
      /\ \A u \in Threads : u # t => reg'[u] = reg[u]
      /\ reg' \in [Threads -> Bytes \cup {NotLoaded}]
  BY DEF Store, MailboxTypeOK
<1>5. undone' \subseteq Fields
  BY DEF Store, MailboxTypeOK, Changed
<1> QED
  BY <1>1, <1>3, <1>4, <1>5 DEF Store, Goto

-----------------------------------------------------------------------------
(* A step of the radio that leaves the byte alone keeps the invariant.     *)
LEMMA RadioMovesKeep ==
  ASSUME MailboxInv, RadioHears \/ RadioSends \/ RadioDrops
  PROVE  MailboxInv'
<1> USE QMaxAssumption
    DEF MailboxInv, RegsFit, MailBacked, WaitBacked, Raised, Raising, Set,
        MailboxTypeOK, Threads, RadioPcs, LoopPcs, Goto, Quiet
<1>1. CASE RadioHears
  BY <1>1 DEF RadioHears
<1>2. CASE RadioSends
  BY <1>2 DEF RadioSends
<1>3. CASE RadioDrops
  BY <1>3 DEF RadioDrops
<1> QED
  BY <1>1, <1>2, <1>3

(* A load of either thread keeps the invariant.                            *)
LEMMA LoadKeeps ==
  ASSUME MailboxInv, NEW t \in Threads, Load(t),
         UNCHANGED <<mail, asked, misled>>
  PROVE  MailboxInv'
<1>1. MailboxTypeOK /\ RegsFit /\ MailBacked /\ WaitBacked
  BY DEF MailboxInv
<1>2. /\ reg'[t] = status
      /\ \A u \in Threads : u # t => reg'[u] = reg[u]
      /\ reg' \in [Threads -> Bytes \cup {NotLoaded}]
      /\ status' = status /\ pc' = pc /\ undone' = undone
  BY <1>1, LoadIs
<1>3. status["recv_wsa"] \in {0, 1}
  BY <1>1 DEF MailboxTypeOK, Bytes, Fields
<1>4. MailboxTypeOK'
  BY <1>1, <1>2 DEF MailboxTypeOK
<1>5. RegsFit'
  BY <1>1, <1>2, <1>3 DEF RegsFit, Set, Threads
<1>6. MailBacked'
  BY <1>1, <1>2 DEF MailBacked, Raised, Raising, Set
<1>7. WaitBacked'
  BY <1>1, <1>2 DEF WaitBacked, Set, Threads
<1> QED
  BY <1>4, <1>5, <1>6, <1>7 DEF MailboxInv

(* A store of the radio keeps the invariant: what it brings back is noted  *)
(* in undone, and it never lowers recv_wsa.                                *)
LEMMA RadioStoreKeeps ==
  ASSUME MailboxInv, UNCHANGED <<mail, asked, misled>>,
         \/ pc["radio"] = "lower" /\ Store("radio", "waiting_wsa", 0, "send")
         \/ pc["radio"] = "raise" /\ Store("radio", "recv_wsa", 1, "idle")
  PROVE  MailboxInv'
<1>1. MailboxTypeOK /\ RegsFit /\ MailBacked /\ WaitBacked
  BY DEF MailboxInv
<1>2. PICK f \in Fields, v \in {0, 1}, there \in RadioPcs :
        /\ Store("radio", f, v, there)
        /\ \/ f = "waiting_wsa" /\ pc["radio"] = "lower" /\ there = "send"
           \/ /\ f = "recv_wsa" /\ v = 1
              /\ pc["radio"] = "raise" /\ there = "idle"
  BY DEF Fields, RadioPcs
<1>3. "radio" \in Threads /\ "loop" \in Threads /\ "radio" # "loop"
  BY DEF Threads
<1>4. /\ reg["radio"] # NotLoaded /\ reg["radio"] \in Bytes
      /\ status' \in Bytes /\ status'[f] = v
      /\ \A g \in Fields : g # f => status'[g] = reg["radio"][g]
      /\ reg'["radio"] = NotLoaded /\ reg'["loop"] = reg["loop"]
      /\ reg' \in [Threads -> Bytes \cup {NotLoaded}]
      /\ pc' = [pc EXCEPT !["radio"] = there]
      /\ undone' \subseteq Fields
  BY <1>1, <1>2, <1>3, StoreIs
<1>5. pc'["radio"] = there /\ pc'["loop"] = pc["loop"]
  BY <1>1, <1>3, <1>4 DEF MailboxTypeOK
<1>6. undone' = undone \cup (Changed("radio") \ {f})
  BY <1>2, <1>3 DEF Store
<1>7. /\ "recv_wsa" \in Fields /\ "waiting_regreply" \in Fields
      /\ status["recv_wsa"] \in {0, 1} /\ reg["radio"]["recv_wsa"] \in {0, 1}
  BY <1>1, <1>4 DEF MailboxTypeOK, Bytes, Fields
<1>8. MailboxTypeOK'
  BY <1>1, <1>3, <1>4, <1>5, <1>2 DEF MailboxTypeOK
<1>9. Set("recv_wsa") => Set("recv_wsa")'
  BY <1>1, <1>2, <1>4, <1>7 DEF RegsFit, Set
<1>10. RegsFit'
  BY <1>1, <1>4, <1>9 DEF RegsFit
<1>11. "recv_wsa" \in undone' <=>
         "recv_wsa" \in undone \/ (f # "recv_wsa" /\ ~Set("recv_wsa")
                                     /\ Set("recv_wsa")')
  BY <1>1, <1>4, <1>6, <1>7 DEF RegsFit, Set, Changed
<1>12. MailBacked'
  <2> SUFFICES ASSUME ~misled
               PROVE  /\ mail >= Raised' + Raising'
                      /\ pc["loop"] = "take" =>
                           Set("recv_wsa")' /\ "recv_wsa" \notin undone'
    BY <1>5 DEF MailBacked
  <2>1. /\ mail >= Raised + Raising
        /\ pc["loop"] = "take" => Set("recv_wsa") /\ "recv_wsa" \notin undone
    BY <1>1 DEF MailBacked
  <2>2. Raised' + Raising' <= Raised + Raising
    <3>1. CASE f = "waiting_wsa" /\ pc["radio"] = "lower" /\ there = "send"
      <4>1. Raising = 0 /\ Raising' = 0
        BY <3>1, <1>5 DEF Raising
      <4>2. Raised' = 1 => Raised = 1
        BY <3>1, <1>5, <1>11 DEF Raised
      <4> QED
        BY <4>1, <4>2 DEF Raised
    <3>2. CASE f = "recv_wsa" /\ pc["radio"] = "raise" /\ there = "idle"
      <4>1. Raising = 1 /\ Raising' = 0
        BY <3>2, <1>5 DEF Raising
      <4> QED
        BY <4>1 DEF Raised
    <3> QED
      BY <1>2, <3>1, <3>2
  <2>3. Raised \in Nat /\ Raising \in Nat /\ Raised' \in Nat /\ Raising' \in Nat
        /\ mail \in Nat
    BY <1>1 DEF Raised, Raising, MailboxTypeOK
  <2>4. mail >= Raised' + Raising'
    BY <2>1, <2>2, <2>3 DEF Raised, Raising
  <2>5. pc["loop"] = "take" => Set("recv_wsa")' /\ "recv_wsa" \notin undone'
    <3> HAVE pc["loop"] = "take"
    <3>1. Set("recv_wsa") /\ "recv_wsa" \notin undone
      BY <2>1
    <3> QED
      BY <3>1, <1>9, <1>11
  <2> QED
    BY <2>4, <2>5
<1>13. WaitBacked'
  <2>1. "waiting_regreply" \notin undone' =>
          /\ "waiting_regreply" \notin undone
          /\ status'["waiting_regreply"] = status["waiting_regreply"]
    BY <1>2, <1>4, <1>6, <1>7 DEF Changed
  <2> QED
    BY <1>1, <1>4, <1>5, <2>1 DEF WaitBacked, Set
<1> QED
  BY <1>8, <1>10, <1>12, <1>13 DEF MailboxInv
-----------------------------------------------------------------------------
(* A store of the loop keeps the invariant, if the step is one of those    *)
(* that assign, and asked is what the step makes of it.                    *)
LEMMA LoopStoreKeeps ==
  ASSUME MailboxInv, UNCHANGED <<mail, misled>>,
         NEW f \in Fields, NEW v \in {0, 1}, NEW there \in LoopPcs,
         Store("loop", f, v, there), there # "take",
         asked' \in BOOLEAN,
         f = "recv_wsa" <=> pc["loop"] = "lower",
         f = "recv_wsa" => v = 0,
         there # "lower" /\ there \notin {"mark", "remark"},
         \/ /\ f # "waiting_regreply" /\ asked' = asked
            /\ pc["loop"] \notin {"await", "replied", "timed_out"}
            /\ there \notin {"await", "replied", "timed_out"}
            /\ pc["loop"] = "arm" => there = "test"
            /\ pc["loop"] # "arm" =>
                 pc["loop"] \in {"lower", "rearm"}
         \/ /\ f = "waiting_regreply" /\ v = 0
            /\ there \notin {"await", "replied", "timed_out"}
         \/ /\ f = "waiting_regreply" /\ asked'
            /\ there \in {"command", "arm"}
  PROVE  MailboxInv'
<1>1. MailboxTypeOK /\ RegsFit /\ MailBacked /\ WaitBacked
  BY DEF MailboxInv
<1>2. "radio" \in Threads /\ "loop" \in Threads /\ "radio" # "loop"
  BY DEF Threads
<1>3. /\ reg["loop"] # NotLoaded /\ reg["loop"] \in Bytes
      /\ status' \in Bytes /\ status'[f] = v
      /\ \A g \in Fields : g # f => status'[g] = reg["loop"][g]
      /\ reg'["loop"] = NotLoaded /\ reg'["radio"] = reg["radio"]
      /\ reg' \in [Threads -> Bytes \cup {NotLoaded}]
      /\ pc' = [pc EXCEPT !["loop"] = there]
      /\ undone' \subseteq Fields
  BY <1>1, <1>2, StoreIs
<1>4. pc'["loop"] = there /\ pc'["radio"] = pc["radio"]
  BY <1>1, <1>2, <1>3 DEF MailboxTypeOK
<1>5. undone' = undone \ {f}
  BY <1>2 DEF Store
<1>6. /\ "recv_wsa" \in Fields /\ "waiting_regreply" \in Fields
      /\ status["recv_wsa"] \in {0, 1} /\ reg["loop"]["recv_wsa"] \in {0, 1}
  BY <1>1, <1>3 DEF MailboxTypeOK, Bytes, Fields
<1>7. MailboxTypeOK'
  BY <1>1, <1>2, <1>3, <1>4 DEF MailboxTypeOK
<1>8. Set("recv_wsa")' => Set("recv_wsa") /\ f # "recv_wsa"
  BY <1>1, <1>3, <1>6 DEF RegsFit, Set
<1>9. RegsFit'
  BY <1>1, <1>3, <1>8 DEF RegsFit
<1>10. MailBacked'
  <2>1. Raised' = 1 => Raised = 1
    BY <1>4, <1>5, <1>8 DEF Raised
  <2>2. Raising' = Raising
    BY <1>4 DEF Raising
  <2>3. /\ Raised \in Nat /\ Raising \in Nat /\ mail \in Nat
        /\ Raised \in {0, 1} /\ Raised' \in {0, 1}
    BY <1>1 DEF Raised, Raising, MailboxTypeOK
  <2>4. ~misled => mail >= Raised' + Raising'
    BY <1>1, <2>1, <2>2, <2>3 DEF MailBacked, Raised, Raising
  <2> QED
    BY <1>4, <2>4 DEF MailBacked
<1>11. WaitBacked'
  <2>1. CASE /\ f # "waiting_regreply" /\ asked' = asked
             /\ pc["loop"] \in {"arm", "lower", "rearm"}
             /\ pc["loop"] = "arm" => there = "test"
             /\ there \notin {"await", "replied", "timed_out"}
    <3>1. "waiting_regreply" \notin undone' =>
            /\ "waiting_regreply" \notin undone
            /\ status'["waiting_regreply"] = status["waiting_regreply"]
      BY <1>1, <1>3, <1>5, <1>6, <2>1 DEF WaitBacked
    <3> QED
      BY <1>1, <1>3, <1>4, <2>1, <3>1 DEF WaitBacked, Set
  <2>2. CASE /\ f = "waiting_regreply" /\ v = 0
             /\ there \notin {"await", "replied", "timed_out"}
    BY <1>3, <1>4, <2>2 DEF WaitBacked, Set
  <2>3. CASE /\ f = "waiting_regreply" /\ asked'
             /\ there \in {"command", "arm"}
    BY <1>3, <1>4, <2>3 DEF WaitBacked
  <2> QED
    BY <2>1, <2>2, <2>3
<1> QED
  BY <1>7, <1>9, <1>10, <1>11 DEF MailboxInv

(* A step of the loop that leaves the byte alone keeps the invariant.      *)
LEMMA LoopMovesKeep ==
  ASSUME MailboxInv, Quiet, pc["radio"] \in RadioPcs,
         NEW there \in LoopPcs, Goto("loop", there),
         pc["loop"] # "lower",
         asked' \in BOOLEAN, misled' \in BOOLEAN, misled => misled',
         mail' \in 0 .. QMax,
         ~misled' =>
           \/ /\ mail' = mail
              /\ there = "take" => Set("recv_wsa") /\ "recv_wsa" \notin undone
           \/ mail' = mail - 1 /\ pc["loop"] = "take" /\ there = "lower",
         there \in {"mark", "remark"} => asked',
         "waiting_regreply" \notin undone =>
           /\ Set("waiting_regreply") =>
                /\ asked'
                /\ there \in {"command", "remark", "arm", "test", "again",
                             "await", "replied", "timed_out"}
           /\ there \in {"await", "replied", "timed_out"} => asked'
  PROVE  MailboxInv'
<1>1. MailboxTypeOK /\ RegsFit /\ MailBacked /\ WaitBacked
  BY DEF MailboxInv
<1>2. /\ pc'["loop"] = there /\ pc'["radio"] = pc["radio"]
      /\ pc' \in [Threads -> RadioPcs \cup LoopPcs]
  BY <1>1 DEF MailboxTypeOK, Goto, Threads
<1>3. /\ status' = status /\ reg' = reg /\ undone' = undone
  BY DEF Quiet
<1>4. MailboxTypeOK'
  BY <1>1, <1>2, <1>3 DEF MailboxTypeOK
<1>5. RegsFit'
  BY <1>1, <1>3 DEF RegsFit, Set
<1>6. MailBacked'
  <2> SUFFICES ASSUME ~misled'
               PROVE  /\ mail' >= Raised' + Raising'
                      /\ there = "take" =>
                           Set("recv_wsa") /\ "recv_wsa" \notin undone
    BY <1>2, <1>3 DEF MailBacked, Set
  <2>1. /\ mail >= Raised + Raising /\ mail \in Nat
        /\ pc["loop"] = "take" => Raised = 1
    BY <1>1 DEF MailBacked, MailboxTypeOK, Raised
  <2>2. Raising' = Raising /\ Raising \in Nat
    BY <1>2 DEF Raising
  <2>3. Raised \in {0, 1} /\ Raised' \in {0, 1}
    BY DEF Raised
  <2>4. CASE /\ mail' = mail
             /\ there = "take" => Set("recv_wsa") /\ "recv_wsa" \notin undone
    <3>1. Raised' = 1 => Raised = 1
      BY <1>2, <1>3 DEF Raised, Set
    <3> QED
      BY <2>1, <2>2, <2>3, <2>4, <3>1 DEF Raised, Raising
  <2>5. CASE mail' = mail - 1 /\ pc["loop"] = "take" /\ there = "lower"
    <3>1. Raised' = 0
      BY <1>2, <2>5 DEF Raised
    <3> QED
      BY <2>1, <2>2, <2>5, <3>1
  <2> QED
    BY <2>4, <2>5
<1>7. WaitBacked'
  BY <1>1, <1>2, <1>3 DEF WaitBacked, Set
<1> QED
  BY <1>4, <1>5, <1>6, <1>7 DEF MailboxInv

-----------------------------------------------------------------------------
(* A step of the radio keeps the invariant.                                *)
LEMMA RadioKeeps ==
  ASSUME MailboxInv, RadioStep
  PROVE  MailboxInv'
<1>1. CASE RadioHears \/ RadioSends \/ RadioDrops
  BY <1>1, RadioMovesKeep
<1>2. CASE RadioLowers
  <2>1. UNCHANGED <<mail, asked, misled>> /\ pc["radio"] = "lower"
    BY <1>2 DEF RadioLowers
  <2>2. CASE Load("radio")
    BY <2>1, <2>2, LoadKeeps DEF Threads
  <2>3. CASE Store("radio", "waiting_wsa", 0, "send")
    BY <2>1, <2>3, RadioStoreKeeps
  <2> QED
    BY <1>2, <2>2, <2>3 DEF RadioLowers, Assign
<1>3. CASE RadioRaises
  <2>1. UNCHANGED <<mail, asked, misled>> /\ pc["radio"] = "raise"
    BY <1>3 DEF RadioRaises
  <2>2. CASE Load("radio")
    BY <2>1, <2>2, LoadKeeps DEF Threads
  <2>3. CASE Store("radio", "recv_wsa", 1, "idle")
    BY <2>1, <2>3, RadioStoreKeeps
  <2> QED
    BY <1>3, <2>2, <2>3 DEF RadioRaises, Assign
<1> QED
  BY <1>1, <1>2, <1>3 DEF RadioStep

(* A step of the loop keeps the invariant.                                 *)
LEMMA LoopKeeps ==
  ASSUME MailboxInv, LoopStep
  PROVE  MailboxInv'
<1>1. MailboxTypeOK /\ RegsFit /\ MailBacked /\ WaitBacked
  BY DEF MailboxInv
<1>2. /\ asked \in BOOLEAN /\ misled \in BOOLEAN /\ mail \in 0 .. QMax
      /\ pc["radio"] \in RadioPcs /\ mail \in Nat
  BY <1>1 DEF MailboxTypeOK
<1>3. ASSUME NEW f \in Fields, NEW v \in {0, 1}, NEW there \in LoopPcs,
             Assign("loop", f, v, there), UNCHANGED <<mail, asked, misled>>,
             ~(Store("loop", f, v, there))
      PROVE  MailboxInv'
  BY <1>3, LoadKeeps DEF Assign, Threads
<1>4. CASE LoopTests
  <2>1. PICK there \in {"take", "command"} :
          /\ Goto("loop", there)
          /\ there = "take" <=> Set("recv_wsa")
    BY <1>4 DEF LoopTests
  <2>2. /\ Quiet /\ mail' = mail /\ asked' = asked /\ pc["loop"] = "top"
        /\ misled' = (misled \/ (Set("recv_wsa") /\ "recv_wsa" \in undone))
    BY <1>4 DEF LoopTests
  <2>3. misled' \in BOOLEAN /\ (misled => misled')
    BY <2>2
  <2>4. ~misled' /\ there = "take" =>
          Set("recv_wsa") /\ "recv_wsa" \notin undone
    BY <2>1, <2>2
  <2>5. "waiting_regreply" \notin undone => ~Set("waiting_regreply")
    BY <1>1, <2>2 DEF WaitBacked
  <2>6. there \in LoopPcs
    BY DEF LoopPcs
  <2> QED
    BY <1>2, <2>1, <2>2, <2>3, <2>4, <2>5, <2>6, LoopMovesKeep
<1>5. CASE LoopTakes
  <2>1. /\ Quiet /\ mail' = mail - 1 /\ asked' = asked /\ misled' = misled
        /\ Goto("loop", "lower") /\ pc["loop"] = "take" /\ mail > 0
    BY <1>5 DEF LoopTakes
  <2>2. mail' \in 0 .. QMax
    BY <1>2, <2>1, QMaxAssumption
  <2>3. "waiting_regreply" \notin undone => ~Set("waiting_regreply")
    BY <1>1, <2>1 DEF WaitBacked
  <2>4. "lower" \in LoopPcs
    BY DEF LoopPcs
  <2> QED
    BY <1>2, <2>1, <2>2, <2>3, <2>4, LoopMovesKeep
<1>6. CASE LoopLowers \/ LoopRearms \/ LoopArms
  <2>1. PICK f \in {"recv_wsa", "waiting_wsa"}, v \in {0, 1},
             there \in {"rearm", "ask", "test"} :
          /\ Assign("loop", f, v, there)
          /\ f = "recv_wsa" <=> pc["loop"] = "lower"
          /\ f = "recv_wsa" => v = 0
          /\ pc["loop"] = "arm" => there = "test"
    BY <1>6 DEF LoopLowers, LoopRearms, LoopArms
  <2>2. /\ UNCHANGED <<mail, asked, misled>>
        /\ pc["loop"] \in {"lower", "rearm", "arm"}
    BY <1>6 DEF LoopLowers, LoopRearms, LoopArms
  <2>3. f \in Fields /\ there \in LoopPcs
    BY DEF Fields, LoopPcs
  <2>4. CASE Store("loop", f, v, there)
    BY <1>2, <2>1, <2>2, <2>3, <2>4, LoopStoreKeeps
  <2> QED
    BY <1>3, <2>1, <2>2, <2>3, <2>4
<1>7. CASE LoopAsks
  <2>1. PICK there \in {"mark", "unmark"} : Goto("loop", there)
    BY <1>7 DEF LoopAsks
  <2>2. /\ Quiet /\ UNCHANGED <<mail, misled>> /\ asked' = TRUE
        /\ pc["loop"] = "ask" /\ ~Set("waiting_regreply")
    BY <1>7 DEF LoopAsks
  <2>3. there \in LoopPcs
    BY DEF LoopPcs
  <2> QED
    BY <1>2, <2>1, <2>2, <2>3, LoopMovesKeep
<1>8. CASE LoopAsksNone
  <2>1. /\ Quiet /\ UNCHANGED <<mail, asked, misled>>
        /\ pc["loop"] = "ask" /\ Goto("loop", "command")
    BY <1>8 DEF LoopAsksNone
  <2>2. "waiting_regreply" \notin undone => ~Set("waiting_regreply")
    BY <1>1, <2>1 DEF WaitBacked
  <2>3. "command" \in LoopPcs
    BY DEF LoopPcs
  <2> QED
    BY <1>2, <2>1, <2>2, <2>3, LoopMovesKeep
<1>9. CASE LoopMarks
  <2>1. PICK there \in {"command", "arm"} :
          Assign("loop", "waiting_regreply", 1, there)
    BY <1>9 DEF LoopMarks
  <2>2. /\ UNCHANGED <<mail, asked, misled>>
        /\ pc["loop"] \in {"mark", "remark"} /\ asked
    BY <1>1, <1>9 DEF LoopMarks, WaitBacked
  <2>3. "waiting_regreply" \in Fields /\ there \in LoopPcs
    BY DEF Fields, LoopPcs
  <2>4. CASE Store("loop", "waiting_regreply", 1, there)
    BY <1>2, <2>1, <2>2, <2>3, <2>4, LoopStoreKeeps
  <2> QED
    BY <1>3, <2>1, <2>2, <2>3, <2>4
<1>10. CASE LoopUnmarks \/ LoopReplied \/ LoopTimesOut
  <2>1. PICK there \in {"command", "again", "end"} :
          /\ Assign("loop", "waiting_regreply", 0, there)
          /\ asked' = asked \/ asked' = (asked /\ pc'["loop"] # there)
    BY <1>10 DEF LoopUnmarks, LoopReplied, LoopTimesOut
  <2>2. /\ UNCHANGED <<mail, misled>> /\ asked' \in BOOLEAN
        /\ pc["loop"] \in {"unmark", "replied", "timed_out"}
    BY <1>2, <1>10 DEF LoopUnmarks, LoopReplied, LoopTimesOut
  <2>3. /\ "waiting_regreply" \in Fields /\ there \in LoopPcs
        /\ pc["loop"] # there
    BY <2>2 DEF Fields, LoopPcs
  <2>4. CASE Store("loop", "waiting_regreply", 0, there)
    BY <1>2, <2>1, <2>2, <2>3, <2>4, LoopStoreKeeps
  <2>5. CASE Load("loop")
    <3>1. pc'["loop"] # there
      BY <2>3, <2>5 DEF Load
    <3>2. asked' = asked
      BY <1>2, <2>1, <3>1
    <3> QED
      BY <2>2, <2>5, <3>2, LoadKeeps DEF Threads
  <2> QED
    BY <2>1, <2>4, <2>5 DEF Assign
<1>11. CASE LoopCommands
  <2>1. PICK auto \in BOOLEAN :
          /\ asked' \in
               IF Set("waiting_regreply") THEN {asked} ELSE {asked, TRUE}
          /\ \E there \in
                 IF asked' /\ (auto \/ ~Set("waiting_regreply"))
                 THEN {"remark", "arm"}
                 ELSE IF ~asked' /\ auto THEN {"spin", "arm"} ELSE {"arm"} :
               Goto("loop", there)
    BY <1>11 DEF LoopCommands
  <2>2. asked' \in BOOLEAN /\ (Set("waiting_regreply") => asked' = asked)
    BY <1>2, <2>1
  <2>3. PICK there \in {"remark", "arm", "spin"} :
          /\ Goto("loop", there)
          /\ there = "remark" => asked'
          /\ there = "spin" => ~asked'
    BY <2>1, <2>2
  <2>4. /\ Quiet /\ UNCHANGED <<mail, misled>> /\ pc["loop"] = "command"
    BY <1>11 DEF LoopCommands
  <2>5. "waiting_regreply" \notin undone /\ Set("waiting_regreply") => asked
    BY <1>1 DEF WaitBacked
  <2>6. there \in LoopPcs
    BY DEF LoopPcs
  <2> QED
    BY <1>2, <2>2, <2>3, <2>4, <2>5, <2>6, LoopMovesKeep
<1>12. CASE LoopSpins
  <2>1. PICK there \in {"remark", "arm"} : Goto("loop", there)
    BY <1>12 DEF LoopSpins
  <2>2. /\ Quiet /\ UNCHANGED <<mail, misled>> /\ asked' = TRUE
        /\ pc["loop"] = "spin" /\ ~Set("waiting_regreply")
    BY <1>12 DEF LoopSpins
  <2>3. there \in LoopPcs
    BY DEF LoopPcs
  <2> QED
    BY <1>2, <2>1, <2>2, <2>3, LoopMovesKeep
<1>13. CASE LoopTestsReply
  <2>1. PICK there \in {"await", "end"} :
          /\ Goto("loop", there)
          /\ there = "await" <=> Set("waiting_regreply")
    BY <1>13 DEF LoopTestsReply
  <2>2. /\ Quiet /\ UNCHANGED <<mail, asked, misled>>
        /\ pc["loop"] \in {"test", "again"}
    BY <1>13 DEF LoopTestsReply
  <2>3. "waiting_regreply" \notin undone /\ Set("waiting_regreply") => asked
    BY <1>1 DEF WaitBacked
  <2>4. there \in LoopPcs
    BY DEF LoopPcs
  <2> QED
    BY <1>2, <2>1, <2>2, <2>3, <2>4, LoopMovesKeep
<1>14. CASE \E outcome \in {"replied", "timed_out", "again"} :
              LoopAwaits(outcome)
  <2>1. PICK there \in {"replied", "timed_out", "again"} : Goto("loop", there)
    BY <1>14 DEF LoopAwaits
  <2>2. /\ Quiet /\ UNCHANGED <<mail, asked, misled>> /\ pc["loop"] = "await"
    BY <1>14 DEF LoopAwaits
  <2>3. "waiting_regreply" \notin undone => asked
    BY <1>1, <2>2 DEF WaitBacked
  <2>4. there \in LoopPcs
    BY DEF LoopPcs
  <2> QED
    BY <1>2, <2>1, <2>2, <2>3, <2>4, LoopMovesKeep
<1>15. CASE LoopEnds
  <2>1. /\ Quiet /\ UNCHANGED <<mail, misled>> /\ asked' = FALSE
        /\ pc["loop"] = "end" /\ Goto("loop", "top")
    BY <1>15 DEF LoopEnds
  <2>2. "waiting_regreply" \notin undone => ~Set("waiting_regreply")
    BY <1>1, <2>1 DEF WaitBacked
  <2>3. "top" \in LoopPcs
    BY DEF LoopPcs
  <2> QED
    BY <1>2, <2>1, <2>2, <2>3, LoopMovesKeep
<1> QED
  BY <1>4, <1>5, <1>6, <1>7, <1>8, <1>9, <1>10, <1>11, <1>12, <1>13, <1>14,
     <1>15 DEF LoopStep

-----------------------------------------------------------------------------
(* The registers, the datagrams behind the raises and the requests behind  *)
(* the waits, together with the types, are an invariant of the mailbox.    *)
THEOREM MailboxInvariant == MailboxSpec => []MailboxInv
<1>1. MailboxInv /\ [MailboxNext]_mbVars => MailboxInv'
  <2> SUFFICES ASSUME MailboxInv, [MailboxNext]_mbVars
               PROVE  MailboxInv'
    OBVIOUS
  <2>1. CASE UNCHANGED mbVars
    BY <2>1
    DEF mbVars, MailboxInv, MailboxTypeOK, RegsFit, MailBacked, WaitBacked,
        Raised, Raising, Set
  <2> QED
    BY <2>1, RadioKeeps, LoopKeeps DEF MailboxNext
<1> QED
  BY <1>1, MailboxInvInit, PTL DEF MailboxSpec

(* The state keeps its types.                                              *)
THEOREM MailboxTypeCorrect == MailboxSpec => []MailboxTypeOK
<1>1. MailboxInv => MailboxTypeOK
  BY DEF MailboxInv
<1> QED
  BY <1>1, MailboxInvariant, PTL

(* The loop calls recvfrom on an empty socket only after it has read a     *)
(* recv_wsa that was brought back, whatever the socket holds and however   *)
(* the accesses to the byte interleave.                                    *)
THEOREM MailboxReadAlwaysFinds == MailboxSpec => []MailboxReadFinds
<1>1. MailboxInv => MailboxReadFinds
  <2> SUFFICES ASSUME MailboxInv, pc["loop"] = "take", mail = 0, ~misled
               PROVE  FALSE
    BY DEF MailboxReadFinds, MailboxInv, MailboxTypeOK
  <2>1. 0 >= Raised + Raising /\ Raised = 1
    BY DEF MailboxInv, MailBacked, Raised
  <2> QED
    BY <2>1 DEF Raising
<1> QED
  BY <1>1, MailboxInvariant, PTL

(* The loop awaits a reply without knowing whom it asked, or spins for one,*)
(* only after a store of the radio's thread that has changed               *)
(* waiting_regreply since the loop last assigned it.                       *)
THEOREM MailboxWaitAlwaysHasTarget == MailboxSpec => []MailboxWaitHasTarget
<1>1. MailboxInv => MailboxWaitHasTarget
  BY DEF MailboxInv, WaitBacked, MailboxWaitHasTarget
<1> QED
  BY <1>1, MailboxInvariant, PTL

=============================================================================
