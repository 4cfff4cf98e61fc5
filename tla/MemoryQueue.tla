----------------------------- MODULE MemoryQueue ----------------------------
(***************************************************************************)
(* The memory that the queue of the OTA relay server lives in: one block,  *)
(* a part of it handed out as the area of the queue, the messages packed   *)
(* at its beginning, and beside it the list of their sizes.  Two threads   *)
(* push; one of them also pops.  The availability of the room is looked at *)
(* under the mutex, and the data are stored under it, one after the other. *)
(*                                                                         *)
(* Data_Pointer_List is written and moved but never read, and left out.    *)
(* A cell is a byte; Area, Block and ShiftLen are scaled down together.    *)
(***************************************************************************)
EXTENDS Integers, Sequences

CONSTANTS
  Pushers,     \* the threads that push
  Popper,      \* the one of them that pops too
  Sizes,       \* the lengths of the messages
  Area,        \* p_end - p_start
  Block,       \* Memroy_Full_Size
  ShiftLen,    \* entries that the memmove of a list moves
  MaxPushes    \* bound: messages that are offered

ASSUME MemoryThreadsAssumption == Popper \in Pushers
ASSUME MemorySizesAssumption ==
  /\ Sizes \subseteq Nat \ {0} /\ Area \in Nat /\ Block \in Nat
  /\ Area < Block /\ ShiftLen \in Nat /\ MaxPushes \in Nat

Cells == 0 .. Block - 1
Entries == 0 .. Block

VARIABLES
  bytes,     \* the block: in each cell which byte of which message it holds
  now,       \* p_now - p_start
  sizeList,  \* Data_Size_List
  count,     \* *Data_Count
  offer,     \* per pusher, the message it has found room for, or <<>>
  raced,     \* per pusher, whether another one stored since it looked
  out,       \* the message popped last
  offered,   \* history: messages offered so far
  overran,   \* history: a message was stored behind the area
  dropped,   \* history: an entry of the list was lost in a shift
  ruined     \* memory outside of the block was touched: the program is gone

memoryVars == <<bytes, now, sizeList, count, offer, raced, out, offered,
                overran, dropped, ruined>>

MemoryInit ==
  /\ bytes = [k \in Cells |-> <<0, 0>>] /\ now = 0
  /\ sizeList = [n \in Entries |-> 0] /\ count = 0
  /\ offer = [p \in Pushers |-> <<>>] /\ raced = [p \in Pushers |-> FALSE]
  /\ out = <<>> /\ offered = 0
  /\ overran = FALSE /\ dropped = FALSE /\ ruined = FALSE

Message(id, size) == [k \in 1 .. size |-> <<id, k>>]

\* Fault: the room is too small by one.
Available_Less(size) == now > Area \/ Area - now >= size - 1

(* The difference of the pointers is compared as an unsigned number: behind*)
(* the end of the area there is always room.                               *)
Available(size) == now > Area \/ Area - now >= size

(* The first half of a push.                                               *)
Looks(p, size) ==
  /\ ~ruined /\ offer[p] = <<>> /\ offered < MaxPushes
  /\ offered' = offered + 1
  /\ offer' = [offer EXCEPT ![p] = IF Available(size)
                                   THEN Message(offered + 1, size) ELSE <<>>]
  /\ raced' = [raced EXCEPT ![p] = FALSE]
  /\ UNCHANGED <<bytes, now, sizeList, count, out, overran, dropped, ruined>>

Listed(size) == [sizeList EXCEPT ![count] = size]

(* The second half.                                                        *)
Stores(p) ==
  /\ ~ruined /\ offer[p] # <<>>
  /\ LET size == Len(offer[p]) IN
       IF now < 0 \/ now + size > Block
       THEN /\ ruined' = TRUE
            /\ UNCHANGED <<bytes, now, sizeList, count, overran>>
       ELSE /\ bytes' = [k \in Cells |-> IF k >= now /\ k < now + size
                                         THEN offer[p][k - now + 1]
                                         ELSE bytes[k]]
            /\ sizeList' = Listed(size) /\ count' = count + 1
            /\ now' = now + size
            /\ overran' = (overran \/ now + size > Area)
            /\ UNCHANGED ruined
  /\ offer' = [offer EXCEPT ![p] = <<>>]
  /\ raced' = [q \in Pushers |-> raced[q] \/ q # p]
  /\ UNCHANGED <<out, offered, dropped>>

\* Fault: the bytes are moved over the whole block but for the last one.
MovedDown_Short(size) ==
  [k \in Cells |-> IF k < Area - size - 1 THEN bytes[k + size] ELSE bytes[k]]

(* The area is moved to its beginning; what lies behind it is not.         *)
MovedDown(size) ==
  [k \in Cells |-> IF k < Area - size THEN bytes[k + size] ELSE bytes[k]]

\* Fault: the list of the sizes is not shifted.
ListMoved_Stays == sizeList

(* The length of the memmove is the number of the entries, not of their    *)
(* bytes: only the first ones move.                                        *)
ListMoved ==
  [n \in Entries |-> IF n < ShiftLen /\ n + 1 \in Entries
                     THEN sizeList[n + 1] ELSE sizeList[n]]

\* Fault: the count is not looked at again under the mutex.
Pops_Uncounted ==
  /\ ~ruined /\ offer[Popper] = <<>> /\ now # 0
  /\ sizeList[0] <= Area
  /\ out' = [k \in 1 .. sizeList[0] |-> bytes[k - 1]]
  /\ bytes' = MovedDown(sizeList[0])
  /\ sizeList' = ListMoved /\ count' = count - 1
  /\ now' = now - sizeList[0]
  /\ dropped' = (dropped \/ count > ShiftLen + 1)
  /\ UNCHANGED <<offer, raced, offered, overran, ruined>>

(* With nothing in the list, a pop returns a pointer that was never set.   *)
Pops ==
  /\ ~ruined /\ offer[Popper] = <<>> /\ now # 0
  /\ LET size == sizeList[0] IN
       IF count = 0 \/ size > Area
       THEN /\ ruined' = TRUE
            /\ UNCHANGED <<bytes, now, sizeList, count, out, dropped>>
       ELSE /\ out' = [k \in 1 .. size |-> bytes[k - 1]]
            /\ bytes' = MovedDown(size)
            /\ sizeList' = ListMoved /\ count' = count - 1
            /\ now' = now - size
            /\ dropped' = (dropped \/ count > ShiftLen + 1)
            /\ UNCHANGED ruined
  /\ UNCHANGED <<offer, raced, offered, overran>>

MemoryNext ==
  \/ \E p \in Pushers : Stores(p) \/ \E size \in Sizes : Looks(p, size)
  \/ Pops

MemorySpec == MemoryInit /\ [][MemoryNext]_memoryVars

-----------------------------------------------------------------------------
MemoryTypeOK ==
  /\ bytes \in [Cells -> (0 .. MaxPushes) \X Nat]
  /\ now \in Int /\ count \in Nat /\ offered \in 0 .. MaxPushes
  /\ sizeList \in [Entries -> Sizes \cup {0}]
  /\ \A p \in Pushers :
       \/ offer[p] = <<>>
       \/ \E id \in 1 .. offered, size \in Sizes : offer[p] = Message(id, size)
  /\ raced \in [Pushers -> BOOLEAN]
  /\ overran \in BOOLEAN /\ dropped \in BOOLEAN /\ ruined \in BOOLEAN

(* The area is first overrun by a push that found room, lost the mutex to  *)
(* another push, and stored after it: one thread alone cannot overrun it.  *)
MemoryOverrunsByRace ==
  [][~overran /\ overran' =>
       \E p \in Pushers : raced[p] /\ Len(offer[p]) > 0 /\ offer'[p] = <<>>
    ]_memoryVars

(* Memory outside of the block is first touched, or an address that was    *)
(* never set, when the area was overrun before, when the list had lost an  *)
(* entry, or by a push that lost the race: not by any way of filling and   *)
(* emptying the queue with messages that fit.                              *)
MemoryRuinCaused ==
  [][~ruined /\ ruined' =>
       \/ overran \/ dropped
       \/ \E p \in Pushers : raced[p] /\ offer[p] # <<>> /\ offer'[p] = <<>>
    ]_memoryVars

(* The beginnings of the messages, by the list of their sizes.             *)
Begin[n \in 0 .. count] ==
  IF n = 0 THEN 0 ELSE Begin[n - 1] + sizeList[n - 1]

Inside == [n \in 1 .. count |-> [k \in 1 .. sizeList[n - 1] |->
                                   bytes[Begin[n - 1] + k - 1]]]

Broken == overran \/ dropped \/ ruined

Fifo == INSTANCE MemoryFifo WITH
  Items <- {Message(id, size) : id \in 1 .. MaxPushes, size \in Sizes},
  fifo <- IF Broken THEN <<>> ELSE Inside,
  popped <- out,
  broken <- Broken

(* As long as no push overran the area and no more messages were queued    *)
(* than the list can shift, the memory is a queue of whole messages:       *)
(* every pop returns the oldest one, as it was pushed.                     *)
MemoryIsFifo == Fifo!FifoSpec
=============================================================================
