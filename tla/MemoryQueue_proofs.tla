------------------------- MODULE MemoryQueue_proofs -------------------------
(***************************************************************************)
(* The memory of the relay server's queue, for any threads, message sizes, *)
(* area and block: its types, that only a race overruns the area, and that *)
(* until then it is a queue of whole messages.                             *)
(***************************************************************************)
EXTENDS MemoryQueue, WellFoundedInduction, TLAPS

LEMMA MessageLength ==
  ASSUME NEW id, NEW size \in Nat
  PROVE  /\ Len(Message(id, size)) = size
         /\ \A k \in 1 .. size : Message(id, size)[k] = <<id, k>>
         /\ Message(id, size) \in Seq({<<id, k>> : k \in 1 .. size})
BY DEF Message

(* The types, and that offer is a function of the threads.                 *)
TypeInv ==
  /\ MemoryTypeOK
  /\ offer \in [Pushers -> {offer[p] : p \in Pushers}]

LEMMA TypeInvInit == MemoryInit => TypeInv
<1> SUFFICES ASSUME MemoryInit PROVE TypeInv
  OBVIOUS
<1>1. bytes \in [Cells -> (0 .. MaxPushes) \X Nat]
  BY MemorySizesAssumption DEF MemoryInit
<1>2. /\ now \in Int /\ count \in Nat /\ offered \in 0 .. MaxPushes
      /\ sizeList \in [Entries -> Sizes \cup {0}]
      /\ raced \in [Pushers -> BOOLEAN]
  BY MemorySizesAssumption DEF MemoryInit
<1>3. overran \in BOOLEAN /\ dropped \in BOOLEAN /\ ruined \in BOOLEAN
  BY DEF MemoryInit
<1>4. /\ \A p \in Pushers : offer[p] = <<>>
      /\ offer \in [Pushers -> {offer[p] : p \in Pushers}]
  BY DEF MemoryInit
<1> QED
  BY <1>1, <1>2, <1>3, <1>4 DEF TypeInv, MemoryTypeOK

(* What a thread has found room for is one of the messages.                *)
LEMMA OfferIs ==
  ASSUME TypeInv, NEW p \in Pushers, offer[p] # <<>>
  PROVE  \E id \in 1 .. offered, size \in Sizes :
           /\ offer[p] = Message(id, size) /\ Len(offer[p]) = size
           /\ size \in Nat /\ size > 0 /\ id \in 0 .. MaxPushes
           /\ \A k \in 1 .. size : offer[p][k] = <<id, k>>
<1>1. PICK id \in 1 .. offered, size \in Sizes : offer[p] = Message(id, size)
  BY DEF TypeInv, MemoryTypeOK
<1>2. size \in Nat /\ size > 0
  BY MemorySizesAssumption
<1>3. id \in 0 .. MaxPushes
  <2>1. offered \in 0 .. MaxPushes
    BY DEF TypeInv, MemoryTypeOK
  <2> QED
    BY <2>1, MemorySizesAssumption
<1>4. Len(offer[p]) = size /\ \A k \in 1 .. size : offer[p][k] = <<id, k>>
  BY <1>1, <1>2, MessageLength
<1> QED
  BY <1>1, <1>2, <1>3, <1>4

LEMMA LooksTypes ==
  ASSUME TypeInv, NEW p \in Pushers, NEW size \in Sizes, Looks(p, size)
  PROVE  TypeInv'
<1> USE MemorySizesAssumption DEF TypeInv, MemoryTypeOK
<1>1. offered' = offered + 1 /\ offered' \in 0 .. MaxPushes
  BY DEF Looks
<1>2. \A q \in Pushers :
        offer'[q] = IF q # p THEN offer[q]
                    ELSE IF Available(size) THEN Message(offered + 1, size)
                                            ELSE <<>>
  BY DEF Looks
<1>3. ASSUME NEW q \in Pushers
      PROVE  \/ offer'[q] = <<>>
             \/ \E id \in 1 .. offered', n \in Sizes :
                  offer'[q] = Message(id, n)
  <2>1. CASE q = p
    <3>1. offered + 1 \in 1 .. offered'
      BY <1>1
    <3> QED
      BY <1>2, <2>1, <3>1
  <2>2. CASE q # p
    <3>1. 1 .. offered \subseteq 1 .. offered'
      BY <1>1
    <3> QED
      BY <1>2, <2>2, <3>1
  <2> QED
    BY <2>1, <2>2
<1>4. offer' \in [Pushers -> {offer'[q] : q \in Pushers}]
  BY DEF Looks
<1>5. raced' \in [Pushers -> BOOLEAN]
  BY DEF Looks
<1>6. UNCHANGED <<bytes, now, sizeList, count, overran, dropped, ruined>>
  BY DEF Looks
<1> QED
  BY <1>1, <1>3, <1>4, <1>5, <1>6

LEMMA StoresTypes ==
  ASSUME TypeInv, NEW p \in Pushers, Stores(p)
  PROVE  TypeInv'
<1>1. PICK id \in 1 .. offered, size \in Sizes :
        /\ offer[p] = Message(id, size) /\ Len(offer[p]) = size
        /\ size \in Nat /\ size > 0 /\ id \in 0 .. MaxPushes
        /\ \A k \in 1 .. size : offer[p][k] = <<id, k>>
  BY OfferIs DEF Stores
<1>0. now \in Int /\ count \in Nat
      /\ sizeList \in [Entries -> Sizes \cup {0}]
  BY DEF TypeInv, MemoryTypeOK
<1>2. /\ \A q \in Pushers : offer'[q] = IF q = p THEN <<>> ELSE offer[q]
      /\ offer' \in [Pushers -> {offer'[q] : q \in Pushers}]
      /\ offered' = offered /\ dropped' = dropped
  BY DEF Stores, TypeInv, MemoryTypeOK
<1>3. raced' \in [Pushers -> BOOLEAN]
  <2>1. /\ raced' = [q \in Pushers |-> raced[q] \/ q # p]
        /\ raced \in [Pushers -> BOOLEAN]
    BY DEF Stores, TypeInv, MemoryTypeOK
  <2> QED
    BY <2>1
<1>4. bytes' \in [Cells -> (0 .. MaxPushes) \X Nat]
  <2>1. CASE bytes' = bytes
    BY <2>1 DEF TypeInv, MemoryTypeOK
  <2>2. CASE bytes' = [k \in Cells |-> IF k >= now /\ k < now + size
                                       THEN offer[p][k - now + 1]
                                       ELSE bytes[k]]
    <3>1. ASSUME NEW k \in Cells, k >= now, k < now + size
          PROVE  offer[p][k - now + 1] \in (0 .. MaxPushes) \X Nat
      <4>1. k \in Int
        BY <3>1, MemorySizesAssumption DEF Cells
      <4>2. k - now + 1 \in 1 .. size
        BY <1>0, <1>1, <3>1, <4>1
      <4>3. offer[p][k - now + 1] = <<id, k - now + 1>>
        BY <1>1, <4>2
      <4> QED
        BY <1>1, <4>2, <4>3
    <3>2. bytes \in [Cells -> (0 .. MaxPushes) \X Nat]
      BY DEF TypeInv, MemoryTypeOK
    <3> QED
      BY <2>2, <3>1, <3>2
  <2> QED
    BY <1>1, <2>1, <2>2 DEF Stores
<1>5. /\ now' \in Int /\ count' \in Nat
      /\ sizeList' \in [Entries -> Sizes \cup {0}]
  <2>1. CASE UNCHANGED <<now, count, sizeList>>
    BY <1>0, <2>1
  <2>2. CASE /\ now' = now + size /\ count' = count + 1
             /\ sizeList' = Listed(size)
    <3>1. size \in Nat /\ size \in Sizes
      BY <1>1
    <3>2. now' \in Int /\ count' \in Nat
      BY <1>0, <2>2, <3>1
    <3>3. [sizeList EXCEPT ![count] = size] \in [Entries -> Sizes \cup {0}]
      BY <1>0, <3>1
    <3> QED
      BY <2>2, <3>2, <3>3 DEF Listed
  <2>3. \/ UNCHANGED <<now, count, sizeList>>
        \/ /\ now' = now + Len(offer[p]) /\ count' = count + 1
           /\ sizeList' = Listed(Len(offer[p]))
    BY Zenon DEF Stores
  <2> QED
    BY <1>1, <2>1, <2>2, <2>3
<1>6. overran' \in BOOLEAN /\ ruined' \in BOOLEAN
  BY DEF Stores, TypeInv, MemoryTypeOK
<1> QED
  BY <1>2, <1>3, <1>4, <1>5, <1>6 DEF TypeInv, MemoryTypeOK

LEMMA PopsTypes ==
  ASSUME TypeInv, Pops
  PROVE  TypeInv'
<1> USE MemorySizesAssumption DEF TypeInv, MemoryTypeOK
<1>1. sizeList[0] \in Nat
  BY DEF Entries
<1>2. bytes' \in [Cells -> (0 .. MaxPushes) \X Nat]
  <2>1. CASE bytes' = bytes
    BY <2>1
  <2>2. CASE bytes' = MovedDown(sizeList[0])
    <3>1. ASSUME NEW k \in Cells, k < Area - sizeList[0]
          PROVE  k + sizeList[0] \in Cells
      BY <1>1, <3>1 DEF Cells
    <3> QED
      BY <2>2, <3>1 DEF MovedDown
  <2> QED
    BY <2>1, <2>2 DEF Pops
<1>3. now' \in Int /\ count' \in Nat
  BY <1>1 DEF Pops
<1>4. sizeList' \in [Entries -> Sizes \cup {0}]
  BY DEF Pops, ListMoved, Entries
<1>5. dropped' \in BOOLEAN /\ ruined' \in BOOLEAN
  BY DEF Pops
<1>6. UNCHANGED <<offer, raced, offered, overran>>
  BY DEF Pops
<1> QED
  BY <1>2, <1>3, <1>4, <1>5, <1>6

THEOREM MemoryTypeInvariant == MemorySpec => []TypeInv
<1>1. TypeInv /\ [MemoryNext]_memoryVars => TypeInv'
  <2>1. TypeInv /\ UNCHANGED memoryVars => TypeInv'
    BY DEF TypeInv, MemoryTypeOK, memoryVars
  <2> QED
    BY <2>1, LooksTypes, StoresTypes, PopsTypes DEF MemoryNext
<1> QED
  BY <1>1, TypeInvInit, PTL DEF MemorySpec

(* The state of the memory keeps its types, also after it was overrun.     *)
THEOREM MemoryTypeCorrect == MemorySpec => []MemoryTypeOK
<1>1. TypeInv => MemoryTypeOK
  BY DEF TypeInv
<1> QED
  BY <1>1, MemoryTypeInvariant, PTL

-----------------------------------------------------------------------------
(***************************************************************************)
(* What was looked at under the mutex still holds when the data are stored *)
(* if nobody has stored in between: pops only make room.                   *)
(***************************************************************************)
RoomInv ==
  ~overran =>
    /\ now <= Area
    /\ \A p \in Pushers :
         offer[p] # <<>> /\ ~raced[p] => now + Len(offer[p]) <= Area

(* A push overruns the area only if another one came between.              *)
OverrunRaced ==
  ~overran /\ overran' =>
    \E p \in Pushers : raced[p] /\ Len(offer[p]) > 0 /\ offer'[p] = <<>>

LEMMA RoomInvKept ==
  ASSUME TypeInv, RoomInv, [MemoryNext]_memoryVars
  PROVE  RoomInv' /\ OverrunRaced
<1> USE MemorySizesAssumption
<1>1. now \in Int /\ Area \in Nat
  BY DEF TypeInv, MemoryTypeOK
<1>2. CASE UNCHANGED memoryVars
  BY <1>2 DEF memoryVars, RoomInv, OverrunRaced
<1>3. ASSUME NEW p \in Pushers, NEW size \in Sizes, Looks(p, size)
      PROVE  RoomInv' /\ OverrunRaced
  <2>1. UNCHANGED <<now, overran>> /\ size \in Nat
    BY <1>3 DEF Looks
  <2>2. ASSUME ~overran, NEW q \in Pushers, offer'[q] # <<>>, ~raced'[q]
        PROVE  now + Len(offer'[q]) <= Area
    <3>1. CASE q = p
      <4>1. offer'[q] = Message(offered + 1, size) /\ Available(size)
        BY <1>3, <2>2, <3>1 DEF Looks, TypeInv
      <4>2. Len(offer'[q]) = size
        BY <2>1, <4>1, MessageLength
      <4> QED
        BY <1>1, <2>1, <2>2, <4>1, <4>2 DEF Available, RoomInv
    <3>2. CASE q # p
      <4>1. offer'[q] = offer[q] /\ raced'[q] = raced[q]
        BY <1>3, <3>2 DEF Looks, TypeInv, MemoryTypeOK
      <4> QED
        BY <2>2, <4>1 DEF RoomInv
    <3> QED
      BY <3>1, <3>2
  <2> QED
    BY <2>1, <2>2 DEF RoomInv, OverrunRaced
<1>4. ASSUME NEW p \in Pushers, Stores(p)
      PROVE  RoomInv' /\ OverrunRaced
  <2>1. PICK size \in Sizes :
          Len(offer[p]) = size /\ size \in Nat /\ size > 0
    BY <1>4, OfferIs DEF Stores
  <2>2. /\ offer[p] # <<>> /\ offer'[p] = <<>>
        /\ \A q \in Pushers : q # p => raced'[q]
    BY <1>4 DEF Stores, TypeInv
  <2>3. \/ UNCHANGED <<now, overran>>
        \/ now' = now + size /\ (overran' <=> overran \/ now + size > Area)
    BY <1>4, <2>1 DEF Stores
  <2>4. RoomInv'
    <3>1. ASSUME ~overran' PROVE now' <= Area
      BY <1>1, <2>1, <2>3, <3>1 DEF RoomInv
    <3> QED
      BY <2>2, <3>1 DEF RoomInv
  <2>5. OverrunRaced
    <3>1. ASSUME ~overran, overran' PROVE raced[p]
      <4>1. now + size > Area
        BY <2>3, <3>1
      <4>2. offer[p] # <<>> /\ ~raced[p] => now + Len(offer[p]) <= Area
        BY <3>1 DEF RoomInv
      <4> QED
        BY <1>1, <2>1, <2>2, <4>1, <4>2
    <3> QED
      BY <2>1, <2>2, <3>1 DEF OverrunRaced
  <2> QED
    BY <2>4, <2>5
<1>5. CASE Pops
  <2>1. UNCHANGED <<offer, raced, overran>>
    BY <1>5 DEF Pops
  <2>2. sizeList[0] \in Nat
    BY DEF TypeInv, MemoryTypeOK, Entries
  <2>3. now' \in Int /\ now' <= now
    BY <1>1, <1>5, <2>2 DEF Pops
  <2>4. ASSUME NEW p \in Pushers, offer[p] # <<>> PROVE Len(offer[p]) \in Nat
    BY <2>4, OfferIs
  <2> QED
    BY <1>1, <2>1, <2>3, <2>4 DEF RoomInv, OverrunRaced
<1> QED
  BY <1>2, <1>3, <1>4, <1>5 DEF MemoryNext

(* The area is first overrun by a push that lost the mutex to another one  *)
(* between its look and its store, for any threads, sizes and area.        *)
THEOREM MemoryAlwaysOverrunByRace == MemorySpec => MemoryOverrunsByRace
<1>1. MemoryInit => RoomInv
  BY MemorySizesAssumption DEF MemoryInit, RoomInv
<1>2. TypeInv /\ RoomInv /\ [MemoryNext]_memoryVars => RoomInv'
  BY RoomInvKept
<1>3. TypeInv /\ RoomInv /\ [MemoryNext]_memoryVars =>
        [~overran /\ overran' =>
           \E p \in Pushers : raced[p] /\ Len(offer[p]) > 0 /\ offer'[p] = <<>>
        ]_memoryVars
  BY RoomInvKept DEF OverrunRaced
<1> QED
  BY <1>1, <1>2, <1>3, MemoryTypeInvariant, PTL
  DEF MemorySpec, MemoryOverrunsByRace
-----------------------------------------------------------------------------
(***************************************************************************)
(* The order on the natural numbers is well-founded, and that replaces an  *)
(* induction: a set that holds 0, and with each number up to N the next    *)
(* one, holds them all.                                                    *)
(***************************************************************************)
LEMMA NatHasLeast ==
  ASSUME NEW S \in SUBSET Nat, S # {}
  PROVE  \E m \in S : \A k \in S : m <= k
<1> DEFINE R == OpToRel(<, Nat)
<1>1. IsWellFoundedOn(R, Nat)
  BY NatLessThanWellFounded, Zenon
<1>2. \A k, m \in Nat : k < m => <<k, m>> \in R
  BY Zenon DEF OpToRel
<1>3. S \subseteq Nat
  OBVIOUS
<1> HIDE DEF R
<1>4. PICK m \in S : \A k \in S : ~ (<<k, m>> \in R)
  BY <1>1, <1>3, WFMin, Zenon
<1>5. \A k \in S : ~ (k < m)
  BY <1>2, <1>3, <1>4, Zenon
<1>6. \A k \in S : m <= k
  BY <1>3, <1>5
<1> QED
  BY <1>6

LEMMA UpToInduction ==
  ASSUME NEW N \in Nat, NEW T, 0 \in T,
         \A n \in 1 .. N : n - 1 \in T => n \in T
  PROVE  0 .. N \subseteq T
<1> DEFINE S == (0 .. N) \ T
<1>1. ASSUME S # {} PROVE FALSE
  <2>1. S \in SUBSET Nat
    OBVIOUS
  <2> HIDE DEF S
  <2>2. PICK m \in S : \A k \in S : m <= k
    BY <1>1, <2>1, NatHasLeast
  <2> USE DEF S
  <2>3. m \in 1 .. N /\ m \notin T
    OBVIOUS
  <2>4. m - 1 \in 0 .. N /\ ~ (m <= m - 1)
    BY <2>3
  <2>5. m - 1 \in T
    BY <2>2, <2>4
  <2> QED
    BY <2>3, <2>5
<1> QED
  BY <1>1

-----------------------------------------------------------------------------
(***************************************************************************)
(* The messages are packed: as long as nothing is broken, some function b  *)
(* gives the beginnings of the messages by the list of their sizes, from 0 *)
(* to now, and each message is a byte at least.  That b is Begin: there    *)
(* are no two such functions.                                              *)
(***************************************************************************)
Begins(b) ==
  b = [n \in 0 .. count |-> IF n = 0 THEN 0 ELSE b[n - 1] + sizeList[n - 1]]

Packed(b) ==
  /\ b \in [0 .. count -> Nat] /\ b[0] = 0 /\ b[count] = now
  /\ \A n \in 1 .. count : b[n] = b[n - 1] + sizeList[n - 1]
  /\ \A m, n \in 0 .. count : m <= n => n - m <= b[n] - b[m]

PackedInv == ~Broken => \E b : Packed(b)

(* There is only one such function.                                        *)
BeginIsPacked == \A b : count \in Nat /\ Packed(b) => Begin = b

LEMMA BeginOfPacked == BeginIsPacked
<1> SUFFICES ASSUME NEW b, count \in Nat, Packed(b)
             PROVE  Begin = b
  BY DEF BeginIsPacked
<1>1. b \in [0 .. count -> Nat] /\ b[0] = 0
      /\ \A n \in 1 .. count : b[n] = b[n - 1] + sizeList[n - 1]
  BY DEF Packed
<1>2. Begins(b)
  <2>1. ASSUME NEW n \in 0 .. count
        PROVE  b[n] = IF n = 0 THEN 0 ELSE b[n - 1] + sizeList[n - 1]
    BY <1>1
  <2> QED
    BY <1>1, <2>1 DEF Begins
<1>3. Begins(Begin)
  BY <1>2 DEF Begins, Begin
<1>4. /\ Begin = [n \in 0 .. count |-> Begin[n]]
      /\ \A n \in 0 .. count :
           Begin[n] = IF n = 0 THEN 0 ELSE Begin[n - 1] + sizeList[n - 1]
  BY <1>3, Zenon DEF Begins
<1> DEFINE T == {n \in 0 .. count : Begin[n] = b[n]}
<1>5. 0 \in T
  BY <1>1, <1>4
<1>6. ASSUME NEW n \in 1 .. count, n - 1 \in T PROVE n \in T
  <2>1. n \in 0 .. count /\ n # 0
    OBVIOUS
  <2>2. Begin[n] = Begin[n - 1] + sizeList[n - 1]
    BY <1>4, <2>1
  <2> QED
    BY <1>1, <1>6, <2>1, <2>2
<1> HIDE DEF T
<1>7. 0 .. count \subseteq T
  BY <1>5, <1>6, UpToInduction
<1> USE DEF T
<1>8. \A n \in 0 .. count : Begin[n] = b[n]
  BY <1>7
<1> QED
  BY <1>1, <1>4, <1>8

-----------------------------------------------------------------------------
(* In the area there are no more messages than bytes, so each has its      *)
(* entry in the list.                                                      *)
LEMMA PackedBounds ==
  ASSUME TypeInv, NEW b, Packed(b), now <= Area
  PROVE  /\ count \in Nat /\ now \in Nat /\ count <= now
         /\ \A n \in 0 .. count : b[n] \in Nat /\ b[n] <= now
         /\ \A n \in 0 .. count : n \in Entries
         /\ \A n \in 1 .. count : sizeList[n - 1] \in Nat \ {0}
<1>1. /\ count \in Nat /\ now \in Int /\ b \in [0 .. count -> Nat]
      /\ b[0] = 0 /\ b[count] = now
      /\ \A n \in 1 .. count : b[n] = b[n - 1] + sizeList[n - 1]
      /\ \A m, n \in 0 .. count : m <= n => n - m <= b[n] - b[m]
      /\ sizeList \in [Entries -> Sizes \cup {0}]
  BY DEF Packed, TypeInv, MemoryTypeOK
<1>2. now \in Nat /\ count <= now
  BY <1>1
<1>3. ASSUME NEW n \in 0 .. count PROVE b[n] \in Nat /\ b[n] <= now
  <2>1. b[n] \in Nat /\ count \in 0 .. count /\ n <= count
    <3>1. count \in Nat /\ b \in [0 .. count -> Nat]
      BY <1>1
    <3> QED
      BY <3>1
  <2>2. count - n <= b[count] - b[n]
    BY <1>1, <2>1
  <2> QED
    BY <1>1, <2>1, <2>2
<1>4. \A n \in 0 .. count : n \in Entries
  BY <1>2, <1>1, MemorySizesAssumption DEF Entries
<1>5. ASSUME NEW n \in 1 .. count PROVE sizeList[n - 1] \in Nat \ {0}
  <2>1. n \in 0 .. count /\ n - 1 \in 0 .. count
    BY <1>1
  <2>2. n - 1 \in Entries
    BY <1>4, <2>1
  <2>3. sizeList[n - 1] \in Nat
    <3>1. sizeList \in [Entries -> Sizes \cup {0}]
      BY <1>1
    <3>2. sizeList[n - 1] \in Sizes \cup {0}
      BY <2>2, <3>1
    <3>3. \A x \in Sizes \cup {0} : x \in Nat
      BY MemorySizesAssumption
    <3> QED
      BY <3>2, <3>3, Zenon
  <2>4. n - 1 <= n /\ n - (n - 1) = 1
    OBVIOUS
  <2>5. n - (n - 1) <= b[n] - b[n - 1]
    BY <1>1, <2>1, <2>4
  <2>6. b[n] \in Nat /\ b[n - 1] \in Nat /\ b[n] = b[n - 1] + sizeList[n - 1]
    BY <1>1, <2>1
  <2> QED
    BY <2>3, <2>4, <2>5, <2>6
<1> QED
  BY <1>1, <1>2, <1>3, <1>4, <1>5

(* A message is stored behind the others.                                  *)
LEMMA StoresPacked ==
  ASSUME TypeInv, RoomInv, NEW b, Packed(b), NEW p \in Pushers, Stores(p),
         ~Broken, ~Broken'
  PROVE  \E c : /\ Packed(c)'
                /\ c = [n \in 0 .. count + 1 |->
                          IF n <= count THEN b[n] ELSE now + Len(offer[p])]
<1>1. PICK id \in 1 .. offered, size \in Sizes :
        /\ offer[p] = Message(id, size) /\ Len(offer[p]) = size
        /\ size \in Nat /\ size > 0 /\ id \in 0 .. MaxPushes
        /\ \A k \in 1 .. size : offer[p][k] = <<id, k>>
  BY OfferIs DEF Stores
<1>2. PICK c : c = [n \in 0 .. count + 1 |->
                      IF n <= count THEN b[n] ELSE now + size]
  OBVIOUS
<1>3. now <= Area
  BY DEF RoomInv, Broken
<1>4. /\ count \in Nat /\ now \in Nat /\ count <= now
      /\ \A n \in 0 .. count : b[n] \in Nat /\ b[n] <= now
      /\ \A n \in 0 .. count : n \in Entries
  BY <1>3, PackedBounds
<1>5. /\ count' = count + 1 /\ now' = now + size
      /\ sizeList' = [sizeList EXCEPT ![count] = size]
  BY <1>1 DEF Stores, Listed, Broken
<1>6. sizeList \in [Entries -> Sizes \cup {0}]
  BY DEF TypeInv, MemoryTypeOK
<1>7. /\ b[0] = 0 /\ b[count] = now
      /\ \A n \in 1 .. count : b[n] = b[n - 1] + sizeList[n - 1]
      /\ \A m, n \in 0 .. count : m <= n => n - m <= b[n] - b[m]
  BY DEF Packed
<1>8. \A n \in 0 .. count : c[n] = b[n]
  BY <1>2, <1>4
<1>9. c[count + 1] = now + size
  BY <1>2, <1>4
<1>10. c \in [0 .. count' -> Nat] /\ c[0] = 0 /\ c[count'] = now'
  <2>1. ASSUME NEW n \in 0 .. count'
        PROVE  n \in 0 .. count + 1 /\ c[n] \in Nat
    <3>1. n \in 0 .. count \/ n = count + 1
      BY <1>4, <1>5
    <3> QED
      BY <1>1, <1>4, <1>5, <1>8, <1>9, <3>1
  <2>2. c \in [0 .. count' -> Nat]
    BY <1>2, <1>5, <2>1
  <2>3. 0 \in 0 .. count
    BY <1>4
  <2> QED
    BY <1>5, <1>7, <1>8, <1>9, <2>2, <2>3
<1>11. ASSUME NEW n \in 1 .. count'
       PROVE  c[n] = c[n - 1] + sizeList'[n - 1]
  <2>1. CASE n = count + 1
    <3>1. n - 1 = count /\ count \in 0 .. count
      BY <1>4, <2>1
    <3>2. sizeList'[count] = size
      BY <1>4, <1>5, <1>6, <3>1
    <3>3. c[count] = now
      BY <1>7, <1>8, <3>1
    <3> QED
      BY <1>9, <2>1, <3>1, <3>2, <3>3
  <2>2. CASE n # count + 1
    <3>1. n \in 1 .. count /\ n \in 0 .. count /\ n - 1 \in 0 .. count
          /\ n - 1 # count
      BY <1>4, <1>5, <2>2
    <3>2. sizeList'[n - 1] = sizeList[n - 1]
      BY <1>4, <1>5, <1>6, <3>1
    <3> QED
      BY <1>7, <1>8, <3>1, <3>2
  <2> QED
    BY <2>1, <2>2
<1>12. ASSUME NEW m \in 0 .. count', NEW n \in 0 .. count', m <= n
       PROVE  n - m <= c[n] - c[m]
  <2>1. CASE n = count + 1 /\ m # n
    <3>1. m \in 0 .. count /\ count \in 0 .. count /\ m <= count
      BY <1>4, <1>5, <2>1
    <3>2. count - m <= now - b[m] /\ b[m] \in Nat
      BY <1>4, <1>7, <3>1
    <3> QED
      BY <1>1, <1>4, <1>8, <1>9, <2>1, <3>1, <3>2
  <2>2. CASE m = n
    <3>1. c[n] \in Nat
      BY <1>10
    <3> QED
      BY <2>2, <3>1
  <2>3. CASE n # count + 1
    <3>1. m \in 0 .. count /\ n \in 0 .. count
      BY <1>4, <1>5, <1>12, <2>3
    <3> QED
      BY <1>7, <1>8, <1>12, <3>1
  <2> QED
    BY <2>1, <2>2, <2>3
<1>13. Packed(c)'
  BY <1>10, <1>11, <1>12 DEF Packed
<1> QED
  BY <1>1, <1>2, <1>13

(* The first message is taken away, and the others move to the beginning.  *)
LEMMA PopsPacked ==
  ASSUME TypeInv, RoomInv, NEW b, Packed(b), Pops, ~Broken, ~Broken'
  PROVE  \E c : /\ Packed(c)'
                /\ c = [n \in 0 .. count - 1 |-> b[n + 1] - sizeList[0]]
                /\ count > 0
<1>1. PICK c : c = [n \in 0 .. count - 1 |-> b[n + 1] - sizeList[0]]
  OBVIOUS
<1>3. now <= Area
  BY DEF RoomInv, Broken
<1>4. /\ count \in Nat /\ now \in Nat /\ count <= now
      /\ \A n \in 0 .. count : b[n] \in Nat /\ b[n] <= now
      /\ \A n \in 0 .. count : n \in Entries
      /\ \A n \in 1 .. count : sizeList[n - 1] \in Nat \ {0}
  BY <1>3, PackedBounds
<1>5. /\ count # 0 /\ count' = count - 1 /\ now' = now - sizeList[0]
      /\ sizeList' = ListMoved /\ ~ (count > ShiftLen + 1)
  BY DEF Pops, Broken
<1>6. 1 \in 1 .. count /\ 1 \in 0 .. count /\ 0 \in 0 .. count
  BY <1>4, <1>5
<1>7. /\ b[0] = 0 /\ b[count] = now
      /\ \A n \in 1 .. count : b[n] = b[n - 1] + sizeList[n - 1]
      /\ \A m, n \in 0 .. count : m <= n => n - m <= b[n] - b[m]
  BY DEF Packed
<1>8. sizeList[0] \in Nat \ {0} /\ b[1] = sizeList[0]
  <2>1. 1 - 1 = 0
    OBVIOUS
  <2>2. sizeList[0] \in Nat \ {0}
    BY <1>4, <1>6, <2>1
  <2>3. b[1] = b[0] + sizeList[0]
    BY <1>6, <1>7, <2>1
  <2> QED
    BY <1>7, <2>2, <2>3
<1>9. ASSUME NEW n \in 0 .. count'
      PROVE  /\ n + 1 \in 0 .. count /\ c[n] = b[n + 1] - sizeList[0]
             /\ c[n] \in Nat
  <2>1. n + 1 \in 0 .. count /\ n \in 0 .. count - 1
    BY <1>4, <1>5
  <2>2. c[n] = b[n + 1] - sizeList[0]
    BY <1>1, <2>1
  <2>3. (n + 1) - 1 <= b[n + 1] - b[1]
    BY <1>6, <1>7, <2>1
  <2> QED
    BY <1>4, <1>8, <2>1, <2>2, <2>3
<1>10. c \in [0 .. count' -> Nat] /\ c[0] = 0 /\ c[count'] = now'
  <2>1. c \in [0 .. count' -> Nat]
    BY <1>1, <1>5, <1>9
  <2>2. 0 \in 0 .. count' /\ count' \in 0 .. count'
    BY <1>4, <1>5
  <2>3. c[0] = b[0 + 1] - sizeList[0]
    BY <1>9, <2>2
  <2>4. c[count'] = b[count' + 1] - sizeList[0] /\ count' + 1 = count
    BY <1>4, <1>5, <1>9, <2>2
  <2> QED
    BY <1>5, <1>7, <1>8, <2>1, <2>3, <2>4
<1>11. ASSUME NEW n \in 1 .. count'
       PROVE  c[n] = c[n - 1] + sizeList'[n - 1]
  <2>1. /\ n \in 0 .. count' /\ n - 1 \in 0 .. count' /\ (n - 1) + 1 = n
        /\ n + 1 \in 1 .. count /\ n - 1 < ShiftLen
        /\ n - 1 \in 0 .. count /\ n \in 0 .. count
    BY <1>4, <1>5, MemorySizesAssumption
  <2>2. sizeList'[n - 1] = sizeList[n]
    BY <1>4, <1>5, <2>1 DEF ListMoved
  <2>3. b[n + 1] = b[n] + sizeList[n]
    <3>1. (n + 1) - 1 = n
      OBVIOUS
    <3> QED
      BY <1>7, <2>1, <3>1
  <2>4. c[n] = b[n + 1] - sizeList[0] /\ c[n - 1] = b[n] - sizeList[0]
    BY <1>9, <2>1
  <2>5. b[n] \in Nat /\ b[n + 1] \in Nat /\ sizeList[n] \in Nat
    <3>1. n + 1 \in 0 .. count /\ (n + 1) - 1 = n
      BY <1>9, <2>1
    <3> QED
      BY <1>4, <2>1, <3>1
  <2> QED
    BY <1>8, <2>2, <2>3, <2>4, <2>5
<1>12. ASSUME NEW m \in 0 .. count', NEW n \in 0 .. count', m <= n
       PROVE  n - m <= c[n] - c[m]
  <2>1. (n + 1) - (m + 1) <= b[n + 1] - b[m + 1]
    BY <1>7, <1>9, <1>12
  <2>2. b[n + 1] \in Nat /\ b[m + 1] \in Nat
    BY <1>4, <1>9
  <2> QED
    BY <1>8, <1>9, <2>1, <2>2
<1>13. Packed(c)'
  BY <1>10, <1>11, <1>12 DEF Packed
<1> QED
  BY <1>1, <1>4, <1>5, <1>13

(* What is broken stays broken.                                            *)
LEMMA BrokenStays == [MemoryNext]_memoryVars /\ ~Broken' => ~Broken
<1> SUFFICES ASSUME [MemoryNext]_memoryVars
             PROVE  (overran => overran') /\ (dropped => dropped')
                    /\ (ruined => ruined')
  BY DEF Broken
<1>1. CASE UNCHANGED memoryVars
  BY <1>1 DEF memoryVars
<1>2. ASSUME NEW p \in Pushers, NEW size \in Sizes, Looks(p, size)
      PROVE  UNCHANGED <<overran, dropped, ruined>>
  BY <1>2 DEF Looks
<1>3. ASSUME NEW p \in Pushers, Stores(p)
      PROVE  (overran => overran') /\ dropped' = dropped /\ ~ruined
  BY <1>3 DEF Stores
<1>4. ASSUME Pops
      PROVE  overran' = overran /\ (dropped => dropped') /\ ~ruined
  BY <1>4 DEF Pops
<1> QED
  BY <1>1, <1>2, <1>3, <1>4 DEF MemoryNext

LEMMA PackedInvKept ==
  ASSUME TypeInv, RoomInv, PackedInv, [MemoryNext]_memoryVars
  PROVE  PackedInv'
<1> SUFFICES ASSUME ~Broken' PROVE \E c : Packed(c)'
  BY DEF PackedInv
<1>1. ~Broken
  BY BrokenStays
<1>2. PICK b : Packed(b)
  BY <1>1 DEF PackedInv
<1>3. ASSUME UNCHANGED <<now, sizeList, count>> PROVE Packed(b)'
  BY <1>2, <1>3 DEF Packed
<1>4. CASE UNCHANGED memoryVars
  BY <1>3, <1>4 DEF memoryVars
<1>5. ASSUME NEW p \in Pushers, NEW size \in Sizes, Looks(p, size)
      PROVE  \E c : Packed(c)'
  BY <1>3, <1>5 DEF Looks
<1>6. ASSUME NEW p \in Pushers, Stores(p) PROVE \E c : Packed(c)'
  BY <1>1, <1>2, <1>6, StoresPacked
<1>7. CASE Pops
  BY <1>1, <1>2, <1>7, PopsPacked
<1> QED
  BY <1>4, <1>5, <1>6, <1>7 DEF MemoryNext

LEMMA PackedInvInit == MemoryInit => PackedInv
<1> SUFFICES ASSUME MemoryInit PROVE \E b : Packed(b)
  BY DEF PackedInv
<1>1. count = 0 /\ now = 0
  BY DEF MemoryInit
<1> DEFINE b == [n \in 0 .. 0 |-> 0]
<1>2. Packed(b)
  BY <1>1 DEF Packed
<1> QED
  BY <1>2

THEOREM MemoryInvariant == MemorySpec => [](TypeInv /\ RoomInv /\ PackedInv)
<1>1. MemoryInit => RoomInv
  BY MemorySizesAssumption DEF MemoryInit, RoomInv
<1>2. TypeInv /\ RoomInv /\ [MemoryNext]_memoryVars => RoomInv'
  BY RoomInvKept
<1>3. TypeInv /\ RoomInv /\ PackedInv /\ [MemoryNext]_memoryVars => PackedInv'
  BY PackedInvKept
<1> QED
  BY <1>1, <1>2, <1>3, PackedInvInit, MemoryTypeInvariant, PTL DEF MemorySpec

(* A push that kept its room stays within the area, and a pop of a queue   *)
(* that is not empty has a message to take.                                *)
RuinHasCause ==
  ~ruined /\ ruined' =>
    \/ overran \/ dropped
    \/ \E p \in Pushers : raced[p] /\ offer[p] # <<>> /\ offer'[p] = <<>>

LEMMA RuinStep ==
  ASSUME TypeInv, RoomInv, PackedInv, [MemoryNext]_memoryVars
  PROVE  RuinHasCause
<1> SUFFICES ASSUME ~ruined, ruined', ~overran, ~dropped
             PROVE  \E p \in Pushers :
                      raced[p] /\ offer[p] # <<>> /\ offer'[p] = <<>>
  BY DEF RuinHasCause
<1>1. PICK b : Packed(b)
  BY DEF PackedInv, Broken
<1>2. /\ count \in Nat /\ now \in Nat /\ now <= Area
      /\ b[0] = 0 /\ b[count] = now
      /\ \A n \in 1 .. count : b[n] = b[n - 1] + sizeList[n - 1]
      /\ \A n \in 0 .. count : b[n] \in Nat /\ b[n] <= now
  BY <1>1, PackedBounds DEF RoomInv, Packed
<1>3. CASE UNCHANGED memoryVars
  BY <1>3 DEF memoryVars
<1>4. ASSUME NEW p \in Pushers, NEW size \in Sizes, Looks(p, size) PROVE FALSE
  BY <1>4 DEF Looks
<1>5. ASSUME NEW p \in Pushers, Stores(p)
      PROVE  raced[p] /\ offer[p] # <<>> /\ offer'[p] = <<>>
  <2>1. offer[p] # <<>> /\ offer'[p] = <<>>
    BY <1>5 DEF Stores, TypeInv
  <2>2. PICK size \in Sizes : Len(offer[p]) = size /\ size \in Nat
    BY <1>5, <2>1, OfferIs
  <2>3. now + size > Block
    <3>1. now < 0 \/ now + Len(offer[p]) > Block
      <4>1. ~ (now < 0 \/ now + Len(offer[p]) > Block) => ruined' = ruined
        BY <1>5, Zenon DEF Stores
      <4> QED
        BY <4>1, Zenon
    <3> QED
      BY <1>2, <2>2, <3>1
  <2>4. ~ (now + size <= Area)
    BY <1>2, <2>2, <2>3, MemorySizesAssumption
  <2> QED
    BY <2>1, <2>2, <2>4 DEF RoomInv
<1>6. ASSUME Pops PROVE FALSE
  <2>1. now # 0 /\ (count = 0 \/ sizeList[0] > Area)
    BY <1>6 DEF Pops
  <2>2. count # 0
    BY <1>2, <2>1
  <2>3. 1 \in 1 .. count /\ 1 \in 0 .. count /\ 1 - 1 = 0
    BY <1>2, <2>2
  <2>4. b[1] = b[0] + sizeList[0] /\ b[1] \in Nat /\ b[1] <= now
    BY <1>2, <2>3
  <2>5. sizeList[0] \in Nat
    BY MemorySizesAssumption DEF TypeInv, MemoryTypeOK, Entries
  <2> QED
    BY <1>2, <2>1, <2>2, <2>4, <2>5, MemorySizesAssumption
<1> QED
  BY <1>3, <1>4, <1>5, <1>6 DEF MemoryNext

(* No way of filling and emptying the queue takes the program out of its   *)
(* block before a race or a shift that is too short has broken it.         *)
THEOREM MemoryRuinAlwaysCaused == MemorySpec => MemoryRuinCaused
<1>1. TypeInv /\ RoomInv /\ PackedInv /\ [MemoryNext]_memoryVars
        => [~ruined /\ ruined' =>
              \/ overran \/ dropped
              \/ \E p \in Pushers :
                   raced[p] /\ offer[p] # <<>> /\ offer'[p] = <<>>
           ]_memoryVars
  BY RuinStep DEF RuinHasCause
<1> QED
  BY <1>1, MemoryInvariant, PTL DEF MemorySpec, MemoryRuinCaused

-----------------------------------------------------------------------------
(***************************************************************************)
(* The messages inside, with the beginnings that the invariant gives: a    *)
(* store puts one behind them, a pop takes the first one, and each other   *)
(* step leaves them, or breaks the memory.                                 *)
(***************************************************************************)
Within(b) ==
  [n \in 1 .. count |-> [k \in 1 .. sizeList[n - 1] |->
                            bytes[b[n - 1] + k - 1]]]

LEMMA InsideIsWithin ==
  ASSUME NEW CONSTANT b
  PROVE  /\ count \in Nat /\ Packed(b) => Inside = Within(b)
         /\ (count \in Nat /\ Packed(b) => Inside = Within(b))'
<1>1. count \in Nat /\ Packed(b) => Inside = Within(b)
  BY BeginOfPacked DEF BeginIsPacked, Inside, Within
<1> QED
  BY <1>1, PTL

(* The new message lies behind the others, whose bytes nobody touched.     *)
LEMMA StoresPuts ==
  ASSUME TypeInv, TypeInv', RoomInv, PackedInv,
         NEW p \in Pushers, Stores(p), ~Broken, ~Broken'
  PROVE  Inside' = Append(Inside, offer[p]) /\ out' = out
<1>1. PICK b : Packed(b)
  BY DEF PackedInv
<1>2. PICK c : /\ Packed(c)'
               /\ c = [n \in 0 .. count + 1 |->
                         IF n <= count THEN b[n] ELSE now + Len(offer[p])]
  BY <1>1, StoresPacked
<1>3. PICK id \in 1 .. offered, size \in Sizes :
        /\ offer[p] = Message(id, size) /\ Len(offer[p]) = size
        /\ size \in Nat /\ size > 0 /\ id \in 0 .. MaxPushes
        /\ \A k \in 1 .. size : offer[p][k] = <<id, k>>
  BY OfferIs DEF Stores
<1>4. count \in Nat /\ count' \in Nat
  BY DEF TypeInv, MemoryTypeOK
<1>5. Inside = Within(b)
  BY <1>1, <1>4, InsideIsWithin
<1>6. Inside' = Within(c)'
  BY <1>2, <1>4, InsideIsWithin
<1>7. Inside' = [n \in 1 .. count' |-> [k \in 1 .. sizeList'[n - 1] |->
                                          bytes'[c[n - 1] + k - 1]]]
  BY <1>6 DEF Within
<1>8. /\ now <= Area /\ count' = count + 1 /\ now' = now + size /\ out' = out
      /\ sizeList' = [sizeList EXCEPT ![count] = size]
      /\ now + size <= Block
      /\ bytes' = [k \in Cells |-> IF k >= now /\ k < now + size
                                   THEN offer[p][k - now + 1] ELSE bytes[k]]
  <2>1. now \in Int /\ now <= Area /\ ~ruined'
    BY DEF TypeInv, MemoryTypeOK, RoomInv, Broken
  <2>2. ~ (now < 0 \/ now + size > Block)
    BY <1>3, <2>1 DEF Stores
  <2> QED
    BY <1>3, <2>1, <2>2, MemorySizesAssumption DEF Stores, Listed
<1>9. /\ count \in Nat /\ now \in Nat /\ count <= now
      /\ \A n \in 0 .. count : b[n] \in Nat /\ b[n] <= now
      /\ \A n \in 0 .. count : n \in Entries
      /\ \A n \in 1 .. count : sizeList[n - 1] \in Nat \ {0}
  BY <1>1, <1>8, PackedBounds
<1>10. /\ b[count] = now
       /\ \A n \in 1 .. count : b[n] = b[n - 1] + sizeList[n - 1]
  BY <1>1 DEF Packed
<1>11. \A n \in 0 .. count : c[n] = b[n]
  BY <1>2, <1>9
<1>12. sizeList \in [Entries -> Sizes \cup {0}]
  BY DEF TypeInv, MemoryTypeOK
<1>13. ASSUME NEW n \in 1 .. count PROVE Inside'[n] = Inside[n]
  <2>1. n - 1 \in 0 .. count /\ n - 1 # count /\ n \in 0 .. count
    BY <1>9
  <2>2. sizeList'[n - 1] = sizeList[n - 1]
    BY <1>8, <1>9, <1>12, <2>1
  <2>3. /\ c[n - 1] = b[n - 1] /\ b[n - 1] \in Nat /\ sizeList[n - 1] \in Nat
        /\ b[n - 1] + sizeList[n - 1] <= now
    BY <1>9, <1>10, <1>11, <2>1
  <2>4. ASSUME NEW k \in 1 .. sizeList[n - 1]
        PROVE  bytes'[b[n - 1] + k - 1] = bytes[b[n - 1] + k - 1]
    <3>1. b[n - 1] + k - 1 \in Cells /\ b[n - 1] + k - 1 < now
      BY <1>8, <1>9, <2>3, MemorySizesAssumption DEF Cells
    <3>2. ~ (b[n - 1] + k - 1 >= now)
      BY <1>9, <3>1, MemorySizesAssumption DEF Cells
    <3> QED
      BY <1>8, <3>1, <3>2
  <2>5. n \in 1 .. count'
    BY <1>8, <1>9
  <2>6. Inside'[n] = [k \in 1 .. sizeList[n - 1] |-> bytes'[b[n - 1] + k - 1]]
    BY <1>7, <2>2, <2>3, <2>5
  <2>7. Inside[n] = [k \in 1 .. sizeList[n - 1] |-> bytes[b[n - 1] + k - 1]]
    BY <1>5 DEF Within
  <2> QED
    BY <2>4, <2>6, <2>7
<1>14. Inside'[count + 1] = offer[p]
  <2>1. (count + 1) - 1 = count /\ count \in 0 .. count
        /\ count + 1 \in 1 .. count'
    BY <1>8, <1>9
  <2>2. sizeList'[count] = size /\ c[count] = now
    BY <1>8, <1>9, <1>10, <1>11, <1>12, <2>1
  <2>3. Inside'[count + 1] = [k \in 1 .. size |-> bytes'[now + k - 1]]
    BY <1>7, <2>1, <2>2
  <2>4. ASSUME NEW k \in 1 .. size
        PROVE  bytes'[now + k - 1] = <<id, k>>
    <3>1. /\ now + k - 1 \in Cells /\ now + k - 1 >= now
          /\ now + k - 1 < now + size /\ (now + k - 1) - now + 1 = k
      BY <1>3, <1>8, <1>9, MemorySizesAssumption DEF Cells
    <3>2. bytes'[now + k - 1] = offer[p][(now + k - 1) - now + 1]
      BY <1>8, <3>1
    <3> QED
      BY <1>3, <3>1, <3>2
  <2>5. [k \in 1 .. size |-> bytes'[now + k - 1]] =
          [k \in 1 .. size |-> <<id, k>>]
    BY <2>4
  <2> QED
    BY <1>3, <2>3, <2>5 DEF Message
<1>15. Inside = [n \in 1 .. count |-> Inside[n]]
       /\ Inside' = [n \in 1 .. count' |-> Inside'[n]]
  BY DEF Inside
<1>16. Inside \in Seq({Inside[n] : n \in 1 .. count}) /\ Len(Inside) = count
  BY <1>9, <1>15
<1>17. Append(Inside, offer[p]) =
         [n \in 1 .. count + 1 |-> IF n <= count THEN Inside[n] ELSE offer[p]]
  BY <1>9, <1>15, <1>16
<1>18. ASSUME NEW n \in 1 .. count'
       PROVE  Inside'[n] = IF n <= count THEN Inside[n] ELSE offer[p]
  <2>1. n \in 1 .. count \/ n = count + 1
    BY <1>8, <1>9
  <2> QED
    BY <1>9, <1>13, <1>14, <2>1
<1> QED
  BY <1>8, <1>15, <1>17, <1>18

(* What comes out is the first message; the bytes and the sizes of the     *)
(* others are moved by the same length.                                    *)
LEMMA PopsTakes ==
  ASSUME TypeInv, TypeInv', RoomInv, PackedInv, Pops, ~Broken, ~Broken'
  PROVE  Inside # <<>> /\ Inside' = Tail(Inside) /\ out' = Head(Inside)
<1>1. PICK b : Packed(b)
  BY DEF PackedInv
<1>2. PICK c : /\ Packed(c)'
               /\ c = [n \in 0 .. count - 1 |-> b[n + 1] - sizeList[0]]
               /\ count > 0
  BY <1>1, PopsPacked
<1>4. count \in Nat /\ count' \in Nat
  BY DEF TypeInv, MemoryTypeOK
<1>5. Inside = Within(b)
  BY <1>1, <1>4, InsideIsWithin
<1>6. Inside' = Within(c)'
  BY <1>2, <1>4, InsideIsWithin
<1>7. Inside' = [n \in 1 .. count' |-> [k \in 1 .. sizeList'[n - 1] |->
                                          bytes'[c[n - 1] + k - 1]]]
  BY <1>6 DEF Within
<1>8. /\ now <= Area /\ count' = count - 1 /\ now' = now - sizeList[0]
      /\ sizeList' = ListMoved /\ ~ (count > ShiftLen + 1)
      /\ bytes' = MovedDown(sizeList[0])
      /\ out' = [k \in 1 .. sizeList[0] |-> bytes[k - 1]]
  BY DEF Pops, Broken, RoomInv
<1>9. /\ now \in Nat /\ count <= now
      /\ \A n \in 0 .. count : b[n] \in Nat /\ b[n] <= now
      /\ \A n \in 0 .. count : n \in Entries
      /\ \A n \in 1 .. count : sizeList[n - 1] \in Nat \ {0}
  BY <1>1, <1>8, PackedBounds
<1>10. /\ b[0] = 0
       /\ \A n \in 1 .. count : b[n] = b[n - 1] + sizeList[n - 1]
  BY <1>1 DEF Packed
<1>11. sizeList[0] \in Nat \ {0}
  <2>1. 1 \in 1 .. count /\ 1 - 1 = 0
    BY <1>2, <1>4
  <2> QED
    BY <1>9, <2>1
<1>12. Inside = [n \in 1 .. count |-> Inside[n]]
       /\ Inside' = [n \in 1 .. count' |-> Inside'[n]]
  BY DEF Inside
<1>13. Inside \in Seq({Inside[n] : n \in 1 .. count}) /\ Len(Inside) = count
  BY <1>4, <1>12
<1>14. Inside # <<>> /\ Head(Inside) = Inside[1]
       /\ Tail(Inside) = [n \in 1 .. count - 1 |-> Inside[n + 1]]
  BY <1>2, <1>4, <1>12, <1>13
<1>15. Inside[1] = out'
  <2>1. 1 \in 1 .. count /\ 1 - 1 = 0
    BY <1>2, <1>4
  <2>2. Inside[1] = [k \in 1 .. sizeList[0] |-> bytes[b[0] + k - 1]]
    BY <1>5, <2>1 DEF Within
  <2>3. \A k \in 1 .. sizeList[0] : b[0] + k - 1 = k - 1
    BY <1>10, <1>11
  <2> QED
    BY <1>8, <2>2, <2>3
<1>16. ASSUME NEW n \in 1 .. count - 1
       PROVE  Inside'[n] = Inside[n + 1]
  <2>1. /\ n \in 1 .. count' /\ n \in 0 .. count /\ n + 1 \in 0 .. count
        /\ n + 1 \in 1 .. count /\ (n + 1) - 1 = n /\ n - 1 \in 0 .. count - 1
        /\ n - 1 \in 0 .. count /\ n - 1 < ShiftLen /\ (n - 1) + 1 = n
    BY <1>4, <1>8, MemorySizesAssumption
  <2>2. sizeList'[n - 1] = sizeList[n]
    <3>1. n - 1 \in Entries /\ n \in Entries
      BY <1>9, <2>1
    <3> QED
      BY <1>8, <2>1, <3>1 DEF ListMoved
  <2>3. c[n - 1] = b[n] - sizeList[0]
    BY <1>2, <2>1
  <2>4. /\ b[n] \in Nat /\ sizeList[n] \in Nat /\ b[n] + sizeList[n] <= now
        /\ b[n] >= sizeList[0]
    <3>1. b[n + 1] = b[n] + sizeList[n] /\ b[n + 1] <= now
      BY <1>9, <1>10, <2>1
    <3>2. b[n] \in Nat /\ sizeList[n] \in Nat
      BY <1>9, <2>1
    <3>3. c[n - 1] \in Nat
      <4>1. n - 1 \in 0 .. count'
        BY <1>8, <2>1
      <4>2. c \in [0 .. count' -> Nat]
        BY <1>2 DEF Packed
      <4> QED
        BY <4>1, <4>2
    <3> QED
      BY <1>11, <2>3, <3>1, <3>2, <3>3
  <2>5. ASSUME NEW k \in 1 .. sizeList[n]
        PROVE  bytes'[c[n - 1] + k - 1] = bytes[b[n] + k - 1]
    <3>1. /\ c[n - 1] + k - 1 \in Cells
          /\ c[n - 1] + k - 1 < Area - sizeList[0]
          /\ (c[n - 1] + k - 1) + sizeList[0] = b[n] + k - 1
      <4>1. now \in Nat /\ now <= Area /\ sizeList[0] \in Nat \ {0}
        BY <1>8, <1>9, <1>11
      <4>2. k \in Nat /\ k >= 1 /\ k <= sizeList[n]
        BY <2>4
      <4>3. c[n - 1] \in Nat
        BY <2>3, <2>4, <4>1
      <4> QED
        BY <2>3, <2>4, <4>1, <4>2, <4>3, MemorySizesAssumption DEF Cells
    <3> QED
      BY <1>8, <3>1 DEF MovedDown
  <2>6. Inside'[n] = [k \in 1 .. sizeList[n] |-> bytes'[c[n - 1] + k - 1]]
    BY <1>7, <2>1, <2>2
  <2>7. Inside[n + 1] = [k \in 1 .. sizeList[n] |-> bytes[b[n] + k - 1]]
    BY <1>5, <2>1 DEF Within
  <2> QED
    BY <2>5, <2>6, <2>7
<1> QED
  BY <1>8, <1>12, <1>14, <1>15, <1>16

(* A look and a stutter are stutters of the queue, a store is a Put, a pop *)
(* a Take; a step that breaks the memory is free.                          *)
LEMMA MemoryStepImplements ==
  ASSUME TypeInv, TypeInv', RoomInv, PackedInv, [MemoryNext]_memoryVars
  PROVE  [Fifo!FifoNext]_<<IF Broken THEN <<>> ELSE Inside, out, Broken>>
<1>1. CASE Broken'
  BY <1>1 DEF Fifo!FifoNext
<1> SUFFICES ASSUME ~Broken' PROVE [Fifo!FifoNext]_<<Inside, out, Broken>>
  BY <1>1, BrokenStays
<1>2. ~Broken /\ UNCHANGED Broken
  <2>1. ~Broken
    BY BrokenStays
  <2>2. Broken = FALSE /\ Broken' = FALSE
    BY <2>1 DEF Broken
  <2> QED
    BY <2>1, <2>2
<1>3. ASSUME UNCHANGED <<bytes, now, sizeList, count>> PROVE Inside' = Inside
  <2>1. PICK b : Packed(b)
    BY <1>2 DEF PackedInv
  <2>2. Packed(b)'
    BY <1>3, <2>1 DEF Packed
  <2>3. count \in Nat /\ count' \in Nat
    BY DEF TypeInv, MemoryTypeOK
  <2>4. Inside = Within(b) /\ Inside' = Within(b)'
    BY <2>1, <2>2, <2>3, InsideIsWithin
  <2> QED
    BY <1>3, <2>4 DEF Within
<1>4. CASE UNCHANGED memoryVars
  BY <1>2, <1>3, <1>4 DEF memoryVars
<1>5. ASSUME NEW p \in Pushers, NEW size \in Sizes, Looks(p, size)
      PROVE  Inside' = Inside /\ out' = out
  BY <1>3, <1>5 DEF Looks
<1>6. ASSUME NEW p \in Pushers, Stores(p) PROVE Fifo!FifoNext
  <2>1. Inside' = Append(Inside, offer[p]) /\ out' = out
    BY <1>2, <1>6, StoresPuts
  <2>2. offer[p] \in {Message(id, size) : id \in 1 .. MaxPushes, size \in Sizes}
    <3>1. PICK id \in 1 .. offered, size \in Sizes :
            offer[p] = Message(id, size)
      BY <1>6, OfferIs DEF Stores
    <3>2. id \in 1 .. MaxPushes
      BY MemorySizesAssumption DEF TypeInv, MemoryTypeOK
    <3> QED
      BY <3>1, <3>2
  <2>3. Fifo!Put
    BY <1>2, <2>1, <2>2 DEF Fifo!Put
  <2> QED
    BY <1>2, <2>3 DEF Fifo!FifoNext
<1>7. ASSUME Pops PROVE Fifo!FifoNext
  <2>1. Inside # <<>> /\ Inside' = Tail(Inside) /\ out' = Head(Inside)
    BY <1>2, <1>7, PopsTakes
  <2>2. Fifo!Take
    BY <1>2, <2>1 DEF Fifo!Take
  <2> QED
    BY <1>2, <2>2 DEF Fifo!FifoNext
<1> QED
  BY <1>2, <1>4, <1>5, <1>6, <1>7 DEF MemoryNext

(* As long as no push overran the area and no more messages were queued    *)
(* than the list can shift, the memory is a queue of whole messages, for   *)
(* any threads, sizes, area, block and length of the shift.                *)
THEOREM MemoryImplementsFifo == MemorySpec => MemoryIsFifo
<1>1. MemoryInit => Fifo!FifoInit
  <2> SUFFICES ASSUME MemoryInit PROVE Fifo!FifoInit
    OBVIOUS
  <2>1. ~Broken /\ out = <<>>
    BY DEF MemoryInit, Broken
  <2>2. Inside = <<>>
    BY DEF MemoryInit, Inside
  <2> QED
    BY <2>1, <2>2 DEF Fifo!FifoInit
<1>2. TypeInv /\ TypeInv' /\ RoomInv /\ PackedInv /\ [MemoryNext]_memoryVars
        => [Fifo!FifoNext]_<<IF Broken THEN <<>> ELSE Inside, out, Broken>>
  BY MemoryStepImplements
<1> QED
  BY <1>1, <1>2, MemoryInvariant, PTL
  DEF MemorySpec, MemoryIsFifo, Fifo!FifoSpec
=============================================================================
