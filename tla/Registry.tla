------------------------------ MODULE Registry ------------------------------
(***************************************************************************)
(* What the home agents promise, without packets, slots or routes: each    *)
(* keeps a book in which a home address has one care-of address.  A        *)
(* registration writes its own line and no other, needs room even for a    *)
(* line that is there already, and is acknowledged with the write or not   *)
(* at all.                                                                 *)
(***************************************************************************)
EXTENDS Naturals

CONSTANTS
  Keepers,     \* who keeps a book
  Homes,       \* the home addresses
  Cares,       \* the care-of addresses
  Tickets,     \* what tells the registrations apart
  Capacity     \* the lines of a book

VARIABLES
  book,    \* per keeper, the lines <<home, care-of>>
  acks     \* the acknowledgements <<keeper, home, ticket>> given so far

RegistryInit == book = [a \in Keepers |-> {}] /\ acks = {}

Written(lines, home, coa) ==
  {line \in lines : line[1] # home} \cup {<<home, coa>>}

(* The lines have places of their own and leave one.                       *)
HasRoom(lines) ==
  \E place \in [lines -> 1 .. Capacity - 1] :
    \A x, y \in lines : place[x] = place[y] => x = y

Register(a, home, coa, ticket) ==
  /\ HasRoom(book[a])
  /\ book' = [book EXCEPT ![a] = Written(@, home, coa)]
  /\ acks' \in {acks, acks \cup {<<a, home, ticket>>}}

(* A keeper starts again with an empty book.                               *)
Forget(a) ==
  /\ book' = [book EXCEPT ![a] = {}]
  /\ UNCHANGED acks

RegistryNext ==
  \E a \in Keepers :
    \/ Forget(a)
    \/ \E home \in Homes, coa \in Cares, ticket \in Tickets :
         Register(a, home, coa, ticket)

RegistrySpec == RegistryInit /\ [][RegistryNext]_<<book, acks>>
=============================================================================
