# A verification development for the V2X handover application and the OTA relay

TLA+ models, model checking and machine-checked proofs for two programs of the
repository.

*V2XHO*, `src/Codes/모바일IP/Code/src/app/V2XHO/`: Mobile IPv4 adapted to
road-side units and vehicles. A vehicle's on-board unit (OBU) registers with
the first road-side unit that accepts it, its home agent (RSU_HA), and later
hands over to foreign agents (RSU_FA), which forward its registrations to the
home agent and let its traffic reach it through an IP-in-IP tunnel.

*The OTA relay server*, `src/Codes/Secure_OTA(과제명)/Secure_OTA/src/`: a server
that ECUs report their firmware to by UDP; it asks an OTA server whether there
is a newer image, downloads it, and sends it on to the ECU.

Paths below are relative to the first directory unless they start with
`src/Codes`. `obu.c`, `ha.c`, `fa.c` are `src/v2x_handover_obu.c`,
`..._rsu_ha.c`, `..._rsu_fa.c`; `relay.c` is
`lib/relayserver/src/librelayserver.c` and `memory.c`
`lib/memory_allocation/src/memory_allocation.c` of the second. "The protocol
document" is
`src/Codes/모바일IP/Doc/모바일IP를_응용한_V2X_핸드오버_규격서_250124_V2.pdf`.

## 1. Inventory

The repository is a portfolio of separate programs; `src/Documents` is
documents only.

| part | where | state | operations | modelled |
|---|---|---|---|---|
| home agent | `ha.c` | binding table, host routes, tunnels, raw socket | receive a request, add to the table, reply; advertise | `HomeAgent`; not the advertising thread |
| foreign agent | `fa.c` | one effective table entry, counter, routes, tunnels, policy tables and rules, raw socket | receive a request, a reply, an ARP request; forward, relay; advertise | `ForeignAgent`; not the advertising thread |
| OBU task loop | `obu.c` 120-730 | agent list, wait flag, home agent, current agent, interface address, default route | hear an agent, send a request, await a reply, time out, end a tick | `Obu` |
| OBU agent list | `obu.c` 923-1060 | `reg_list`, `reg_sub_list` | add, refresh | `Obu` |
| OBU command thread | `obu.c` 1290-1335 | `registration_request_send_num`, `g_agent_num` | check, write; automatic mode | `Obu` |
| OBU radio hand-over | `obu.c` 732-752, `wave_rx.c` | status byte, datagram socket | put a WSA, take a WSA | `ObuMailbox` |
| packets | `include/v2x_handover_main.h` | request and reply payloads, codes | | `V2XNet` |
| WSA construction, schedule, filter | `ha.c`, `fa.c`, `wave_tx.c`, `wave_rx.c` | send slots | send in slots 3, 6, 9 | no |
| start-up, configuration, dashboard, GNSS, ping test | `main.c`, `utils.c`, ... | configuration flags | pure I/O | only as `Init`, `Restart`, constants |
| Mobile-IP libraries | `src/Codes/모바일IP/Code/src/libs` | | an earlier ICMP-based protocol; V2XHO uses the iproute2 wrapper only | no |
| V2X-HUB | `src/Codes/V2X-HUB/Code/module` | Redis keys, TCP links | pass sensor data on | no (separate program) |
| OTA relay server | `relay.c` 145-460, 640-1290 | client table, queue of messages, descriptors, flags of the job thread | receive, register, queue, expire; take a message, check a version, download, send, flush | `RelayServer` |
| its memory | `memory.c` | one block, a list of sizes, a count | push, pop, test for room | `MemoryQueue` |
| NUVO client, V2X forwarding | `relay.c` 1535-2407 | state of a polling client | poll, ask the operator, forward | no |
| ECU download | `src/Codes/Secure_OTA(과제명)` | update file | receive an image | no (a fragment) |
| Smart Edge Data uploader | `src/Codes/Smart Edge Data/Code/src` | file queue | read, format, upload | no (mostly formatting) |
| GNSS forwarding, J2735 forwarding | `src/Codes/기업과제(...)` | capture buffers | capture, encode, forward | no (separate programs) |
| vendored code | `depend` directories | | vcpkg, azure-sdk, iproute2, cJSON, ... | no |

V2XHO carries the one protocol of the repository in which several processes,
an unreliable network and threads without locks meet; it is the core here. The
OTA relay server is a program in which two threads share a queue, a table and
the descriptors of a process.

Of the 667,000 lines that the repository's source files have, the bulk is
generated (protobuf), vendored (vcpkg, azure-sdk, iproute2, cJSON, headers of a
radio) or examples. The two programs here are about 6,000 lines of the
repository's own code, so the modelled share of all lines is small by nature.

**How the parts interact.** Agents and vehicles exchange registration requests
and replies (UDP port 434, raw IP sockets). The OBU's radio callback runs in
another thread than its task loop and passes advertisements through a datagram
socket and the bit fields `waiting_wsa` and `recv_wsa`; the command thread
writes variables of the task loop. The kernel's routes, tunnels and rules are
state of the agents that outlives their processes in part: `main` flushes the
main routing table (`main.c` 60-173), tunnels, other tables and rules stay.
In the relay server one thread receives datagrams, keeps the client table and
expires its entries, and pushes into the queue; the other pops a message, makes
one step of its job, and pushes it back for the next one. A timer ages the
table. Both threads open and close descriptors of one process.

**What is hard.** Packets are lost, late, repeated and reordered, and replies
are matched by addresses, not by identification. A wait of one second races
with late replies. One failed `sendto` closes a socket for good. Processes
restart with their tables empty. Two threads write one byte and one index of
the OBU without a lock. In the relay server a message passes a queue three times
between those of others, the room for it is tested and used in two critical
sections, a slot is zeroed before what it holds is closed, and a flag decides
whether a thread ever goes on. `PROJECT.json` lists each of these at its line.

**What makes each part correct.**
Home agent: one slot per home address, a counter that is the number of used
slots, route and tunnel of the current binding, replies only for bindings,
bindings that stay. Foreign agent: it forwards what a visitor asked, relays
what the home agent said, and between any two of its kernel calls no rule points
to a table without a route or to a tunnel that is down, and a rule that is not
the one of its table's route is about to go, or a restart kept it. OBU: a wait always has a target and always ends,
one entry per agent, and home agent, connection and agent list agree. Mailbox:
a read finds a datagram and a wait has a target unless a store of the other
thread has undone one, and the loop turns and reads on until it is caught or the
socket is full. Relay server: its counter agrees with its
table, a client is never deaf because of its own stale entry, every message is
answered or lost in the end, answers keep the order of requests, and a thread
that is stuck has a cause outside of the queue. Memory: whole messages, in
order. V2XHO as a whole: the vehicle attaches, under a home
address, only to an agent that a home agent has bound that address to.

## 2. Modules and how they correspond to the code

| module | extends | what |
|---|---|---|
| `V2XNet` | | agents, home addresses, payloads, packets, the medium `net` |
| `HomeAgent` | `V2XNet` | `Th_v_V2XHO_RSU_HA_RAW_Receive`, `f_e_V2XHO_Registration_OBU_Add`, reply; closed with clients; `HAImplementsRegistry` |
| `ForeignAgent` | `V2XNet` | `Th_v_V2XHO_RSU_FA_RAW_Receive`, forwarding and relaying; closed with vehicles and home agents |
| `Obu` | `V2XNet` | the task loop, the agent list, the command thread; closed with agents that accept or refuse |
| `Handover` | the three above | one vehicle, its agents and the network together; `ImplementsAttachment` |
| `Attachment` | | the abstract promise: bind before attach |
| `Registry` | | the abstract promise of a home agent: a book with one line per home address, acknowledged with the write or not at all |
| `ObuMailbox` | | radio thread against task loop, one access of the byte per step |
| `RelayServer` | | receive thread, job thread and tick of the OTA relay server, one step per call that blocks |
| `AnswerLine` | | the abstract promise of its queue: one line of requests, the oldest answered first |
| `MemoryQueue` | | the memory of its queue, byte by byte, with two threads |
| `MemoryFifo` | | the abstract promise: a queue of whole messages |
| `HomeAgent_proofs`, `ForeignAgent_proofs`, `Obu_proofs`, `ObuMailbox_proofs`, `RelayServer_proofs`, `RelayOrder_proofs`, `MemoryQueue_proofs` | the module they are named after | theorems |
| `Handover_proofs` | `Handover` and the proofs of its three parts | theorems about the composition, the refinement |

**Network.** `net` is the set of all packets ever sent and never shrinks; a
receiver may take a packet at any time, again, or never. Loss, delay,
reordering and duplication are all in this. A reply for the vehicle first
enters the bounded packet socket `obuRx` (`Deliver`), because what is left in
it after a timeout matters.

**Addresses.** An agent's name stands for its IP and link addresses (a foreign
agent has two IP addresses that no comparison confuses). A home address is the
/24 network of the agent heard plus a host number: 28 in a new entry
(`obu.c` 961-970), or one of a few byte-swapped values after a refresh
(`obu.c` 1027-1041), which converts to network order in a different way.

**The registry.** `Lines` is the book of a home agent, one line per used slot;
`Acknowledged` is what the replies on the network say. The refinement
`HAImplementsRegistry` is checked with clients that may ask anything (`ha_safety`)
and proved twice: for those, and for the vehicle and the foreign agents of the
composition, whose requests are the ones that really occur.

**Home agent.** One action per handled request. `HAAccept` is lines 365-514:
slot, route, tunnel and reply in one step, as nothing else reads or writes
that state between them; the outcome of `sendto` decides the flags written
after it. `HAIgnoreFull` is the early return of a full table, which comes
before the search. The kernel does what it is asked, with `NLM_F_REPLACE` and
`NLM_F_EXCL` as in the calls.

`HASpec` closes the agents with clients: requests of vehicles, whose
`source_address` is host 28 of the home agent's network and is not changed by a
refresh (`obu.c` 970, 1041), and forwarded requests of foreign agents.

**Foreign agent.** Both search loops end at entry 0, so the table is one slot:
the request loop's `break` stands outside of the comparison (`fa.c` 365-377),
and new entries are written to that same index. `FARequestRegisted` and
`FARequestNewcomer` are the two branches `check_mac == 6` and `10`. What the first
does for a visitor is five kernel calls and a send: the tunnel (412, 415), the link
(425), the default route of the home agent's table (441), the old rule (450) and the
new one (460), the forward (466). Each is an action (`FATunnel`, `FALinkUp`,
`FARoute`, `FADeleteRule`, `FANewRule`, `FAForward`); `faPc` says which is next, and
the thread reads no packet before the last. `RTM_DELRULE` names only the table, so
`FADeleteRule` takes any rule of it. `FARestart` may come between any two calls and
leaves tunnels, tables and rules as they are; the history `faCut` keeps the job that
it cut off, which `FARuleComplete` and `FAForwards` speak of.

**OBU.** A tick has the parts "wsa", "send", "await" and "reset"; the command
thread runs between any two of them. The command thread's check
(`obu.c` 1313-1320) and its write are two actions. Index 0 stands for 0xFF.
`AutoCrash` is the modulo by `registed_num = 0` in automatic mode: the build in
the repository divides by `__aeabi_idivmod`, whose zero case raises SIGFPE. The
care-of address of an OBU's request is always the agent's address. In
`Handover` the vehicle's ARP asks with the interface address.

**Mailbox.** `recv_wsa`, `waiting_wsa` and `waiting_regreply` are bits 8-9, 12 and
13-14 of a packed structure (`obu.h` 36-49), hence in one byte. Plain bit fields are
written by a load of the byte, an insertion and a store, by `ldrb`, `bfi`, `strb` in
the ARM program that is checked in beside the sources (`v2x_handover`); `Assign` is
`Load` or `Store`, so the other thread may come between the two. `Obu` takes these
fields as atomic; `ObuMailbox` is where their races are. The loop has one step per
access: the request after an advertisement and its failure (`LoopAsks`,
`LoopMarks`, `LoopUnmarks`), the request of a command or of the automatic mode
(`LoopCommands`), the spin of that mode (`LoopSpins`, `obu.c` 385), and the wait,
whose condition is tested again after packets of other ports too. Two histories say
what a store did: `undone` has the fields that a store of the radio's thread has
changed by the way since the loop last assigned them, and `misled` is set when the
loop reads a `recv_wsa` of which that is true. `QMax = 3` stands for
the kernel's limit of about ten datagrams on a unix socket; the socket of the
code has a send timeout of 50 ms, which is `RadioDrops`.

**Relay server.** The receive thread is `ServerPasses` (nothing came, or the
table is full), `ServerRegisters` (the datagram of a newcomer is not queued),
`ServerQueues`, then one step per slot of the expiry loop (`ServerKeeps`,
`ServerExpires`); `Tick` may come between any two. `FirstFor` is the scan of
`relay.c` 354-380: the first slot that is free *or* the client's. The job thread
is one action per call that blocks or that the other thread can interfere with:
`JobTakes` is the pop with the choice of the job, `JobPushes` the push back,
`JobConnects` the `while(*g_curl_isused)` with the opening of a socket,
`JobRequests`, `JobDownloads`, `JobSends` and their failures the transfers,
`JobResumes` the key or the five seconds, `JobFlushes` one round of the flush
(`relay.c` 675-699), which pops two messages. What is abstracted: the text of
messages is one of the forms a receiver tells apart; `Framed` is what
`%02X` does to a number of three digits; the timer of a slot is the ticks that
are left; the pieces of an image are one step; the copy of a received image to a
file is left out. Of the descriptors the model has number 0, the only one that
is closed by a thread it does not belong to (`relay.c` 432 zeroes the slot
before it closes what it holds): it is the standard input, free, or the job
thread's. An uninitialised `close(sockfd)` closes 0 or nothing that is open.
For `RelayImplementsLine` the line is the queue and, while the thread is busy with
it, the message at hand; `push`ing back and taking out again are steps nobody
sees there.
`connected_client_num` is read without being set, so it starts at any of
`FirstCounts`; that those are not negative, and that `Data_Count` starts at 0,
is what the fresh page of the allocation holds.

**Memory.** `Looks` and `Stores` are the two critical sections of a push
(`memory.c` 67 and 72-91), `Pops` is a pop, whose thread pushes too but not at the
same time. The constants are scaled down together: a cell is a byte, `Area` the
room of the queue, `Block` the whole block, and `ShiftLen` the 128 entries of 8
bytes that a `memmove` of 1,023 bytes reaches on a 64-bit machine. `ruined` is
set where the program would touch memory outside of the block, and nothing
happens after it. `MemoryIsFifo` maps the block to the sequence of messages that
the list of sizes cuts out of it, until an overrun or a lost list entry; from
then on nothing is promised. `RelayServer` has the queue at the scale of whole messages,
with `QueueRoom` for the area; `MemoryIsFifo` says when that is right.

**Bounds.** `MaxIdent` (requests ever made), `MaxBindings` (128 in the code),
`MaxList` (16 in the code), `MaxVisitorNum` (where the unbounded counter of the
foreign agent stops counting), `RxMax` (packets left in the vehicle's socket),
`MaxTimeouts`, `MaxRestarts`, `MaxFARestarts`, `MaxObuRestarts`, `QMax`,
`MaxClientSize` and `SocketTimer` (128, and 100 ticks, in the code), `QueueRoom`,
`SeqLimit`, `SeqDigits` (255 and 16), `MaxMessages`, `MaxPushes`. Each is
a constant that a `.cfg` sets and a guard uses.

## 3. Runs

Between 37,639 (`mem_fifo`) and 3.75 million (`relay_safety`) distinct
states in a passing run (`fa_safety` 478,538, `ho_restarts` 532,188, `ho_relays`
42,193), none longer than about two and a half minutes. The agents of this code
never refuse a request; `fa_safety` and `obu_safety` let them, because receivers
have the branch and the header has the codes.

| run | module, bounds | shows |
|---|---|---|
| `ha_safety` | one agent, two slots, three requests, failing sends, one restart | table, routes, tunnels and replies agree, and that requests are answered; refinement of `Registry` |
| `fa_safety` | two vehicles at one agent, two requests, failing sends, denials, a restart | what is forwarded, relayed, connected; tables, rules and devices between any two kernel calls; a visitor is forwarded in the end unless another one's entry stands in the way |
| `obu_safety` | two agents, list of two, two requests, two timeouts, commands, automatic mode, failing sends, refusals, a restart | wait has a target and ends; home agent, list and connection agree |
| `mailbox_safety` | three datagrams, every load and store of the byte a step, fair threads | a read without a datagram and a wait without a target have a store behind them that undid another; the loop turns unless it is caught for ever; it reads on until the socket is full; a stuck read is freed by the next advertisement if the mailbox is open |
| `mailbox_target` (violation) | the same, without fairness | a wait without a target, whose timeout writes behind the list |
| `ho_restarts` | two home agents, one foreign agent, two requests, one timeout, one restart of each kind | attachment implies binding; refinement of `Attachment` |
| `ho_relays` | one of each, three requests, driver's commands, two entries | every handover request comes back; a home agent asked is a home agent found |
| `ho_address` (violation) | the same, two timeouts, three entries | the interface has an address no home agent bound |
| `relay_safety` | two clients, two slots, three datagrams, room for two, failing transfers | counter and table, stale copies, causes of a stuck thread; refinement of `AnswerLine`, hence the order of answers |
| `relay_drains` | the same, two datagrams, fair threads | every message is answered or lost in the end; a full table empties |
| `relay_flush` (violation) | the same, without fairness | the flush at the end of a message takes messages of another client |
| `mem_fifo` | two threads, sizes one and two, area of four in a block of six, five pushes | refinement of `MemoryFifo` until an overrun or a lost list entry; an overrun needs a race, an access outside of the block one of the two |

**Why the bounds are enough.** Two slots and three requests make a full table,
a re-registration, and a request that comes late, in any order; two vehicles
are what it takes to overwrite a foreign agent's entry. In `fa_safety` the vehicles
are alike, so they join in a fixed order (`InTurn`); identifications are given in
order, a home agent answers a request once (its reply may be read many times), and
`MaxVisitorNum = 1` keeps of the counter what the code asks of it, whether it is 0.
ARP comes from addresses that vehicles have asked about, the only ones they can
have. `ho_restarts` and `ho_relays` have `Tunneling = FALSE`: the kernel calls stand
between the reading of a request and its forward and change no packet; they are
checked in `fa_safety`, and the proofs hold for both values. A list of two in `Obu`
gives a home and a foreign agent and a full list, two requests and two
timeouts a reply that comes in the wrong wait. The mailbox may get two
datagrams per read, so three fill it; `mailbox_safety` reaches the loop stuck in
`recvfrom`, the endless spin, and the full socket that nobody reads. `ho_restarts` has two home agents so
that the vehicle can change its home agent, and a restart of each so that it
may attach again while old packets are still in `net`. Two clients and two slots
give a full table, a client with two slots and a slot that changes hands;
`SeqLimit = 1` and `SeqDigits = 2` bring a number that is printed too long within
two messages of a client; three datagrams fill the queue while a third message
is at hand. An area of four cells in a block of six leaves room to overrun the
area without leaving the block, and five pushes fill it more than once and make
the list longer than it shifts.

`CHECK_DEADLOCK FALSE` stands where requests are bounded, so that the model
stops, and in `mem_fifo`, where the program is gone once it is ruined. The runs
of the relay server never stop and are checked for deadlock; in
`mailbox_safety` the loop may be caught for ever in `LoopTakes` or `LoopSpins`.

**Fairness.** Receive threads block only in `epoll_wait` on their socket, so a
packet that reached the host is handled: `HAServe` weakly fair per identification. A
foreign agent goes on with its calls (`FAWork`, weakly fair) and reads nothing while it
is at them, so a request waits through several jobs and `FAServeRequest` is strongly
fair: the thread comes back to its socket again and again, and the kernel hands out
what waits there in order. A reply is read in the end or stops waiting (`ReplyWaits`:
it is for the visitor of the entry and has not been relayed). A foreign agent reads a
packet once; `faRead` keeps fairness from promising a second reading of it.
The task loop is driven by a timer and all its receives have a 50 ms timeout,
so `ObuTick` is weakly fair; the command thread does not stop between its check
and its write (`PromptWrite`). The radio thread runs at each advertisement and
neighbouring road-side units send them all the time (`RadioStep`). In `ObuMailbox`
the second of a wait is over in the end although other packets come (`LoopAwaits`,
strongly fair: the timer is looked at after each, `obu.c` 431).
In `Obu` alone each request is answered once, accepted or refused; the answer
may arrive several times. Nothing is
assumed about loss except where a liveness property is about the protocol as a
whole: `ho_relays` gives every packet one delivery (`DeliverReply`), no send
failures, no timeouts. With zero timeouts a wait lasts until its reply comes;
the same run has been checked by hand with one and two timeouts.
`ObuListens` has `MaxTimeouts` as large as the number of waits, so the bound
never keeps a wait from ending. `HAAnswers` is satisfied when a request is
handled for the first time and asks nothing of repeated delivery; its escapes
are the code's: a full table, a closed socket. `FAForwards` is of the same form
and has one more escape, the connected entry of another vehicle.
`RelayFairSpec` has the timers fire and both threads scheduled, and the operator
press the key or five seconds pass (`JobResumes` is a part of `JobStep`); nobody
has to send, and no transfer has to succeed.

## 4. Proofs

Proved by TLAPS for all values of the constants that satisfy the named
assumptions of the modules.

**`HomeAgent_proofs`.** The inductive invariant is
`HAInv == HATypeOK /\ HANetOK /\ HATableSound`. `HANetOK` says that what is on
the network are packets; the type of a slot follows from the type of the
request stored in it. `HATableSound` is needed for the types: `ChosenSlot` is a
slot only because "not full" leaves an empty slot, and that follows from
`Used(a) = 1 .. haNum[a]`, which the search order (first empty slot) preserves.
From it: `HATypeCorrect`, `HATableAlwaysSound`, `HARouteAlwaysAgrees` (the
route written is the one of the binding written, and other home addresses'
routes and bindings are untouched because a home address has one slot),
`HABindingsStay` (an action property), `HARepliesAlwaysBacked` and
`HAConnectedAlwaysTold`. `AcceptWrites` states once what a step writes;
`ChosenSlotIs` states once what the chosen slot is. `HomeAgentImplements` is the
refinement: from `HATableSound`, the book of an agent that accepts a request is the
old one without the line of that home address, and with the new line
(`AcceptWritesLine`), and an agent that is not full has room for one line more
(`LinesFit`: lines have slots of their own, all below the limit).

**`ForeignAgent_proofs`.** `FAInv` joins the types, the soundness of the entry
(`FASlotUsed`), what the job at hand has done (`FAWorkOK`), the properties about rules
and connections, and `NetOK`: each packet on the network is of a vehicle, a foreign
agent or a home agent, and says what its sender may say. That a foreign agent
forwards only visitors' requests and relays only home agents' replies follows from
`NetOK` alone; that it *keeps* so needs the packets the agent reads, which
`RequestRead` and `ReplyRead` state once. `NetGrows` says that a packet more takes no
reason away. `FARuleAlwaysComplete` needs `FAWorkOK`: from the link to the new rule
the device is up, from the route to the new rule the table has the route of the
job, and before the new rule the table has none; the deletion leaves none because
there was one at most. There is a lemma per call (`TunnelKeeps`, `RouteKeeps`,
`DeleteKeeps`, `NewRuleKeeps`), and `RestartKeeps` moves the job from `faPc` to `faCut`.

**`Obu_proofs`.** `ObuInv` joins the types, `ObuListSound` (an entry's home
and source address are of the network of the home agent it names, and
without a home agent every entry names its own agent), `ObuAskedSomeone` (a wait
that has begun has an agent before the loop gets to it, whatever the command
thread writes), `ObuRxSent` (what the packet socket holds was sent), `ObuNetOK`
(the same of addresses in packets) and the properties. The agent list grows by
one entry or one entry is replaced; a lemma for each says what it keeps.

**`Handover_proofs`.** For one vehicle, any number of agents, any table sizes and
restarts. `HandoverInv` adds to `ObuInv` what the packets say about bindings
(`WireOK`: a reply that an agent or a vehicle may read is backed by `haBound`) and
that an entry names a home agent or its own agent (`ListNames`). From it:
`HomeAgentAlwaysHA`, `AttachedAlwaysBound`, and `HandoverImplements`: a step of
a home agent is a `Bind` or nothing, a step of a foreign agent nothing, a
step of the vehicle an `Attached`, a `Detach` or nothing. `HomeAgentsAlwaysOK` and
`ForeignAgentsAlwaysOK` discharge the assumptions that `HASpec` and `FASpec` make
about their surroundings (`AgentsInvariant` carries `HandoverInv` and `FAInv` together,
because a foreign agent forwards calls later than it read): every step of the composition is, for the home agents
and for the foreign agents, one that their own invariants survive. With the first,
`HandoverKeepsRegistry` carries the refinement of `Registry` over to the
composition: what the vehicle and the foreign agents do (`OthersAreClients`) leaves
books and acknowledgements alone. The named
assumption that matters is `AddressAssumption`: link addresses of vehicles and
agents differ, and no agent has an address that a vehicle gives itself.

**`ObuMailbox_proofs`.** For every `QMax`, with every load and store a step.
`MailboxInv` is the types and three parts. `RegsFit`: only the loop lowers
`recv_wsa`, so no byte that a thread holds would lower a raised one (radio) or
raise a lowered one (loop); hence a raised one stays while the loop goes from its
test to `recvfrom`. `MailBacked`: until the loop is misled, every raise that was
meant and every one that is coming has a datagram of its own. `WaitBacked`: while
`waiting_regreply` is not among `undone`, it is set only between a request and the
end of the wait, with the agent known. From it `MailboxReadAlwaysFinds` and
`MailboxWaitAlwaysHasTarget`: both faults of `mailbox_safety` have the shared byte as
their cause, not the handshake. Without that escape the second is false, as
`mailbox_target` shows. `LoadKeeps`, `RadioStoreKeeps` and `LoopStoreKeeps` do the
work once for all fields.

**`RelayServer_proofs`.** `RelayTypeCorrect` (the two indices of the threads stay
within the table, which is what the code relies on where it indexes),
`RelaySlotsAlwaysCounted` (the counter is its first value plus the number of used
slots), `RelayOlderCopyAlwaysDies` (with it, that a free slot has no life left),
and `RelayStuckAlwaysCaused`, from `StuckInv`: descriptor 0 is the standard input
until the first stray close, and the job thread's only while it has a socket
open; `g_curl_isused` stays set only behind a download that failed
or two stray closes.

**`RelayOrder_proofs`.** `RelayAnswersAlwaysInOrder`. A message is pushed back twice on
its way, so the queue is not sorted. `OrderInv` orders it by number and stage
together (`Before`): an older message in front has come as far in its job as
those behind it, a younger one in front has come less far. The message at
hand is in front of the queue, or behind it when it is to be pushed, and what was
answered is older than all there is. `RelayImplementsAnswerLine` is the refinement:
a step that answers nobody leaves nothing in the line that was not there
(`LineLoses`), and a message that is answered is at its last stage, so by
`Before` all others are younger, and none is the same.

**`MemoryQueue_proofs`.** `MemoryTypeCorrect`, and `MemoryAlwaysOverrunByRace`:
for any sizes and any area the first write behind the area is one of a push that
another push came before. `RoomInv` carries the room that was looked at to the
store: pops only make room. `MemoryRuinAlwaysCaused`: what the program touches
outside of the block it touches after such an overrun, or after the shift of the
list has lost an entry. `MemoryImplementsFifo` is the refinement. Where a message
begins is the sum of the sizes before it, a recursive function (`Begin`); for the
proof the beginnings are any function with its two equations (`Begins`), and
`PackedInv` says that there is one that ends at the write position and grows by at
least one cell per message. That the two functions are the same is an induction over
the count. The library's
induction theorem takes an operator; `UpToInduction` states the induction for a
*set* of numbers and derives it from the least element of its complement
(`NatHasLeast`, from `WellFoundedInduction`). `StoresPacked` and `PopsPacked` are the
two ways in which the invariant moves: one more beginning, or all of them
shifted down by the first size.

**Only model-checked.** All liveness (`HAAnswers`, `FAForwards`, `ObuListens`,
`MailboxLoopTurns`, `MailboxKeepsReading`, `MailboxOpenFrees`, `HandoverRelayed`, `FindsHome`,
`RelayDrains`, `RelayFullEmpties`): fairness and `ENABLED` are out of the prover's
reach. Every invariant, every action property without fairness and every
refinement that a passing run checks is proved. Three invariants are only proved, not
checked by a run: `MailboxTypeOK`, `HAConnectedWasTold`, and `RelayAnswersInOrder`, which the
refinement `RelayImplementsLine` contains.

## 5. Disagreements between code and documents

With a run: see "findings" of `PROJECT.json` (`mailbox_target`, `ho_address`,
`relay_flush`). Met while modelling and present
in the models, without a run of their own:

- A full table ignores requests without the reply that a code exists for
  (`main.h` 191), those of known vehicles too (`HAIgnoreFull`).
- The lifetime in a reply is `htonl(1800)` in a 16-bit field, hence 0
  (`ReplyLifetime`); nothing reads it.
- The S flag asks the home agent to keep prior bindings (`main.h` 146); a
  binding is overwritten (`HAAccept`).
- The foreign agent's counter grows with every request of another vehicle than
  the last (`FARequestNewcomer`).
- A vehicle's first request at a foreign agent sets up no tunnel; only the
  branch of known vehicles does (`FARequestRegisted`).
- The refresh of an agent writes the payload's home address and not
  `source_address`, in another byte order (`Refreshed`).
- A command that passed its check is erased by the end of a tick (`EndTick`).
- A refused handover leaves the default route at the agent that refused
  (`AskEntry`, `Refuse`); the protocol document, 7.1 step 4, deletes it.
- An older request that comes late replaces a newer binding; the header has a
  code for a mismatch of identifications (`main.h` 194), which no agent sends.
- A foreign agent has room for 128 vehicles (`fa.h` 4) and uses one entry: a
  second vehicle is not forwarded while the first is connected
  (`FARequestNewcomer`).
- A late reply ends the next wait: the protocol document, p. 13, has the
  Identification match requests and replies, the code compares addresses
  (`Match`).
- The mailbox is armed twice per tick and read once, and a raise that gets lost
  leaves its datagram, so the socket fills up; from then on every advertisement is
  dropped without a raise (`LoopRearms`, `LoopArms`, `RadioDrops`).
- A download that fails leaves `g_curl_isused` set, and the next message waits
  for it for ever (`relay.c` 955; `JobDownloadFails`).
- A slot is zeroed before what it holds is closed, so descriptor 0 is closed
  (`relay.c` 432; `ServerExpires`).
- From message 256 of a client on `%02X` prints three digits, and the length
  behind it is read one digit off (`relay.c` 379; `Framed`).
- The room behind the end of the area is computed as an unsigned difference,
  which is never negative (`memory.c` 211; `Available`).
- The list of sizes is shifted by a number of bytes that is meant as a number of
  entries: 128 of 1,024 move (`memory.c` 123; `MovedDown`).

## 6. Not modelled, and why

- `f_e_V2XHO_Registration_OBU_Del` (`ha.c` 633-688): nothing calls it.
- Distance, reception statistics, nearest agent (`obu.c` 829-921, 1062-1127):
  no decision depends on them.
- `remaining_lifetime`: nothing counts it down.
- Errors of `ip route`, `ip tunnel`, `ip rule`: ignored by the code, and the
  kernel is taken to do what it is asked.
- A second vehicle in `Handover`: all vehicles take host 28 of an agent's
  network, so two of them share a home address; `HomeAgent` and `ForeignAgent`
  have requests of several vehicles.
- The NUVO client and the V2X forwarding of the relay server (`relay.c`
  1535-2407): a polling loop of HTTP requests that asks the operator at each
  step.
- The advertising threads and the reception filter: timers and formatting; in
  `Obu` any agent may be heard at any tick, which is more than any schedule gives.
- The programs of section 1 that are marked "no".

The modelled share of the repository's lines stays far below a third and cannot
reach it: nearly all of the lines are generated or vendored (section 1).

## 7. Plan

Done: the V2XHO protocol with its three parties, their composition and its
refinement, the mailbox, the relay server and its memory; every safety property
of a passing run proved, the four refinements (`Attachment`, `Registry`,
`AnswerLine`, `MemoryFifo`) included.

Worth doing next: `Handover` with two vehicles that share a home address (host 28
for all); a schedule of advertisements, with what a drifting clock does to the
slots 3, 6 and 9; the OBU's reception statistics, where the lists shift past
their end (`obu.c` 1066); the NUVO client; an abstract queue under
`RelayServer` that is `MemoryFifo` itself, so that what `MemoryIsFifo` says is used
there by name. Liveness stays with TLC.
