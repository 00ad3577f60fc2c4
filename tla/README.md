# Verification of side_work

`side_work` is a collection of small C programs: an XDP packet filter with its
loader, netlink and netfilter kernel modules with their clients, nl80211 and
rtnetlink tools, sockets, and textbook algorithms on lists and arrays. This
project models the parts that run concurrently with something else (other CPUs,
other processes, the kernel, a peer), because these are the parts a test reaches
least, and the algorithms, against references, on every small input. The central
facts about the concurrent parts are proved for any number of CPUs, loaders,
clients, scans or messages.

## Inventory

| Component | State | Operations | Interacts with | Hard behaviour |
|---|---|---|---|---|
| XDP program (`bpf/xdp_prog.c`) | BPF hash map: bytes and packets per {source, destination} | one call per frame: header tests, lookup, insert or update in place | every CPU, the loader's reads | unlocked read-modify-write, pointer into the map held across other CPUs' updates, full table |
| Report loop (`bpf/prog_loader.c` 111-151) | position of the walk | get next key, copy value, print | the map while it changes | keys are moved while it walks |
| Loader life cycle (`bpf/prog_loader.c` 32-107) | pins in `/sys/fs/bpf`, program on the hook, descriptors | load or reuse, pin, attach, signal handler | other loaders, its own earlier runs | killed between two pins, refused pins, two loaders at once |
| Netlink echo (`netlink_kernel.c`, `netlink_vincent*.c`) | globals `user_pid`, `count`; sockets and their buffers | input callback, unicast reply; send, receive | several clients | callbacks of several senders share the globals; full buffers |
| Scan programs (`scan_NL80211_CMD_TRIGGER_SCAN.c`, `scan.c`) | `err`, `done`, `abort`; the socket's queue | join, trigger, two waits, dump | the kernel's scanner, other scanning processes | one queue for replies and events, refusals, lost membership |
| UDP counter (`drop_UDP.c`) | `count`, `port`, proc files | hook, show, write, insert, remove | CPUs sending packets, processes using the files | unlocked addition, wrap-around, shared pointer |
| Station info (`get_sta_info_...c`), `genetlink_test.c` | flags `err`, `idx`, `got` set by callbacks | two requests, three waiting loops | the kernel | waits that only a certain answer ends |
| rtnetlink dumps (`get_addr.c`, `get_link.c`, `get_route.c`) | a buffer reused for every datagram | receive, walk over messages, walk over attributes | the kernel, which splits a dump as it likes | lengths that reach past a message, leftovers in the buffer |
| Route listener (`netlink_user.c`) | none | poll, print, sleep | the kernel, which drops what does not fit | bursts |
| TCP pair (`server.c`, `tcp_client.c`) | a buffer that is never terminated; `retry` | listen, accept once, receive; connect, send | each other | order of starting, streams cut at any place |
| Linked lists, sorts, GCD, multicast frame | a heap of nodes, an array, a frame | one algorithm per program | nothing | boundary cases, freed nodes, overlapping writes |
| netfilter test module, child processes, samples | small | see PROJECT.json | kernel | partial initialisation |

What makes each of them correct: the counters equal what was dropped (or, where
they race, never exceed it); a report covers the map; the pins belong together
and a loader reads the map its program writes; a reply goes to who asked; a
scan program ends and dumps the results of a scan; the byte counter counts
bytes; a reader prints every entry once and with its own attributes, and a waiting
program ends once it has an answer; a list or sort program computes what the
sequence reference computes and neither leaks nor loses a node.
PROJECT.json lists the hazards line by line with the properties that cover them.

## Modules

### XdpDropIcmp, IcmpCounter

`XdpDropIcmp` has one action per access of a CPU to shared state: `Lookup`
(59), `UpdateNew` (64), and the loads and stores of lines 66 and 67. A frame is
its length, two header tests and its key; `HeaderVerdict` makes the tests in the
order of the code and never reads a header that lies beyond the frame. Frames
decided on headers alone do not touch the map (`DecideOnHeaders`); `TypeOK` says
that every frame inside the program is a whole ICMP frame (`Whole`).

The map is external. The program holds a raw pointer into it, so the kernel's
preallocated elements are modelled one by one: an insertion takes a free
element, an update of a present key links the CPU's spare element in place of
the old one, which becomes the spare. That is what lets a pointer go stale.
`stamp` and `Bucket` give the order in which get-next-key sees the keys.

History variables: `dropped[k]` frames of key `k` were dropped, `credit[e]`
frames were counted into element `e`.

`IcmpCounter` is the abstract counter: every dropped frame adds one and its
length in one step, unless its pair is new and the table is full.
`XdpDropIcmp!ImplementsCounter` is the refinement. The mapping hides the bytes
of a frame that is between its byte update and its count update (`Unsettled`).

### MapReport

Extends `XdpDropIcmp` with the loader's walk. `CopyBytes` and `CopyCounts` are
separate steps since the kernel copies a value without a lock. `stable` is the
set of keys in the map since the pass began and not moved since: those the pass
owes a line. `moved` says that some key was relinked during the pass.

### ProgLoader

One action per system call of `main`. Loading creates a program with its own
map; both get one number, so that "the map of that program" is an equality.
`obj = NONE` is the uninitialised local; `FindMapWild` and `FindMapFaults` are
the outcomes of looking a map up through it. The code looks at no result of
`bpf_obj_get` and only reports that of `bpf_obj_pin`, so each of these calls may be
refused and the loader goes on: `GetProgFails` and `GetMapFails` leave it with the
bad descriptor (with which attaching detaches), `PinProgFails` and `PinMapFails`
leave the path free, and `refused` records what was not pinned. `Kill` may come between any two
calls; `int_exit` is the signal handler, which detaches whatever is on the hook
once `ifindex` is known. Pins and the attachment survive the process. `overlap`
records that two loaders have run at once.

### NetlinkVincent

`sendmsg` runs the module's callback in the sender's context, so a client's
program counter continues into `recv_user_msg`. `SetUserPid` belongs to `Send`
(line 50 is the first thing the callback does); the global is read again in
`ReadUserPid`. `Unicast` delivers if there is room or discards. `Looper` clients
run `netlink_vincent.c`, the others `netlink_vincent_malloc_ver.c`; `Malformed`
ones stand for any other program whose header fails the length test. An open
socket holds a reference on the module, so `netlink_exit` waits for it.

### Nl80211Scan

Both scan programs. `TriggerScanMain` and `ScanMain` list the steps of the two
mains; where the code differs, a shared action has an argument that says how
(`NotSent`, `LeaveWaitAck`, `LeaveWaitDone`, `Dump`). `nl_get_multicast_id` asks
for the family, which may not exist or may lack the group. The kernel (external)
runs one scan at a time, replies while a request is being sent, and multicasts
start and end of every scan. A wait handles one datagram per step. The default
callbacks of libnl, which the dump uses, check sequence numbers; the callbacks of
the waits do not. The kernel queues a dump piece by piece (`DumpPiece`), so that
events may fall among the results. A result is known by the parts it has (the
constant `has`): `callback_of_get_scan_result` and `callback_dump` skip a result
that lacks a part they test for and fault on one that lacks a part they read
untested (`Handle`); formatting is left out. `MCNl80211Scan` has a result that is
whole and, for each part, one that lacks it.

### DropUdp

The hook function as a load and a store per packet, the two proc files, and
`port_write` in two steps: allocation (88), then parsing (98) through the global
pointer. A new block holds `GARBAGE` until something is parsed into it. The text is
copied into an uninitialised buffer and not terminated, so that a number whose end
was not written runs on into what the stack held: such a text is `OPEN`, and it is
either refused or stores any number. The counter has `Width` bits.

### SocketReaders

One program runs, chosen in `Init`.

* Dumps: the reply buffer is modelled word by word. A word is what it would be as
  an attribute header (length, type, whose entry it came with), so that a walk
  that leaves its message meets what is really there: the next message, or what an
  earlier datagram or the stack left. `Receive` lets the kernel put any number of
  entries in a datagram, with the end of the dump in the last one or alone.
  `parse_*_entry` call `parse_attributes` with the length of the whole message, as
  the code does, and `parse_addr_entry` looks for the name behind a link header.
* Listener: `RouteChange` (external) drops a notification that finds the socket
  full, `Listen` is one poll that finds one.
* TCP: every character has its message, `ServerRecv` returns any number of those
  that wait and prints up to the first terminator, which may be far behind what
  was received; where a receive has left no terminator in the buffer, what lies
  behind it is printed too (`"?"`, up to `MaxStray` characters). A receive that fails
  prints the old content (`ServerRecvFails`). `ClientConnect` counts the tries down.
* libnl programs: an answer is a sequence of messages ending in DONE, or ERROR;
  `nl_recvmsgs` runs the callbacks over all of it or fails on the way. A line about
  a station has the attribute it is printed for, its label, and the attribute it
  shows, which in this code are not always the same; a nested attribute may fail to
  parse (`STA_INFO_BAD`, `TX_BITRATE_BAD`, `RX_BITRATE_BAD`).

### SingleLinkedList, Sorting, Programs

`SingleLinkedList` has a heap (`head`, the live nodes, `next`, `value`), `malloc`
and `free`, and one operator per function of the list programs. Reading through
NULL or a freed node gives `FAULT`. `Sorting` has the sorts on arrays indexed
from 0, the GCD and the octet writes of the multicast frame. Loops are recursive
functions. `Programs` has one action per program: `main` fills a list (the
literals of the code replaced by any values), takes what a user enters, calls the
function and prints. `delete_by_position` goes on, as its `while (1)` does.

Operators whose comment starts with "Mutant" are wrong variants of the definition
after them; they are in no specification. For each property of a passing run
PROJECT.json names the variant that breaks it.

## Runs

Passing runs:

| Run | Bounds | Shows |
|---|---|---|
| `xdp_one_cpu` | 3 keys, 3 elements (capacity 2), lengths 13, 14, 33, 34, 60, 5 ICMP frames | exact counts and refinement of `IcmpCounter`, with header boundaries and a full table |
| `report_two_cpus` | 2 CPUs, 3 keys in 2 buckets, 4 elements (capacity 2), 3 frames | races lose frames and never add any: no element shows more than was counted into it, the whole map no more than was dropped; only a full table leaves a source without an entry; a pass prints every entry that is not moved during it, prints nothing twice while nothing is moved, prints true counts while every update is an insertion, and ends |
| `loader_pair` | 2 loaders, 4 runs, any pin or lookup of a pin refused | reusers hold the pins; with one loader at a time, killed anywhere, pins agree and reports read the attached program's map, as long as no pin of a program was refused |
| `netlink_clients` | 3 clients, buffers of 2 | no invented reply, no reply to a client that never sent, serial replies go to the asker, `sendmsg` returns |
| `scan_shared` | 3 foreign scans, dumps of up to 2 results, each whole or without one of its 8 parts, unknown group, failing joins and sends | no dump without results; alone, own results; a dump that ends well has shown every result that has what a line shows, and got past none that lacks an attribute read untested; accepted requests end |
| `udp_module` | 2 CPUs, 2-bit counter, 6 bytes, 2 processes, 3 writes | no bytes invented, exact modulo the width when serial, an accepted undisturbed write is held if its number has an end |
| `socket_readers` | tables of up to 3 entries, 5 route changes with room for 2, 2 TCP clients with 3 messages of 2 characters and a buffer of 5, 1 failing receive, 1 character from behind the buffer, up to 2 interfaces and 2 stations | no entry or event skipped, repeated or reordered; leftovers show only at the end of a datagram, and nothing of a later entry ever; the server gets its client's characters complete and in order, leftovers only behind them; all stations are shown, with what can be read of them; a program with an answer it can use ends, and so does every TCP client |
| `algorithms` | lists of up to 5 values from {0, 1, 2}, user entries from -1 to 6, a table of 2 hash slots, `INT_MAX` 511, arrays of up to 4 any and of 8 and 9 binary values | every program gives what its reference on sequences gives (with a hash table, while no two values collide), faults on exactly the listed inputs, and no node is leaked or freed while linked |

Why the bounds are enough. On one CPU five frames fill the table, miss it and
count twice. The races need two CPUs in one update and one more frame to make the
loss visible; in `report_two_cpus` one frame inserts the entry that stays and two
insert and relink another one around the walk. Keys never leave the map, so each
key is moved at most once per CPU that missed it, and a bound on the frames hides
no endless traffic from `PassEnds`. Four runs of a loader allow a kill before,
between and after the pins and a clean run, and a refused pin with the run after it.
Two results in a dump let a good one follow a skipped one, and three foreign scans
put events before, among and behind them. A 2-bit counter wraps within six
bytes. Three entries make a datagram that is shorter than its predecessor and
still has more than one message; a buffer of 5 takes two and a half messages, so
that receives cut and join them, and six characters fill it once. Lists of 5 have a middle, ends, duplicates and
loops of every length the programs make; 511 is passed by the numbers of three
digits, and array lengths 8 and 9 lie on both sides of where `do_merge` goes wrong.
Symmetry is used for CPUs, elements, processes and blocks in safety runs only.
Where deadlock checking is off, the system may really stop: traffic is bounded,
processes end, clients block.

Violation runs, each for a statement of the repository that the code does not
keep (the findings in PROJECT.json quote the lines):

| Run | What happens |
|---|---|
| `xdp_stale_pointer` | CPU 1 looks up an entry; CPU 2, which missed its key, replaces the element and has the old one as its spare; CPU 2 and CPU 3 both miss another key, and CPU 2 links the spare for it; CPU 1 stores through its pointer. With one or two CPUs `CountsNotAbove` cannot fail: a third has to make the second key present between a miss and its update. |
| `loader_crash_window` | interrupted between the pins; the next run uses an uninitialised `obj`, and no run ever pins a map |
| `netlink_wrong_recipient` | two callbacks overlap, both replies go to one client |
| `scan_refused_hangs` | the request is refused, the program waits for its end |

Seen while modelling and visible in the conditions of the passing properties:
exact counts need a single CPU; `PassComplete` needs the start key {0, 0} to be
absent from the map; of two racing loaders the second runs a program that is not
the pinned one (`PinsAgree` and `ReportsOnAttached` assume no overlap), and after a
refused pin of a program the next run pins a second program beside the first one's
map and reports from that (they assume no such refusal either, and fail at once
without the assumption); `scan.c`
may take the end of a foreign scan for its own, and a foreign event left in the
queue fails the dump (`AloneOwnResults` assumes no foreign scan); both scan programs
fault on a result without an attribute they read untested (`ResultsShown` is about
dumps that end well); the UDP total
is shown as a signed number (`SerialCountExact` stops at the sign bit); a
rejected write replaces the port by uninitialised memory (`AcceptedPortHeld`
ends with the next write), and a number written without a newline is read together
with what the stack held (it then only says that some number is shown); the
attribute walks of the dumps run past their message, so that at the end of a
datagram what an earlier one left may be shown, even in the place of an own
attribute, where `get_route.c:39` says "Parse all attributes of this entry"
(`OwnAttributes`); the server prints leftovers behind a short receive, reads past
its buffer after a full one and repeats itself after a failed one (`ServerLines`);
`get_sta_info` and `genetlink_test` wait for ever without an interface or a station
(`AnswerEnds` starts from an answer), and four lines about a station do not show
what their label names (`Mislabelled`: received bytes as TX_BYTES, sent packets as
RX_PACKETS, the signal of each chain as SIGNAL, the Tx width with the Rx rate), of
which RX_PACKETS faults if TX_PACKETS is absent (`StationShown` lists them and
excludes any other); `merge_sort` sorts up to 8 elements (`SortsCorrect`); the hash
version of the duplicate removal also deletes values that only share a slot, so
that `EditsMatch` asks it to remove duplicates only while no two values collide, and
otherwise that none is left twice and whatever is gone shares its slot with a value
that is left; `FaultsOnlyOn` lists the inputs on
which list programs read through NULL.

## Fairness

* `RSpec`: the loader keeps running and `sleep` returns. Traffic gets none.
* `NetlinkVincent!Spec`: a client inside `sendmsg` keeps running (kernel code
  that does not wait). Nobody has to read replies or send.
* `Nl80211Scan!Spec`: the program runs while a step is possible, and a scan that
  has started ends (drivers time out). Other processes need not scan.

* `SocketReaders!Spec`: a libnl program runs on while there is something to read,
  and each TCP client runs, since its sleeps end. Nobody has to start the server,
  nor the server to read.

The safety specifications have none.

## Proofs

`XdpDropIcmp_proofs` proves, for every set of CPUs, keys, elements and frame
lengths, under the assumptions named in `XdpDropIcmp` (the model value `NULL` is
none of the others, lengths are naturals, there is a spare element for each
CPU):

* `TypeCorrect`: `Spec => []TypeOK`. `TypeOK` is inductive as it stands because
  it ties `frame` and `value` to the program counter: a CPU inside the program has
  a frame that passed all header tests, and one that stores through `value` has one.
* `NoDoubleCount`: `Spec => []CreditBound`. The strengthening says that the
  count a CPU holds in its register between load and store is not above the
  credit of the element it points to; credits only grow, so this survives what
  other CPUs do.
* `LostOnlyToFullTable`: `Spec => []UntrackedOnlyWhenFull`. Entries are never
  removed, the free list only shrinks, and a frame is only counted as dropped by
  a step that finds or makes its entry or finds the list empty; for a CPU that
  updates in place the invariant adds that its key has an entry.
* `ExactOnOneCpu`: with a single CPU, `Spec => []CountsExact`. The invariant
  says that no element is linked twice, that the pointer is the element of the
  frame's key, and what the register holds at each step.
* `RefinesCounterOnOneCpu`: with a single CPU, `Spec => ImplementsCounter`.
  `RefineInv` adds to that invariant what the byte register holds, and that every
  element is linked, free or the CPU's spare, so that the free list is empty
  exactly when the table holds as many keys as it can. The store of
  the count, and an insertion, map to the step of `IcmpCounter`; an insertion
  that finds no element maps to its loss; everything else stutters, the store of
  the bytes because `Unsettled` hides them until the count follows.
* `TotalBounded`: `Spec => []TotalNotAbove`, on any number of CPUs. No bound per
  source survives a stale pointer, so the invariant is about sums: the credit of
  all elements is at most the frames dropped of all keys (`CreditTotal`), and an
  element has at most one owner - a key, the free list or a CPU (`PoolInv`) - so
  that the linked elements are a part of all of them.

`MapReport_proofs`, on any number of CPUs:

* `ReportKeepsSpec`: `RSpec => Spec`. The loader only reads, so every theorem above
  holds while it runs.
* `PassIsComplete`: `RSpec => []PassComplete`, for a map whose keys do not include
  the key {0, 0} a pass starts from (otherwise it is false). A stable key that has
  not been printed is ahead of the walk (`CompleteInv`); that the order of the keys
  that stay is kept under the walk is `TrafficOrder`, which needs that a new
  link is younger than all others (`StampInv`).
* `PrintsOnce`: `RSpec => []PrintedOnce`. Until a key is moved, what was printed is
  behind the walk (`Behind`).
* `ChargedWhileInserting`: `Spec => [](InsertOnly => CountsNotAbove)`. As long as
  each update inserted, `CountsNotAbove`, which `xdp_stale_pointer` refutes in
  general, does hold on any number of CPUs: a pointer is then the element of its
  key (`CountsFresh`). The map has no more keys than there were updates, which is
  what makes `clock = Cardinality(Live)` say that none was a replacement.
* `ReportsFresh`: `RSpec => []ReportFresh`, from that and what the loop holds
  between its two copies (`ReadFresh`).

`ProgLoader_proofs`, for any number of loaders and runs (assuming that `NONE` and
`BAD` are no programs):

* `TypeCorrect`: `Spec => []TypeOK`. That no more programs are loaded than there
  were runs needs the number of loaders that may still load (`LoadsBounded`).
* `ReuserCorrect`: `Spec => []ReuserHoldsPins`. `PinInv` says from which line on a
  pin exists and which descriptors are copies of it (or bad); it is stable because
  no step replaces a pin.
* `PinsBelongTogether` and `ReportsAttached`: `[]PinsAgree`, `[]ReportsOnAttached`.
  `LoneInv` says that without overlap and without a refused pin of a program one
  loader at most is on, and what it and the runs before it have made at each of its
  steps. Refused pins of a map and refused lookups need no assumption.

`NetlinkVincent_proofs`, for any number of clients and any buffer size:

* `TypeCorrect`: buffers and requests stay within their bounds; the invariant adds
  that a client about to send has requests left (`RequestsBounded`).
* `OnlySenders`: `[]OnlySendersAnswered`, because `user_pid` and every copy of it
  name past senders (`NamesSender`).
* `SerialCorrect`: `[]SerialAnswersAsker`. While callbacks have not overlapped the
  active one is alone, `user_pid` and its copy are its client, and an accepted
  request has a reply left. That `user_pid` is not reset under it needs
  `Referenced`: who is in the callback has a socket, and the module stays.
* `NoExtra`: `[]NoExtraAnswers`. The invariant is a ledger (`LedgerInv`): replies and
  the callbacks that still have one to make, summed over all clients, are at most
  the accepted requests, and the same for the global `count`.

`Nl80211Scan_proofs`, for any number of foreign scans and results: `TypeCorrect`,
and

* `CauseOfDump`: `[]DumpHasCause`. The invariant is that an event with results in
  the queue, and `done` without `abort`, both mean that a scan ended with results;
  lemmas say that concatenation, `Append` and `Tail` keep it.
* `AloneSeesOwn`: `[]AloneOwnResults`. Without foreign scans an end of a scan in the
  queue is the own one and the last message in it (`EndIsLast`), so that a program
  that leaves its wait leaves an empty queue; `Alone` says this step by step.
* `DumpShowsAll`: `[]ResultsShown`, for any results with any parts. `ShownInv` divides
  the answer at some n: the first n results have been printed or skipped as they
  should (`PrintedUpto`), and what was sent of the others is at the head of the
  queue, up to its end or to something that is no answer, which fails the dump
  (`Ahead`). What the two handlers do with a result is `HandlerCorrect`.

`DropUdp_proofs`, for any number of CPUs, processes and blocks and any width
(assumed: the powers of two that belong to it are positive, one twice the other):

* `TypeCorrect`: the counter stays in its width; who parses does so into a block.
* `PortHeld`: `[]AcceptedPortHeld`; after an undisturbed write nobody is writing and
  the pointer is at the block written, which holds the number or, if its end was
  not written, some number.
* `SerialExact`: `[]SerialCountExact`; one packet at most is in the hook, and the
  counter is the total without it, modulo the width. It rests on `AddModulo`, that
  reducing a summand does not change a remainder.
* `NeverAboveTotal`: `[]CountNotAbove`. A store may overwrite what others counted, so
  the invariant bounds the counter, and every loaded value, by the total without
  the packets that are in the hook (`BelowInv`).

`SocketReaders_proofs`, for any clients, number and length of messages and size of
the buffer and of failed receives (assumed: messages are not empty, the buffer has
room for its first value and a terminator, no character is the terminator, and no
client is called "off" or "listening"), for a table of any
length (assumed: its bound `MaxEntry` is a natural number), and for any number of
wireless interfaces and stations (assumed: `MaxIface` is a natural number, and an
answer is a sequence of sets of attribute names):

* `ServerReadsStream`: `[]ServerLines`. `ServerInv` says of every client, connected or
  not, that what the server got from it and what waits is what it sent
  (`TcpStream`), and of the buffer that each place holds what the last line that
  reached it left there, or the terminator if none has (`LastLeft`), so that a
  buffer without a terminator was once filled. The second is about all lines so far and cannot be had from the property alone, which
  speaks of printed text only.
* `EntriesInOrder`: `[]EntriesOnce`. Of what `Datagram` concatenates, `DatagramFacts`
  gives the positions: message after message, each with its length, entry and type
  in its first two words, then the end of the datagram or of the dump (`Laid`,
  `EndsAt`). `DumpOK` says that the header the loop is at (`at`) is one of these
  positions, that what is left reaches to the end, and that the lines so far
  show the entries before it (`Chain`, `Upto`); so `left` is 0 only behind the last
  message, and a step over one prints its entry if it is to be printed. What else
  the buffer holds does not matter here. For the listener, `ListenOK`: its lines and
  its queue are the changes so far while none was lost.
* `LinesShowOwnAttributes`: `[]OwnAttributes`. To `DumpOK` belongs what a datagram
  leaves in the buffer: the attributes of each message at their places (`Filled`), and
  behind the last message only words of earlier entries (`Behind`). `ParseOwn` follows
  the walk of `parse_attributes`: its first rounds meet the attributes of the entry
  (`Walk`, `ParseStep`), and then it is at the end of the message with the length of
  the header left. If another message follows, its first word, read as an attribute,
  is longer than that (`AttrsOK`: every entry has an attribute), so the walk ends
  there; if none does, it meets only what is older. The name of an address is looked
  for from the place where a link's attributes would begin, which is behind the
  first attribute of the address and loses nothing, as that one is never the name.
* `StationsOfLastInterface`: `[]StationShown`. `StationInv` says for both waits what has
  been read of the answer and what is left of it: `idx` is the last index among the
  interfaces read (`InterfaceWait`, `LastIndex`), and the output has one block for each
  station read (`StationWait`, `ShownUpto`). That the block of any set of attributes is
  right (`RightLines`, stated from the attributes and not from the callback) is
  `LinesRight`. `err` changes only at the end of the first answer,
  so that nothing of it is left when the second request is sent. `ReadInterfaces`
  and `ReadStations` say what a receive of any number of messages does to this.

`FiniteSums` holds what these share. Induction is done with sets: the set of the
numbers (or of the subsets of a finite set) for which a fact holds contains the
first one and with each the next, so it is everything, by the least-number
principle. With it, the recursive functions of the model (`SumFunctionOnSet`,
`FlattenSeq`, `Complete`) are shown to exist and to satisfy their equations, and
then what they give for one value changed or one element appended. CPUs, clients,
keys and elements are assumed to be finite sets for this.

Only model-checked:

* `PassEnds`, `SendmsgReturns`, `AcceptedEnds`, `AnswerEnds`: liveness under fairness
  (and `ENABLED`) is out of the prover's reach.
* `EditsMatch`, `AnswersMatch`, `FaultsOnlyOn`, `MemoryKept`, `SortsCorrect`: what
  recursive programs compute on every list or array, which is induction over data
  from end to end. Their loops are functions on all heaps or arrays, a cyclic list
  included, on which they do not end; so their equations cannot be had from the
  length of a walk, as those of `parse_attributes` and `nl_recvmsgs` are.
* `FrameAddressed`: `FoldLeft` with an operator as its argument, which the provers do
  not expand. Its seven destinations are all the cases there are, and TLC checks each.

## Not modelled

`bpf_printk`, and how addresses, rates, names and flags are formatted; wrap-around
of the 64-bit counters of the map (2^63 frames); a reboot between two runs of the
loader; overflow of the scan programs' receive buffer and the flag of a dump that
was interrupted by a change; failure of `kmalloc` in `port_write`, texts longer than
its buffer, and the fault of reading `drop_port` before it was written; the
`memset` of the attribute tables of the dumps, which clears more than they hold;
`malloc` of list nodes with the size of a pointer, which the allocator rounds up;
failures of `bind`, `listen` and `accept`, which `server.c` ignores.

Components with status `not_modelled` in PROJECT.json: the netfilter test module
(a cut-down copy of the netlink module that answers nothing), the child process
helpers (one call each), `rtnetlink_test.c` (does not compile), `example_scan.c`
(a copy of `scan.c`), straight-line samples of the language and the libraries, and
the vendored headers.

## Plan

1. Proofs: every safety property of the concurrent and the socket programs has its
   theorem. Of the list and sorting programs, lemmas about single functions of
   `SingleLinkedList` without recursion would be a start.
2. The partial initialisation of the netfilter test module, if it is ever made to
   clean up after itself.
