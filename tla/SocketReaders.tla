---------------------------- MODULE SocketReaders ----------------------------
(* The programs that read from a socket into a buffer:                     *)
(*   get_addr.c, get_link.c, get_route.c  dump a table of the kernel over  *)
(*                  NETLINK_ROUTE and parse the attributes by hand;        *)
(*   netlink_user.c listens for route changes;                             *)
(*   server.c       reads from one of the tcp_client.c that connect to it; *)
(*   get_sta_info_NL80211_CMD_GET_STATION.c, genetlink_test.c              *)
(*                  use generic netlink through libnl.                     *)
(* One of them runs.  The buffers are modelled word by word, because they  *)
(* are reused and what an earlier message left in them can show through.   *)
EXTENDS Integers, Sequences, SequencesExt, FiniteSets, FiniteSetsExt

CONSTANTS
  MaxEntry,     \* bound on the entries of a table
  MaxEvent,     \* bound on the route changes made while the listener runs
  RcvBuf,       \* notifications that fit the listener's socket
  MaxIface,     \* bound on the wireless interfaces and on their indexes
  Stations,     \* answers to NL80211_CMD_GET_STATION: for each station the set
                \* of attributes that are present, and of those that do not parse
  Client,       \* processes that run tcp_client.c
  Count,        \* bound on the messages each of them sends (10 in the code)
  MsgLen, Resp, \* the length of such a message and of the server's buffer
  MaxFail,      \* bound on the receives of the server that fail
  MaxStray,     \* bound on the characters behind its buffer that are printed
  NULL

ASSUME EntryAssumption == MaxEntry \in Nat

ASSUME StationAssumption ==
  MaxIface \in Nat /\ \A s \in Stations : s \in Seq(SUBSET STRING)

\* A message is not empty, none of its characters is the terminator, and the
\* buffer holds its first value with the terminator.
ASSUME TcpAssumption ==
  /\ Count \in Nat /\ MsgLen \in Nat \ {0} /\ Resp \in Nat \ {0, 1}
  /\ MaxFail \in Nat /\ MaxStray \in Nat
  /\ {"off", "listening"} \cap Client = {}
  /\ NULL \notin Client \X Nat

VARIABLES
  program,      \* which program runs
  pc,           \* where its main is
  table,        \* the entries or events the kernel has to send, in order
  sent,         \* how many of them it has sent
  pending,      \* what waits on the socket
  buf, at, left,\* the buffer reply, the header nlh and what is left of the datagram
  ends,         \* the entries that no other entry followed in their datagram
  shown,        \* the lines printed by these three and by the listener
  reg,          \* the libnl programs' err, idx and got, their output, and a fault
  server,       \* the TCP server: off, listening, or the client it accepted
  backlog,      \* the clients connected, in order
  client        \* what each client does, its retry and how often it has sent

vars == <<program, pc, table, sent, pending, buf, at, left, ends, shown, reg,
          server, backlog, client>>
bufVars == <<buf, at, left, ends>>
tcpVars == <<server, backlog, client>>

Dumper   == {"get_addr", "get_link", "get_route"}
LibnlUser == {"get_sta_info", "genetlink_test"}

------------------------------------------------------------------------------
(* The reply buffer.  A word is seen as the rtattr it would be if a walk   *)
(* came by: its length in words and its type; "of" is the entry it came    *)
(* with, 0 for what was on the stack.  Addresses, indexes and names are    *)
(* taken to be no attribute header.                                        *)

IFA_LOCAL   == 2
IFLA_IFNAME == 3    \* IFA_LABEL has the same number
RTA_DST     == 1
RTA_OIF     == 4
RTA_GATEWAY == 5
RTA_PREFSRC == 7
RTA_TABLE   == 15

Word(len, type, of) == [len |-> len, type |-> type, of |-> of]

\* Words of struct ifaddrmsg, ifinfomsg and rtmsg, and the numbers of the three
\* messages (RTM_NEWADDR 20, RTM_NEWLINK 16, RTM_NEWROUTE 24) read as a length.
Header == [get_addr |-> 2, get_link |-> 4, get_route |-> 3]
RTM_NEW == [get_addr |-> 5, get_link |-> 4, get_route |-> 6]

\* The attributes the kernel puts in an entry, in its order.
Entries ==
  [get_addr  |-> {[main |-> TRUE, attrs |-> a] : a \in {<<1, 2, 3>>, <<1, 2>>}},
   get_link  |-> {[main |-> TRUE, attrs |-> a] : a \in {<<3>>, <<3, 4>>}},
   get_route |-> {[main |-> m, attrs |-> a] : m \in BOOLEAN,
                    a \in {<<15, 4>>, <<15, 1, 7, 4>>, <<15, 5, 4>>}}]

\* A message with entry i: its nlmsghdr, the fixed part and attributes of two words.
Message(i) ==
  LET n == Header[program]
      a == table[i].attrs
  IN  <<Word(4 + n + 2 * Len(a), 0, i), Word(RTM_NEW[program], 2, i)>>
        \o [k \in 1..(2 + n) |-> Word(0, 0, i)]
        \o FlattenSeq([k \in 1..Len(a) |-> <<Word(2, a[k], i), Word(0, 0, i)>>])

NLMSG_DONE == <<Word(5, 0, 0)>> \o [k \in 1..4 |-> Word(0, 0, 0)]

BufWords == 16 * MaxEntry + 16

------------------------------------------------------------------------------
(* Receiving: the kernel fills a datagram with some of the entries left,   *)
(* and the end of the dump goes with the last or alone.                    *)

Datagram(n, done) ==
  FlattenSeq([k \in 1..n |-> Message(sent + k)]) \o IF done THEN NLMSG_DONE ELSE <<>>

Overwrite(words) ==
  /\ buf' = [k \in 1..BufWords |-> IF k <= Len(words) THEN words[k] ELSE buf[k]]
  /\ left' = Len(words)

Receive ==
  /\ program \in Dumper /\ pc = "recv"
  /\ pending # <<>>
  /\ \E n \in 0..(Len(table) - sent), done \in BOOLEAN :
       /\ n > 0 \/ done
       /\ done => sent + n = Len(table)
       /\ LET words == Datagram(n, done) IN Overwrite(words)
       /\ sent' = sent + n
       /\ ends' = IF n > 0 THEN ends \cup {sent + n} ELSE ends
       /\ pending' = IF done THEN <<>> ELSE pending
  /\ at' = 1 /\ pc' = "messages"
  /\ UNCHANGED <<program, table, reg, shown, tcpVars>>

------------------------------------------------------------------------------
(* Parsing.                                                                *)

RTA_OK(q, len) == q \in 1..BufWords /\ len >= 1 /\ buf[q].len \in 1..len

\* Mutant: the walk starts two words too far.
parse_attributesFar(max, rta, len) ==
  LET start == rta + 2
      walk[k \in 0..len] ==
        IF k = 0 THEN start
        ELSE LET q == walk[k - 1] IN IF RTA_OK(q, start + len - q) THEN q + buf[q].len ELSE q
      met(t) == {q \in {walk[k] : k \in 0..len} :
                   RTA_OK(q, start + len - q) /\ buf[q].type = t}
  IN  [t \in 0..max |-> IF met(t) = {} THEN NULL ELSE buf[Max(met(t))].of]

\* tb: for every type the attribute met last on the walk, here whose it is.  walk[k]
\* is where rta is after k rounds, of which len are enough; as it only goes
\* forward, the attribute met last is the one behind the others.
parse_attributes(max, rta, len) ==
  LET walk[k \in 0..len] ==
        IF k = 0 THEN rta
        ELSE LET q == walk[k - 1] IN IF RTA_OK(q, rta + len - q) THEN q + buf[q].len ELSE q
      met(t) == {q \in {walk[k] : k \in 0..len} :
                   RTA_OK(q, rta + len - q) /\ buf[q].type = t}
  IN  [t \in 0..max |-> IF met(t) = {} THEN NULL ELSE buf[Max(met(t))].of]

Line(id, tb, types) == <<[id |-> id, tb |-> [t \in types |-> tb[t]]]>>

\* The name is looked for as if the entry were a link.
parse_addr_entry(nlh) ==
  LET tba == parse_attributes(10, nlh + 4 + Header.get_addr, buf[nlh].len)
      tb  == parse_attributes(30, nlh + 4 + Header.get_link, buf[nlh].len)
  IN  Line(buf[nlh].of, [tba EXCEPT ![IFLA_IFNAME] = tb[IFLA_IFNAME]],
           {IFA_LOCAL, IFLA_IFNAME})

parse_link_entry(nlh) ==
  Line(buf[nlh].of, parse_attributes(30, nlh + 4 + Header.get_link, buf[nlh].len),
       {IFLA_IFNAME})

\* Mutant: the entries of every table are printed.
parse_route_entryAny(nlh) ==
  Line(buf[nlh].of, parse_attributes(30, nlh + 4 + Header.get_route, buf[nlh].len),
       {RTA_TABLE, RTA_GATEWAY, RTA_DST, RTA_OIF, RTA_PREFSRC})

\* Only the entries of the main table.
parse_route_entry(nlh) ==
  IF ~ table[buf[nlh].of].main THEN <<>> ELSE
  Line(buf[nlh].of, parse_attributes(30, nlh + 4 + Header.get_route, buf[nlh].len),
       {RTA_TABLE, RTA_GATEWAY, RTA_DST, RTA_OIF, RTA_PREFSRC})

\* The loop over the messages of the datagram, the one at nlh giving these lines;
\* NLMSG_DONE only leaves the switch.
MessageLoop(lines) ==
  /\ pc = "messages"
  /\ IF left > 0
     THEN /\ shown' = IF buf[at + 1].len = RTM_NEW[program] THEN shown \o lines ELSE shown
          /\ at' = at + buf[at].len /\ left' = left - buf[at].len
          /\ pc' = pc
     ELSE pc' = "recv" /\ UNCHANGED <<shown, at, left>>
  /\ UNCHANGED <<program, table, sent, pending, buf, ends, reg, tcpVars>>

GetAddr  == program = "get_addr"  /\ MessageLoop(parse_addr_entry(at))
GetLink  == program = "get_link"  /\ MessageLoop(parse_link_entry(at))
GetRoute == program = "get_route" /\ MessageLoop(parse_route_entry(at))

------------------------------------------------------------------------------
(* The listener.  A notification that finds the socket full is lost.       *)

RouteChange ==
  /\ program = "netlink_user" /\ Len(table) < MaxEvent
  /\ \E e \in {"RTM_NEWROUTE", "RTM_DELROUTE"} :
       /\ table' = Append(table, e)
       /\ IF Len(pending) < RcvBuf
          THEN pending' = Append(pending, e) /\ sent' = sent + 1
          ELSE UNCHANGED <<pending, sent>>
  /\ UNCHANGED <<program, pc, bufVars, reg, shown, tcpVars>>

\* One poll that finds a message; the others sleep and change nothing.
Listen ==
  /\ program = "netlink_user" /\ pending # <<>>
  /\ shown' = Append(shown, Head(pending))
  /\ pending' = Tail(pending)
  /\ UNCHANGED <<program, pc, table, sent, bufVars, reg, tcpVars>>

------------------------------------------------------------------------------
(* The TCP pair.  A message is MsgLen characters without a terminator, each *)
(* <<client, message>>; pending holds the characters on each connection.   *)

netVars == <<program, pc, table, sent, at, left, ends, reg>>

\* getaddrinfo, socket, bind, listen
ServerListen ==
  /\ program = "server" /\ server = "off" /\ server' = "listening"
  /\ UNCHANGED <<netVars, pending, buf, shown, backlog, client>>

\* The only accept: the connection that was made first.
ServerAccept ==
  /\ server = "listening" /\ backlog # <<>> /\ server' = Head(backlog)
  /\ UNCHANGED <<netVars, pending, buf, shown, backlog, client>>

\* The characters that %s may print: to the first terminator, and out of a buffer
\* that has none on over what lies behind it.
Printed(resp) ==
  LET ends0 == {k \in 1..Resp : resp[k] = NULL}
  IN  IF ends0 = {} THEN {resp \o stray : stray \in SeqOf({"?"}, MaxStray)}
      ELSE {SubSeq(resp, 1, Min(ends0) - 1)}

\* Mutant: what does not fit the buffer is discarded.
ServerRecvDrops ==
  /\ server \in Client
  /\ \E n \in 1..Len(pending[server]) :
       LET m == Min({n, Resp})
       IN  /\ buf' = [k \in 1..Resp |-> IF k <= m THEN pending[server][k] ELSE buf[k]]
           /\ pending' = [pending EXCEPT ![server] = SubSeq(@, n + 1, Len(@))]
           /\ \E t \in Printed(buf') : shown' = Append(shown, [len |-> m, text |-> t])
  /\ UNCHANGED <<netVars, tcpVars>>

\* recv returns some of the characters, at most the buffer's size.  After the
\* client has closed it returns 0 for ever, and nothing is printed.
ServerRecv ==
  /\ server \in Client
  /\ \E n \in 1..Min({Resp, Len(pending[server])}) :
       /\ buf' = [k \in 1..Resp |-> IF k <= n THEN pending[server][k] ELSE buf[k]]
       /\ pending' = [pending EXCEPT ![server] = SubSeq(@, n + 1, Len(@))]
       /\ \E t \in Printed(buf') : shown' = Append(shown, [len |-> n, text |-> t])
  /\ UNCHANGED <<netVars, tcpVars>>

\* recv returns -1, which is not 0: the old content of the buffer is printed.
ServerRecvFails ==
  /\ server \in Client
  /\ Cardinality({k \in 1..Len(shown) : shown[k].len = -1}) < MaxFail
  /\ \E t \in Printed(buf) : shown' = Append(shown, [len |-> -1, text |-> t])
  /\ UNCHANGED <<netVars, pending, buf, tcpVars>>

\* connect: accepted by the kernel once the server listens, else refused.
ClientConnect(c) ==
  /\ program = "server" /\ client[c].at = "connect"
  /\ IF server # "off"
     THEN /\ client' = [client EXCEPT ![c].at = "send"]
          /\ backlog' = Append(backlog, c)
     ELSE /\ client' = [client EXCEPT ![c].retry = @ - 1,
                                      ![c].at = IF client[c].retry = 1 THEN "failed" ELSE @]
          /\ UNCHANGED backlog
  /\ UNCHANGED <<netVars, pending, buf, shown, server>>

\* while (count > 0), then close
ClientSend(c) ==
  /\ client[c].at = "send"
  /\ LET n == client[c].sends + 1 IN
     IF n <= Count
     THEN /\ pending' = [pending EXCEPT ![c] = @ \o [k \in 1..MsgLen |-> <<c, n>>]]
          /\ client' = [client EXCEPT ![c].sends = n]
     ELSE client' = [client EXCEPT ![c].at = "closed"] /\ UNCHANGED pending
  /\ UNCHANGED <<netVars, buf, shown, server, backlog>>

ClientMain(c) == ClientConnect(c) \/ ClientSend(c)

------------------------------------------------------------------------------
(* The programs that use libnl.  An answer is a sequence of messages that  *)
(* ends with DONE or is just ERROR.                                        *)

Iface(index) == [kind |-> "IFACE", index |-> index]
Sta(attrs)   == [kind |-> "STA", attrs |-> attrs]
DONE  == [kind |-> "DONE"]
ERROR == [kind |-> "ERROR"]

finish_handler(r) == [r EXCEPT !.err = 0]
error_handler(r)  == [r EXCEPT !.err = -1]

\* Mutant: the first interface is kept.
callback_of_get_interface_indexFirst(m, r) ==
  IF r.idx = 0 THEN [r EXCEPT !.idx = m.index] ELSE r

\* A P2P device has no index.
callback_of_get_interface_index(m, r) ==
  IF m.index # 0 THEN [r EXCEPT !.idx = m.index] ELSE r

getWifiIface(m, r) == [r EXCEPT !.err = 0, !.out = Append(@, "IFACE")]

\* A line: the attribute it is printed for, its label, and the attribute shown in it.
StaLine(needs, label, shows) == [needs |-> needs, label |-> label, shows |-> shows]

CounterLines ==
  {StaLine(n, n, n) : n \in {"TX_BYTES", "TX_PACKETS", "SIGNAL"}}
    \cup {StaLine("RX_BYTES", "TX_BYTES", "RX_BYTES"),
          StaLine("RX_PACKETS", "RX_PACKETS", "TX_PACKETS"),
          StaLine("CHAIN_SIGNAL", "SIGNAL", "CHAIN_SIGNAL")}

\* The rates, each with the flags of the channel's width: the Rx part tests tb_tx_rate.
TxLines == {StaLine("TX_BITRATE", "TX_BITRATE", "TX_BITRATE"),
            StaLine("TX_WIDTH", "TX_WIDTH", "TX_WIDTH")}
RxLines == {StaLine("RX_BITRATE", "RX_BITRATE", "RX_BITRATE"),
            StaLine("TX_WIDTH", "RX_WIDTH", "TX_WIDTH")}

\* What is nested in one attribute can be had: it is there, and it parses.
Nested(attrs, name, bad) == name \in attrs /\ bad \notin attrs

\* The lines of one station: the counters, then the Tx rate and the Rx rate, of
\* which the first that is missing or does not parse ends the output.
StationLines(attrs) ==
  LET tx == Nested(attrs, "TX_BITRATE", "TX_BITRATE_BAD")
      rx == tx /\ Nested(attrs, "RX_BITRATE", "RX_BITRATE_BAD")
  IN  {l \in CounterLines \cup TxLines \cup RxLines :
         /\ Nested(attrs, "STA_INFO", "STA_INFO_BAD") /\ l.needs \in attrs
         /\ l \in TxLines => tx
         /\ l \in RxLines => rx}

\* Mutant: the flag is set once everything has been printed.
callback_of_get_sta_infoLate(m, r) ==
  [r EXCEPT !.got = IF Nested(m.attrs, "STA_INFO", "STA_INFO_BAD") /\ "RX_BITRATE" \in m.attrs
                    THEN 1 ELSE @,
            !.out = Append(@, StationLines(m.attrs))]

\* One call, whose output starts with a line of its own.  The flag is set before
\* the information is parsed, and a counter that is printed without having been
\* tested for may not be there.
callback_of_get_sta_info(m, r) ==
  [r EXCEPT !.got = IF "STA_INFO" \in m.attrs THEN 1 ELSE @,
            !.fault = /\ Nested(m.attrs, "STA_INFO", "STA_INFO_BAD")
                      /\ "RX_PACKETS" \in m.attrs /\ "TX_PACKETS" \notin m.attrs,
            !.out = Append(@, StationLines(m.attrs))]

\* The callbacks of the set in use: err belongs to the set cb of the first loop.
Handle(r, m) ==
  IF r.fault THEN r ELSE
  CASE m.kind = "IFACE" -> IF program = "get_sta_info"
                           THEN callback_of_get_interface_index(m, r) ELSE getWifiIface(m, r)
    [] m.kind = "STA"   -> callback_of_get_sta_info(m, r)
    [] m.kind = "DONE"  -> IF program = "get_sta_info" /\ pc = "waitErr"
                           THEN finish_handler(r) ELSE r
    [] m.kind = "ERROR" -> IF program = "get_sta_info" /\ pc = "waitErr"
                           THEN error_handler(r) ELSE r

\* nl_send_auto: the kernel answers, refuses, or the program gives up.
Request(from, messages, to) ==
  /\ program \in LibnlUser /\ pc = from
  /\ \/ pending' = messages \o <<DONE>> /\ pc' = to
     \/ pending' = <<ERROR>> /\ pc' = to
     \/ pending' = pending /\ pc' = "notSent"
  /\ UNCHANGED <<program, table, sent, bufVars, reg, shown, tcpVars>>

\* nl_recvmsgs handles the whole answer, unless receiving fails on the way;
\* it returns a negative value then and for an error message.
nl_recvmsgs(n) ==
  /\ n \in 1..Len(pending)
  /\ LET after[k \in 0..n] == IF k = 0 THEN reg ELSE Handle(after[k - 1], pending[k])
     IN  reg' = after[n]
  /\ pending' = SubSeq(pending, n + 1, Len(pending))
  /\ UNCHANGED <<program, table, sent, bufVars, shown, tcpVars>>

get_interface_index == Request("getInterface", table.ifaces, "waitErr")
get_station_info    == Request("getStation", table.stations[reg.idx], "waitGot")

\* while (err > 0): what nl_recvmsgs returns is printed and not looked at.
WaitErr ==
  /\ pc = "waitErr" /\ reg.err > 0
  /\ \E n \in 1..Len(pending) : nl_recvmsgs(n) /\ pc' = pc

\* After it, get_sta_info waits for an index.  The answer has been read, so that
\* without one its loop receives nothing.
LeaveWaitErr ==
  /\ pc = "waitErr" /\ reg.err <= 0
  /\ IF program = "get_sta_info" THEN reg.idx # 0 /\ pc' = "getStation" ELSE pc' = "ok"
  /\ UNCHANGED <<program, table, sent, pending, bufVars, reg, shown, tcpVars>>

\* while (got == 0), which an error ends.
WaitGot ==
  /\ pc = "waitGot" /\ reg.got = 0
  /\ \E n \in 1..Len(pending) :
       /\ nl_recvmsgs(n)
       /\ pc' = IF reg'.fault THEN "fault"
                ELSE IF n < Len(pending) \/ pending[n].kind = "ERROR" THEN "error" ELSE pc

LeaveWaitGot ==
  /\ pc = "waitGot" /\ reg.got # 0 /\ pc' = "ok"
  /\ UNCHANGED <<program, table, sent, pending, bufVars, reg, shown, tcpVars>>

GetStaInfoMain ==
  /\ program = "get_sta_info"
  /\ \/ get_interface_index \/ WaitErr \/ LeaveWaitErr
     \/ get_station_info \/ WaitGot \/ LeaveWaitGot

GenetlinkTestMain ==
  program = "genetlink_test" /\ (get_interface_index \/ WaitErr \/ LeaveWaitErr)

------------------------------------------------------------------------------
\* The wireless interfaces of the host and the stations each is associated with.
Wireless == [ifaces : SeqOf({Iface(i) : i \in 0..MaxIface}, MaxIface),
             stations : [1..MaxIface -> {[k \in 1..Len(s) |-> Sta(s[k])] : s \in Stations}]]

Init ==
  /\ program \in Dumper \cup LibnlUser \cup {"netlink_user", "server"}
  /\ pc = IF program \in LibnlUser THEN "getInterface" ELSE "recv"
  /\ table \in CASE program \in Dumper    -> SeqOf(Entries[program], MaxEntry)
                 [] program \in LibnlUser -> Wireless
                 [] OTHER                 -> {<<>>}
  /\ pending = CASE program \in Dumper   -> <<"dump">>
                 [] program = "server" -> [c \in Client |-> <<>>]
                 [] OTHER              -> <<>>
  /\ \E len \in {0, 2} :
       buf = CASE program \in Dumper   -> [k \in 1..BufWords |-> Word(len, IFLA_IFNAME, 0)]
               [] program = "server" -> <<"0">> \o [k \in 1..(Resp - 1) |-> NULL]
               [] OTHER              -> <<>>
  /\ sent = 0 /\ at = 1 /\ left = 0 /\ ends = {} /\ shown = <<>>
  /\ reg = [err |-> 1, idx |-> 0, got |-> 0, fault |-> FALSE, out |-> <<>>]
  /\ server = "off" /\ backlog = <<>>
  /\ client = [c \in Client |-> [at |-> "connect", retry |-> 3, sends |-> 0]]

LibnlStep == GetStaInfoMain \/ GenetlinkTestMain

Next == \/ Receive \/ GetAddr \/ GetLink \/ GetRoute
        \/ RouteChange \/ Listen
        \/ ServerListen \/ ServerAccept \/ ServerRecv \/ ServerRecvFails
        \/ \E c \in Client : ClientMain(c)
        \/ LibnlStep

\* The programs that wait for an answer run on while there is one to read, and
\* the clients as their sleeps end.  Nobody has to start the server.
Spec == /\ Init /\ [][Next]_vars
        /\ WF_vars(LibnlStep)
        /\ \A c \in Client : WF_vars(ClientMain(c))

------------------------------------------------------------------------------
(* Properties.                                                             *)

\* However the kernel spreads the dump over datagrams, every entry of it (of the
\* main table, for routes) is printed once and in order: the walk over the
\* headers of one datagram neither skips nor repeats a message.  The listener
\* reports the changes of the routes in the order in which they happened, and
\* all of them unless the socket was full while it slept.
EntriesOnce ==
  /\ program \in Dumper /\ pc = "recv" =>
       /\ {shown[k].id : k \in 1..Len(shown)} = {i \in 1..sent : table[i].main}
       /\ \A j, k \in 1..Len(shown) : j < k => shown[j].id < shown[k].id
  /\ program = "netlink_user" /\ sent = Len(table) => shown \o pending = table

\* The walk over an entry's attributes is given the length of the whole message
\* and so runs on past its end, where get_route.c says "Parse all attributes of
\* this entry".  That is without effect while another entry follows: the line
\* shows the entry's own attributes, all of them and nothing else.  At the end of
\* a datagram it is not so: what an earlier, longer datagram or the stack left
\* there is shown for an attribute the entry does not have, and even in the place
\* of one it has.  That is all that can go wrong: no line leaves an attribute of
\* its entry empty, and none shows anything of a later entry.
OwnAttributes ==
  program \in Dumper =>
    \A k \in 1..Len(shown) :
      LET id == shown[k].id
          tb == shown[k].tb
      IN  \A t \in DOMAIN tb :
            IF Contains(table[id].attrs, t)
            THEN tb[t] = id \/ (id \in ends /\ tb[t] \in 0..(id - 1))
            ELSE tb[t] = NULL \/ (id \in ends /\ tb[t] \in 0..(id - 1))

\* The server gets the messages of the client that connected first and of no
\* other, complete and in order, however they are cut up or run together and
\* whether or not a receive fails in between.  Behind what was received (nothing,
\* by a receive that failed) a line shows, as nothing is terminated, what was
\* left in that place by the last message that reached so far; if none did, the
\* buffer's first value or nothing.  Only when a message has reached the end of
\* the buffer can a line show what lies behind it.
ServerLines ==
  program = "server" /\ server \in Client =>
    /\ FlattenSeq([k \in 1..Len(shown) |-> SubSeq(shown[k].text, 1, shown[k].len)])
          \o pending[server]
        = [k \in 1..(MsgLen * client[server].sends) |-> <<server, 1 + (k - 1) \div MsgLen>>]
    /\ \A k \in 1..Len(shown) : \A j \in 1..Len(shown[k].text) :
         LET Reached(i, place) == {h \in 1..i : shown[h].len >= place}
             before == Reached(k - 1, j)
         IN  j > shown[k].len =>
               IF j > Resp THEN Reached(k, Resp) # {}
               ELSE IF before = {} THEN j = 1 /\ shown[k].text[j] = "0"
               ELSE shown[k].text[j] = shown[Max(before)].text[j]

\* What there is to show of a station: everything present whose nest parses.
Readable(attrs) ==
  IF ~ Nested(attrs, "STA_INFO", "STA_INFO_BAD") THEN {} ELSE
  (attrs \cap {"TX_BYTES", "TX_PACKETS", "RX_BYTES", "RX_PACKETS", "CHAIN_SIGNAL", "SIGNAL"})
    \cup (IF Nested(attrs, "TX_BITRATE", "TX_BITRATE_BAD")
          THEN attrs \cap {"TX_BITRATE", "TX_WIDTH"} ELSE {})
    \cup (IF Nested(attrs, "RX_BITRATE", "RX_BITRATE_BAD")
          THEN attrs \cap {"RX_BITRATE", "RX_WIDTH"} ELSE {})

\* The lines that do not show what their label names: the bytes received are
\* called TX_BYTES, the packets sent RX_PACKETS, the signal of each chain SIGNAL,
\* and the width of the Tx rate is printed with the Rx rate.
Mislabelled == {<<"TX_BYTES", "RX_BYTES">>, <<"RX_PACKETS", "TX_PACKETS">>,
                <<"SIGNAL", "CHAIN_SIGNAL">>, <<"RX_WIDTH", "TX_WIDTH">>}

\* The lines printed of a station are right: they show nothing that cannot be read,
\* and all of what can but what the program never shows (the packets received, the
\* width of the Rx rate) and what it gives up on without a Tx rate (the Rx rate);
\* and apart from the four above a line shows what its label names.
RightLines(attrs, lines) ==
  LET shows == {l.shows : l \in lines}
      never == {"RX_PACKETS", "RX_WIDTH"}
      given_up == IF Nested(attrs, "TX_BITRATE", "TX_BITRATE_BAD") THEN {} ELSE {"RX_BITRATE"}
  IN  /\ shows \subseteq Readable(attrs)
      /\ Readable(attrs) \ (never \cup given_up) \subseteq shows
      /\ \A l \in lines : l.label = l.shows \/ <<l.label, l.shows>> \in Mislabelled

\* get_sta_info ends well only with information on a station, and has then gone
\* through every station of the interface that was listed last, each once and in
\* order, with its own lines and with no counter read that is not there: the
\* answer to the first request is never taken for one to the second.
StationShown ==
  program = "get_sta_info" /\ pc = "ok" =>
    LET ifaces   == table.ifaces
        stations == table.stations[reg.idx]
    IN  /\ \E k \in 1..Len(ifaces) :
             /\ ifaces[k].index = reg.idx /\ reg.idx # 0
             /\ \A j \in (k + 1)..Len(ifaces) : ifaces[j].index = 0
        /\ \E k \in 1..Len(stations) : "STA_INFO" \in stations[k].attrs
        /\ Len(reg.out) = Len(stations)
        /\ \A k \in 1..Len(stations) : RightLines(stations[k].attrs, reg.out[k])

\* With an answer they can use, the programs leave their loops: an interface
\* (with an index, for get_sta_info) ends the first, and information on a
\* station the second, whatever else is missing in it.  A TCP client ends, with
\* all its messages sent once it has connected, whether or not the server is
\* started in time and whether or not it is the one accepted.
AnswerEnds ==
  /\ pc = "waitErr" /\ (\E k \in 1..Len(pending) :
        pending[k].kind = "IFACE" /\ (program = "genetlink_test" \/ pending[k].index # 0))
     ~> pc \in {"getStation", "ok"}
  /\ pc = "waitGot" /\ (\E k \in 1..Len(pending) :
        pending[k].kind = "STA" /\ "STA_INFO" \in pending[k].attrs)
     ~> pc \in {"ok", "error", "fault"}
  /\ \A c \in Client : program = "server" ~>
       \/ client[c].at = "closed" /\ client[c].sends = Count
       \/ client[c].at = "failed" /\ client[c].sends = 0
==============================================================================
