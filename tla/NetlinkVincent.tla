--------------------------- MODULE NetlinkVincent ---------------------------
(***************************************************************************)
(* The kernel module netlink_kernel.c and its user-space clients           *)
(* netlink_vincent.c (three requests, then reads replies forever) and      *)
(* netlink_vincent_malloc_ver.c (one request, one reply).                  *)
(*                                                                         *)
(* sendmsg runs the module's input callback in the sender's own context,   *)
(* so callbacks of several clients interleave on the module's globals      *)
(* user_pid and count, which no lock protects.                             *)
(***************************************************************************)
EXTENDS Integers, FiniteSets, Functions

CONSTANTS Client,     \* client processes, named by their pid
          Looper,     \* those that run netlink_vincent.c
          Malformed,  \* those whose nlmsg_len fails the module's test
          RcvBuf,     \* replies that fit a client's receive buffer
          NONE        \* user_pid = -1

ASSUME ClientAssumption == /\ IsFiniteSet(Client)
                           /\ Looper \subseteq Client
                           /\ Malformed \subseteq Client
                           /\ NONE \notin Client

ASSUME RcvBufAssumption == RcvBuf \in Nat

VARIABLES
  loaded,    \* the module is inserted
  user_pid,  \* its global user_pid
  count,     \* its global count
  pc,        \* the next step of each client, in user space or in the callback
  reg,       \* the register of count++
  dest,      \* the argument user_pid of send_msg_to_user
  sock,      \* whether the client's socket is open
  sent,      \* sendmsg calls the client has made
  inbox,     \* replies queued on the client's socket
  got,       \* history: replies the client has read
  accepted,  \* history: requests of the client that passed the length test
  overlap    \* history: two callbacks have been active at once

moduleVars == <<loaded, user_pid, count>>
clientVars == <<pc, reg, dest, sock, sent, inbox>>
histVars   == <<got, accepted, overlap>>
vars       == <<moduleVars, clientVars, histVars>>

Requests(c) == IF c \in Looper THEN 3 ELSE 1

InCallback == {c \in Client : pc[c] \in {"length", "loadCount", "storeCount",
                                         "argument", "unicast"}}

Init ==
  /\ loaded = FALSE /\ user_pid = NONE /\ count = 0
  /\ pc = [c \in Client |-> "start"]
  /\ reg = [c \in Client |-> 0]
  /\ dest = [c \in Client |-> NONE]
  /\ sock = [c \in Client |-> FALSE]
  /\ sent = [c \in Client |-> 0]
  /\ inbox = [c \in Client |-> 0]
  /\ got = [c \in Client |-> 0]
  /\ accepted = [c \in Client |-> 0]
  /\ overlap = FALSE

Goto(c, from, to) == pc[c] = from /\ pc' = [pc EXCEPT ![c] = to]

------------------------------------------------------------------------------
(* Insertion and removal of the module.  An open socket of its protocol    *)
(* holds a reference on the module, so it is not removed under a client.   *)

netlink_init ==
  /\ ~loaded
  /\ loaded' = TRUE /\ user_pid' = NONE /\ count' = 0
  /\ UNCHANGED <<clientVars, histVars>>

netlink_exit ==
  /\ loaded
  /\ \A c \in Client : ~sock[c]
  /\ loaded' = FALSE
  /\ UNCHANGED <<user_pid, count, clientVars, histVars>>

------------------------------------------------------------------------------
(* The callback: recv_user_msg and send_msg_to_user.                       *)

\* Mutant: only the first sender is remembered.
SetUserPidOnce(c) ==
  /\ user_pid' = IF user_pid = NONE THEN c ELSE user_pid
  /\ overlap' = (overlap \/ InCallback # {})

\* user_pid = nlh->nlmsg_pid, before anything is checked
SetUserPid(c) ==
  /\ user_pid' = c
  /\ overlap' = (overlap \/ InCallback # {})

\* The length test: a malformed message is dropped without a reply.
CheckLength(c) ==
  /\ Goto(c, "length", IF c \in Malformed THEN "sent" ELSE "loadCount")
  /\ accepted' = [accepted EXCEPT ![c] = IF c \in Malformed THEN @ ELSE @ + 1]
  /\ UNCHANGED <<moduleVars, reg, dest, sock, sent, inbox, got, overlap>>

\* count++
LoadCount(c) ==
  /\ Goto(c, "loadCount", "storeCount")
  /\ reg' = [reg EXCEPT ![c] = count]
  /\ UNCHANGED <<moduleVars, dest, sock, sent, inbox, histVars>>

StoreCount(c) ==
  /\ Goto(c, "storeCount", "argument")
  /\ count' = reg[c] + 1
  /\ reg' = [reg EXCEPT ![c] = 0]
  /\ UNCHANGED <<loaded, user_pid, dest, sock, sent, inbox, histVars>>

\* send_msg_to_user(msg_from_kernel, user_pid): the global is read again.
ReadUserPid(c) ==
  /\ Goto(c, "argument", "unicast")
  /\ dest' = [dest EXCEPT ![c] = user_pid]
  /\ UNCHANGED <<moduleVars, reg, sock, sent, inbox, histVars>>

\* Mutant: the reply is broadcast.
UnicastToAll(c) ==
  /\ Goto(c, "unicast", "sent")
  /\ dest' = [dest EXCEPT ![c] = NONE]
  /\ inbox' = [d \in Client |-> IF sock[d] /\ inbox[d] < RcvBuf
                                THEN inbox[d] + 1 ELSE inbox[d]]
  /\ UNCHANGED <<moduleVars, reg, sock, sent, histVars>>

\* Mutant: the reply is queued beyond the receive buffer.
UnicastUnbounded(c) ==
  /\ Goto(c, "unicast", "sent")
  /\ dest' = [dest EXCEPT ![c] = NONE]
  /\ sock[dest[c]]
  /\ inbox' = [inbox EXCEPT ![dest[c]] = @ + 1]
  /\ UNCHANGED <<moduleVars, reg, sock, sent, histVars>>

\* Mutant: the flag is 0, so that the call waits for room.
UnicastBlocks(c) ==
  /\ Goto(c, "unicast", "sent")
  /\ dest' = [dest EXCEPT ![c] = NONE]
  /\ \/ /\ sock[dest[c]] /\ inbox[dest[c]] < RcvBuf
        /\ inbox' = [inbox EXCEPT ![dest[c]] = @ + 1]
     \/ ~sock[dest[c]] /\ UNCHANGED inbox
  /\ UNCHANGED <<moduleVars, reg, sock, sent, histVars>>

\* netlink_unicast with MSG_DONTWAIT: delivered if the destination's socket is
\* open and has room, else discarded; alloc_skb may also have failed.
Unicast(c) ==
  /\ Goto(c, "unicast", "sent")
  /\ dest' = [dest EXCEPT ![c] = NONE]
  /\ \/ /\ sock[dest[c]] /\ inbox[dest[c]] < RcvBuf
        /\ inbox' = [inbox EXCEPT ![dest[c]] = @ + 1]
     \/ UNCHANGED inbox
  /\ UNCHANGED <<moduleVars, reg, sock, sent, histVars>>

Callback(c) == \/ CheckLength(c) \/ LoadCount(c) \/ StoreCount(c)
               \/ ReadUserPid(c) \/ Unicast(c)

------------------------------------------------------------------------------
(* The clients.                                                            *)

\* socket() needs the module; bind() comes with it.
OpenSocket(c) ==
  /\ loaded
  /\ Goto(c, "start", "send")
  /\ sock' = [sock EXCEPT ![c] = TRUE]
  /\ UNCHANGED <<moduleVars, reg, dest, sent, inbox, histVars>>

\* "Failed to create socket" or "Failed to bind netlink socket"
OpenFails(c) ==
  /\ Goto(c, "start", "done")
  /\ UNCHANGED <<moduleVars, reg, dest, sock, sent, inbox, histVars>>

\* sendmsg enters the callback.
Send(c) ==
  /\ sock[c]
  /\ Goto(c, "send", "length")
  /\ sent' = [sent EXCEPT ![c] = @ + 1]
  /\ SetUserPid(c)
  /\ UNCHANGED <<loaded, count, reg, dest, sock, inbox, got, accepted>>

\* sendmsg fails; both programs close the socket and carry on without it.
SendFails(c) ==
  /\ Goto(c, "send", "sent")
  /\ sent' = [sent EXCEPT ![c] = @ + 1]
  /\ sock' = [sock EXCEPT ![c] = FALSE]
  /\ inbox' = [inbox EXCEPT ![c] = 0]
  /\ UNCHANGED <<moduleVars, reg, dest, histVars>>

\* sendmsg has returned: the next request, or on to the replies.
SendReturns(c) ==
  /\ Goto(c, "sent", IF sent[c] < Requests(c) THEN "send" ELSE "recv")
  /\ UNCHANGED <<moduleVars, reg, dest, sock, sent, inbox, histVars>>

\* recvmsg returns a reply; one program reads on, the other closes and ends.
Receive(c) ==
  /\ inbox[c] > 0
  /\ Goto(c, "recv", IF c \in Looper THEN "recv" ELSE "done")
  /\ got' = [got EXCEPT ![c] = @ + 1]
  /\ inbox' = [inbox EXCEPT ![c] = IF c \in Looper THEN @ - 1 ELSE 0]
  /\ sock' = [sock EXCEPT ![c] = c \in Looper]
  /\ UNCHANGED <<moduleVars, reg, dest, sent, accepted, overlap>>

\* recvmsg on the closed socket fails: one program tries again every second,
\* the other ends.
ReceiveFails(c) ==
  /\ ~sock[c]
  /\ Goto(c, "recv", IF c \in Looper THEN "recv" ELSE "done")
  /\ UNCHANGED <<moduleVars, reg, dest, sock, sent, inbox, histVars>>

\* The user ends a client that is not inside sendmsg.
Kill(c) ==
  /\ pc[c] \in {"send", "sent", "recv"}
  /\ pc' = [pc EXCEPT ![c] = "done"]
  /\ sock' = [sock EXCEPT ![c] = FALSE]
  /\ inbox' = [inbox EXCEPT ![c] = 0]
  /\ UNCHANGED <<moduleVars, reg, dest, sent, histVars>>

UserStep(c) == \/ OpenSocket(c) \/ OpenFails(c) \/ Send(c) \/ SendFails(c)
               \/ SendReturns(c) \/ Receive(c) \/ ReceiveFails(c)

Next == \/ netlink_init \/ netlink_exit
        \/ \E c \in Client : Callback(c) \/ UserStep(c) \/ Kill(c)

\* A client inside sendmsg keeps running; nothing else is assumed.
Spec == Init /\ [][Next]_vars /\ \A c \in Client : WF_vars(Callback(c))

------------------------------------------------------------------------------
(* Properties.                                                             *)

TypeOK ==
  /\ loaded \in BOOLEAN
  /\ user_pid \in Client \cup {NONE}
  /\ count \in Nat
  /\ pc \in [Client -> {"start", "send", "length", "loadCount", "storeCount",
                        "argument", "unicast", "sent", "recv", "done"}]
  /\ reg \in [Client -> Nat]
  /\ dest \in [Client -> Client \cup {NONE}]
  /\ sock \in [Client -> BOOLEAN]
  /\ sent \in [Client -> 0..3]
  /\ inbox \in [Client -> 0..RcvBuf]
  /\ got \in [Client -> Nat]
  /\ accepted \in [Client -> 0..3]
  /\ overlap \in BOOLEAN

Answers(c) == got[c] + inbox[c]

Accepted == SumFunctionOnSet(accepted, Client)

\* The module sends at most one reply per accepted request, all clients taken
\* together, and its request counter never runs ahead of the requests.
NoExtraAnswers ==
  /\ SumFunctionOnSet([c \in Client |-> Answers(c)], Client) <= Accepted
  /\ count <= Accepted

\* A client that never sent anything is never sent anything: user_pid, though
\* shared and set before the length test, only ever names a past sender.
OnlySendersAnswered == \A c \in Client : Answers(c) > 0 => sent[c] > 0

\* While callbacks do not overlap every reply goes to the client that asked.
SerialAnswersAsker ==
  ~overlap => \A c \in Client : Answers(c) <= accepted[c]

\* "Response to user" (line 59): a client gets no more replies than it made
\* requests, since a reply goes to the user whose request is being handled.
AnswersAsker == \A c \in Client : Answers(c) <= accepted[c]

\* sendmsg returns whatever the state of the receivers: the reply is sent
\* "(Non-blocking)", even when the receive buffer that is full is the sender's.
SendmsgReturns == \A c \in Client : c \in InCallback ~> c \notin InCallback
==============================================================================
