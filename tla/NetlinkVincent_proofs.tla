----------------------- MODULE NetlinkVincent_proofs -----------------------
(***************************************************************************)
(* Proofs about the netlink echo module for any number of clients and any  *)
(* size of the receive buffers.                                            *)
(***************************************************************************)
EXTENDS NetlinkVincent, FiniteSums, TLAPS

InCallbackPc == {"length", "loadCount", "storeCount", "argument", "unicast"}

\* A client never makes more requests than its program has, and no request is
\* accepted before it is made.
RequestsBounded ==
  \A c \in Client :
    /\ accepted[c] <= sent[c]
    /\ pc[c] = "start" => sent[c] = 0
    /\ pc[c] = "send" => sent[c] < Requests(c)
    /\ pc[c] = "length" => accepted[c] < sent[c]

TypeInv == TypeOK /\ RequestsBounded

LEMMA RequestsType == \A c \in Client : Requests(c) \in {1, 3}
BY DEF Requests

\* The types of the module's and the clients' state, and that no client exceeds
\* the requests of its program, are kept by every step.
LEMMA TypeStep ==
  ASSUME TypeInv, [Next]_vars
  PROVE  TypeInv'
<1> USE ClientAssumption, RcvBufAssumption, RequestsType
      DEF TypeInv, TypeOK, RequestsBounded
<1>1. CASE netlink_init
  BY <1>1 DEF netlink_init, clientVars, histVars
<1>2. CASE netlink_exit
  BY <1>2 DEF netlink_exit, clientVars, histVars
<1>3. ASSUME NEW c \in Client, Callback(c)
      PROVE  TypeInv'
  <2>1. CASE CheckLength(c)
    BY <2>1 DEF CheckLength, Goto, moduleVars
  <2>2. CASE LoadCount(c)
    BY <2>2 DEF LoadCount, Goto, moduleVars, histVars
  <2>3. CASE StoreCount(c)
    BY <2>3 DEF StoreCount, Goto, histVars
  <2>4. CASE ReadUserPid(c)
    BY <2>4 DEF ReadUserPid, Goto, moduleVars, histVars
  <2>5. CASE Unicast(c)
    <3>1. inbox' \in [Client -> 0..RcvBuf]
      BY <2>5 DEF Unicast
    <3>2. QED
      BY <2>5, <3>1 DEF Unicast, Goto, moduleVars, histVars
  <2>6. QED
    BY <1>3, <2>1, <2>2, <2>3, <2>4, <2>5 DEF Callback
<1>4. ASSUME NEW c \in Client, UserStep(c)
      PROVE  TypeInv'
  <2>1. CASE OpenSocket(c)
    BY <2>1 DEF OpenSocket, Goto, moduleVars, histVars
  <2>2. CASE OpenFails(c)
    BY <2>2 DEF OpenFails, Goto, moduleVars, histVars
  <2>3. CASE Send(c)
    <3>1. overlap' \in BOOLEAN
      BY <2>3 DEF Send, SetUserPid
    <3>2. QED
      BY <2>3, <3>1 DEF Send, SetUserPid, Goto
  <2>4. CASE SendFails(c)
    BY <2>4 DEF SendFails, Goto, moduleVars, histVars
  <2>5. CASE SendReturns(c)
    BY <2>5 DEF SendReturns, Goto, moduleVars, histVars
  <2>6. CASE Receive(c)
    <3>1. sock' \in [Client -> BOOLEAN]
      BY <2>6 DEF Receive
    <3>2. QED
      BY <2>6, <3>1 DEF Receive, Goto, moduleVars
  <2>7. CASE ReceiveFails(c)
    BY <2>7 DEF ReceiveFails, Goto, moduleVars, histVars
  <2>8. QED
    BY <1>4, <2>1, <2>2, <2>3, <2>4, <2>5, <2>6, <2>7 DEF UserStep
<1>5. ASSUME NEW c \in Client, Kill(c)
      PROVE  TypeInv'
  BY <1>5 DEF Kill, moduleVars, histVars
<1>6. CASE UNCHANGED vars
  BY <1>6 DEF vars, moduleVars, clientVars, histVars
<1>7. QED
  BY <1>1, <1>2, <1>3, <1>4, <1>5, <1>6 DEF Next

LEMMA TypeInit == ASSUME Init PROVE TypeInv
<1>1. loaded \in BOOLEAN /\ overlap \in BOOLEAN /\ sock \in [Client -> BOOLEAN]
  BY Zenon DEF Init
<1>2. TypeOK
  BY <1>1, RcvBufAssumption DEF Init, TypeOK
<1>3. RequestsBounded
  BY RequestsType DEF Init, RequestsBounded
<1>4. QED
  BY <1>2, <1>3 DEF TypeInv

LEMMA TypeInvariant == Spec => []TypeInv
BY TypeInit, TypeStep, PTL DEF Spec

\* The state of module and clients has its type: in particular no receive buffer
\* overflows and no client sends more than its program does.
THEOREM TypeCorrect == Spec => []TypeOK
<1>1. TypeInv => TypeOK
  BY DEF TypeInv
<1>2. QED
  BY <1>1, TypeInvariant, PTL

------------------------------------------------------------------------------
(* Who is answered.                                                        *)

\* user_pid and the copies of it that callbacks work with name past senders.
NamesSender ==
  /\ user_pid # NONE => sent[user_pid] > 0
  /\ \A c \in Client : dest[c] # NONE => sent[dest[c]] > 0

SenderInv == NamesSender /\ OnlySendersAnswered

LEMMA SenderInit == ASSUME Init PROVE SenderInv
BY DEF Init, SenderInv, NamesSender, OnlySendersAnswered, Answers

LEMMA SenderStep ==
  ASSUME TypeInv, SenderInv, [Next]_vars
  PROVE  SenderInv'
<1> USE ClientAssumption, RcvBufAssumption
      DEF TypeInv, TypeOK, SenderInv, NamesSender, OnlySendersAnswered, Answers
<1>1. CASE netlink_init
  BY <1>1 DEF netlink_init, clientVars, histVars
<1>2. CASE netlink_exit
  BY <1>2 DEF netlink_exit, clientVars, histVars
<1>3. ASSUME NEW c \in Client, Callback(c)
      PROVE  SenderInv'
  <2>1. CASE CheckLength(c)
    BY <2>1 DEF CheckLength, moduleVars
  <2>2. CASE LoadCount(c)
    BY <2>2 DEF LoadCount, moduleVars, histVars
  <2>3. CASE StoreCount(c)
    BY <2>3 DEF StoreCount, histVars
  <2>4. CASE ReadUserPid(c)
    BY <2>4 DEF ReadUserPid, moduleVars, histVars
  <2>5. CASE Unicast(c)
    BY <2>5 DEF Unicast, moduleVars, histVars
  <2>6. QED
    BY <1>3, <2>1, <2>2, <2>3, <2>4, <2>5 DEF Callback
<1>4. ASSUME NEW c \in Client, UserStep(c)
      PROVE  SenderInv'
  <2>1. CASE OpenSocket(c)
    BY <2>1 DEF OpenSocket, moduleVars, histVars
  <2>2. CASE OpenFails(c)
    BY <2>2 DEF OpenFails, moduleVars, histVars
  <2>3. CASE Send(c)
    BY <2>3 DEF Send, SetUserPid
  <2>4. CASE SendFails(c)
    BY <2>4 DEF SendFails, moduleVars, histVars
  <2>5. CASE SendReturns(c)
    BY <2>5 DEF SendReturns, moduleVars, histVars
  <2>6. CASE Receive(c)
    BY <2>6 DEF Receive, moduleVars
  <2>7. CASE ReceiveFails(c)
    BY <2>7 DEF ReceiveFails, moduleVars, histVars
  <2>8. QED
    BY <1>4, <2>1, <2>2, <2>3, <2>4, <2>5, <2>6, <2>7 DEF UserStep
<1>5. ASSUME NEW c \in Client, Kill(c)
      PROVE  SenderInv'
  BY <1>5 DEF Kill, moduleVars, histVars
<1>6. CASE UNCHANGED vars
  BY <1>6 DEF vars, moduleVars, clientVars, histVars
<1>7. QED
  BY <1>1, <1>2, <1>3, <1>4, <1>5, <1>6 DEF Next

\* However callbacks of different senders interleave on user_pid, and although a
\* malformed request sets it too, a client that never sent gets no reply.
THEOREM OnlySenders == Spec => []OnlySendersAnswered
<1>1. SenderInv => OnlySendersAnswered
  BY DEF SenderInv
<1>2. QED
  BY <1>1, TypeInvariant, SenderInit, SenderStep, PTL DEF Spec

------------------------------------------------------------------------------
(* Serial callbacks answer the asker.                                      *)

\* A client in the callback, or with a reply to read, has its socket open, and an
\* open socket keeps the module from being removed and its globals from being reset.
Referenced ==
  \A c \in Client : /\ pc[c] \in InCallbackPc => sock[c]
                    /\ inbox[c] > 0 => sock[c]
                    /\ sock[c] => loaded

\* While callbacks have not overlapped, the one that is active is alone, works
\* for the client in user_pid and, once accepted, has a reply left to give.
SerialInv ==
  /\ Referenced
  /\ ~overlap =>
       /\ \A c, d \in InCallback : c = d
       /\ \A c \in Client :
            /\ Answers(c) <= accepted[c]
            /\ c \in InCallback => user_pid = c
            /\ pc[c] = "unicast" => dest[c] = c
            /\ pc[c] \in {"loadCount", "storeCount", "argument", "unicast"} =>
                 Answers(c) < accepted[c]

LEMMA SerialInit == ASSUME Init PROVE SerialInv
BY DEF Init, SerialInv, Referenced, InCallback, InCallbackPc, Answers

LEMMA ReferencedStep ==
  ASSUME TypeInv, Referenced, [Next]_vars
  PROVE  Referenced'
<1> USE ClientAssumption, RcvBufAssumption
      DEF TypeInv, TypeOK, Referenced, InCallbackPc
<1>1. CASE netlink_init
  BY <1>1 DEF netlink_init, clientVars
<1>2. CASE netlink_exit
  BY <1>2 DEF netlink_exit, clientVars
<1>3. ASSUME NEW c \in Client, Callback(c)
      PROVE  Referenced'
  BY <1>3 DEF Callback, CheckLength, LoadCount, StoreCount, ReadUserPid, Unicast,
              Goto, moduleVars
<1>4. ASSUME NEW c \in Client, UserStep(c) \/ Kill(c)
      PROVE  Referenced'
  <2>1. CASE OpenSocket(c) \/ OpenFails(c) \/ Send(c) \/ SendFails(c)
    BY <2>1 DEF OpenSocket, OpenFails, Send, SendFails, Goto, moduleVars
  <2>2. CASE Receive(c)
    <3>1. sock[c] /\ loaded'
      BY <2>2 DEF Receive, moduleVars
    <3>2. CASE c \in Looper
      BY <2>2, <3>1, <3>2 DEF Receive, Goto
    <3>3. CASE c \notin Looper
      BY <2>2, <3>1, <3>3 DEF Receive, Goto
    <3>4. QED
      BY <3>2, <3>3
  <2>3. CASE SendReturns(c) \/ ReceiveFails(c) \/ Kill(c)
    BY <2>3 DEF SendReturns, ReceiveFails, Kill, Goto, moduleVars
  <2>4. QED
    BY <1>4, <2>1, <2>2, <2>3 DEF UserStep
<1>5. CASE UNCHANGED vars
  BY <1>5 DEF vars, moduleVars, clientVars
<1>6. QED
  BY <1>1, <1>2, <1>3, <1>4, <1>5 DEF Next


LEMMA SerialStep ==
  ASSUME TypeInv, SerialInv, [Next]_vars
  PROVE  SerialInv'
<1>0. Referenced'
  BY ReferencedStep DEF SerialInv
<1>. SUFFICES ASSUME ~overlap'
              PROVE  /\ \A c, d \in InCallback' : c = d
                     /\ \A c \in Client :
                          /\ Answers(c)' <= accepted'[c]
                          /\ c \in InCallback' => user_pid' = c
                          /\ pc'[c] = "unicast" => dest'[c] = c
                          /\ pc'[c] \in {"loadCount", "storeCount", "argument", "unicast"}
                               => Answers(c)' < accepted'[c]
  BY <1>0 DEF SerialInv
<1> USE ClientAssumption, RcvBufAssumption
      DEF TypeInv, TypeOK, SerialInv, Referenced, InCallback, InCallbackPc, Answers
<1>1. CASE netlink_init
  BY <1>1 DEF netlink_init, clientVars, histVars
<1>2. CASE netlink_exit
  BY <1>2 DEF netlink_exit, clientVars, histVars
<1>3. ASSUME NEW e \in Client, Callback(e)
      PROVE  SerialInv'
  <2>1. CASE CheckLength(e)
    BY <1>0, <2>1 DEF CheckLength, Goto, moduleVars
  <2>2. CASE LoadCount(e)
    BY <1>0, <2>2 DEF LoadCount, Goto, moduleVars, histVars
  <2>3. CASE StoreCount(e)
    BY <1>0, <2>3 DEF StoreCount, Goto, histVars
  <2>4. CASE ReadUserPid(e)
    BY <1>0, <2>4 DEF ReadUserPid, Goto, moduleVars, histVars
  <2>5. CASE Unicast(e)
    BY <1>0, <2>5 DEF Unicast, Goto, moduleVars, histVars
  <2>6. QED
    BY <1>3, <2>1, <2>2, <2>3, <2>4, <2>5 DEF Callback
<1>4. ASSUME NEW e \in Client, UserStep(e)
      PROVE  SerialInv'
  <2>1. CASE OpenSocket(e)
    BY <1>0, <2>1 DEF OpenSocket, Goto, moduleVars, histVars
  <2>2. CASE OpenFails(e)
    BY <1>0, <2>2 DEF OpenFails, Goto, moduleVars, histVars
  <2>3. CASE Send(e)
    BY <1>0, <2>3 DEF Send, SetUserPid, Goto
  <2>4. CASE SendFails(e)
    BY <1>0, <2>4 DEF SendFails, Goto, moduleVars, histVars
  <2>5. CASE SendReturns(e)
    BY <1>0, <2>5 DEF SendReturns, Goto, moduleVars, histVars
  <2>6. CASE Receive(e)
    BY <1>0, <2>6 DEF Receive, Goto, moduleVars
  <2>7. CASE ReceiveFails(e)
    BY <1>0, <2>7 DEF ReceiveFails, Goto, moduleVars, histVars
  <2>8. QED
    BY <1>4, <2>1, <2>2, <2>3, <2>4, <2>5, <2>6, <2>7 DEF UserStep
<1>5. ASSUME NEW e \in Client, Kill(e)
      PROVE  SerialInv'
  BY <1>0, <1>5 DEF Kill, moduleVars, histVars
<1>6. CASE UNCHANGED vars
  BY <1>6 DEF vars, moduleVars, clientVars, histVars
<1>7. QED
  BY <1>1, <1>2, <1>3, <1>4, <1>5, <1>6 DEF Next

\* As long as no two callbacks were active at once, no client has more replies
\* than accepted requests: the reply of line 60 goes to who asked on line 50.
THEOREM SerialCorrect == Spec => []SerialAnswersAsker
<1>1. SerialInv => SerialAnswersAsker
  BY DEF SerialInv, SerialAnswersAsker
<1>2. QED
  BY <1>1, TypeInvariant, SerialInit, SerialStep, PTL DEF Spec


------------------------------------------------------------------------------
(* One reply, and one count, per accepted request.                         *)

\* The reply that a callback past the length test still owes, and the request
\* that it has not counted yet.
Owed(c)      == IF pc[c] \in {"loadCount", "storeCount", "argument", "unicast"} THEN 1 ELSE 0
Uncounted(c) == IF pc[c] \in {"loadCount", "storeCount"} THEN 1 ELSE 0

Ledger  == [c \in Client |-> Answers(c) + Owed(c)]
Pending == [c \in Client |-> Uncounted(c)]

\* The strengthening: replies made and owed together, and a count together with
\* the requests not counted yet, are no more than the accepted requests.  A
\* count that is about to be stored is treated like the counter.
LedgerInv ==
  /\ SumFunctionOnSet(Ledger, Client) <= Accepted
  /\ count + SumFunctionOnSet(Pending, Client) <= Accepted
  /\ \A c \in Client :
       pc[c] = "storeCount" => reg[c] + SumFunctionOnSet(Pending, Client) <= Accepted

LedgerTypeOK ==
  /\ Summable(Ledger, Client) /\ Summable(Pending, Client) /\ Summable(accepted, Client)
  /\ SumFunctionOnSet(Ledger, Client) \in Nat
  /\ SumFunctionOnSet(Pending, Client) \in Nat
  /\ Accepted \in Nat

LEMMA LedgerTypes == TypeInv => LedgerTypeOK
<1> SUFFICES ASSUME TypeInv PROVE LedgerTypeOK
  OBVIOUS
<1>1. Summable(accepted, Client)
  BY DEF TypeInv, TypeOK, Summable
<1>2. Summable(Ledger, Client) /\ Summable(Pending, Client)
  BY RcvBufAssumption DEF TypeInv, TypeOK, Summable, Ledger, Pending, Owed, Uncounted, Answers
<1>3. QED
  BY <1>1, <1>2, SumType, ClientAssumption DEF LedgerTypeOK, Accepted

LEMMA LedgerTypesNext == TypeInv' => LedgerTypeOK'
BY LedgerTypes, PTL

\* A step of one client that adds no more to the replies made and owed, and to
\* the requests not counted yet, than it has accepted.
LEMMA LedgerBalance ==
  ASSUME TypeInv, TypeInv', NEW c \in Client,
         \A d \in Client \ {c} : UNCHANGED <<Answers(d), pc[d], accepted[d]>>,
         (Answers(c) + Owed(c))' - (Answers(c) + Owed(c)) <= accepted'[c] - accepted[c],
         Uncounted(c)' - Uncounted(c) <= accepted'[c] - accepted[c]
  PROVE  /\ SumFunctionOnSet(Ledger, Client)' - SumFunctionOnSet(Ledger, Client)
              <= Accepted' - Accepted
         /\ SumFunctionOnSet(Pending, Client)' - SumFunctionOnSet(Pending, Client)
              <= Accepted' - Accepted
<1>1. PICK l, ll, p, pp, a, aa : /\ l = Ledger /\ ll = Ledger'
                                 /\ p = Pending /\ pp = Pending'
                                 /\ a = accepted /\ aa = accepted'
  OBVIOUS
<1>2. /\ Summable(l, Client) /\ Summable(p, Client) /\ Summable(a, Client)
      /\ Summable(ll, Client) /\ Summable(pp, Client) /\ Summable(aa, Client)
  BY <1>1, LedgerTypes, LedgerTypesNext DEF LedgerTypeOK
<1>3. /\ \A d \in Client \ {c} : ll[d] = l[d] /\ pp[d] = p[d] /\ aa[d] = a[d]
      /\ ll[c] - l[c] <= aa[c] - a[c]
      /\ pp[c] - p[c] <= aa[c] - a[c]
  BY <1>1 DEF Ledger, Pending, Owed, Uncounted
<1>4. SumFunctionOnSet(ll, Client) - SumFunctionOnSet(l, Client)
        <= SumFunctionOnSet(aa, Client) - SumFunctionOnSet(a, Client)
  BY <1>2, <1>3, ClientAssumption, SumBalance
<1>5. SumFunctionOnSet(pp, Client) - SumFunctionOnSet(p, Client)
        <= SumFunctionOnSet(aa, Client) - SumFunctionOnSet(a, Client)
  BY <1>2, <1>3, ClientAssumption, SumBalance
<1>6. QED
  BY <1>1, <1>4, <1>5 DEF Accepted

\* The same for the invariant, when the step leaves the counter alone.
LEMMA LedgerKept ==
  ASSUME TypeInv, TypeInv', LedgerInv, NEW c \in Client,
         \A d \in Client \ {c} : UNCHANGED <<Answers(d), pc[d], accepted[d], reg[d]>>,
         (Answers(c) + Owed(c))' - (Answers(c) + Owed(c)) <= accepted'[c] - accepted[c],
         Uncounted(c)' - Uncounted(c) <= accepted'[c] - accepted[c],
         count' = count,
         pc'[c] = "storeCount" => reg'[c] = count
  PROVE  LedgerInv'
<1>1. /\ SumFunctionOnSet(Ledger, Client)' - SumFunctionOnSet(Ledger, Client)
           <= Accepted' - Accepted
      /\ SumFunctionOnSet(Pending, Client)' - SumFunctionOnSet(Pending, Client)
           <= Accepted' - Accepted
  BY LedgerBalance
<1>2. LedgerTypeOK /\ LedgerTypeOK'
  BY LedgerTypes, LedgerTypesNext
<1>3. PICK l, ll, p, pp, a, aa \in Nat :
        /\ l = SumFunctionOnSet(Ledger, Client) /\ ll = SumFunctionOnSet(Ledger, Client)'
        /\ p = SumFunctionOnSet(Pending, Client) /\ pp = SumFunctionOnSet(Pending, Client)'
        /\ a = Accepted /\ aa = Accepted'
  BY <1>2 DEF LedgerTypeOK
<1>4. ll - l <= aa - a /\ pp - p <= aa - a
  BY <1>1, <1>3
<1>5. /\ l <= a /\ count + p <= a
      /\ \A d \in Client : pc[d] = "storeCount" => reg[d] + p <= a
  BY <1>3 DEF LedgerInv
<1>6. count \in Nat /\ reg \in [Client -> Nat] /\ reg' \in [Client -> Nat]
  BY DEF TypeInv, TypeOK
<1>7. /\ ll <= aa /\ count' + pp <= aa
      /\ \A d \in Client : pc'[d] = "storeCount" => reg'[d] + pp <= aa
  BY <1>4, <1>5, <1>6
<1>8. QED
  BY <1>3, <1>7 DEF LedgerInv

\* count++ is stored: one request less is uncounted.
LEMMA LedgerCounted ==
  ASSUME TypeInv, TypeInv', LedgerInv, NEW c \in Client, StoreCount(c)
  PROVE  LedgerInv'
<1> USE DEF TypeInv, TypeOK
<1>1. PICK p, pp : p = Pending /\ pp = Pending'
  OBVIOUS
<1>2. /\ p[c] = 1 /\ pp[c] = 0
      /\ \A d \in Client \ {c} : pp[d] = p[d]
  BY <1>1 DEF StoreCount, Goto, Pending, Uncounted
<1>3. Ledger' = Ledger
  BY DEF StoreCount, Goto, Ledger, Owed, Answers, histVars
<1>4. LedgerTypeOK /\ LedgerTypeOK'
  BY LedgerTypes, LedgerTypesNext
<1>5. SumFunctionOnSet(pp, Client) = SumFunctionOnSet(p, Client) + pp[c] - p[c]
  BY <1>1, <1>2, <1>4, SumUpdate, ClientAssumption DEF LedgerTypeOK
<1>6. Accepted' = Accepted
  BY DEF StoreCount, histVars, Accepted
<1>7. PICK n, nn, a \in Nat : /\ n = SumFunctionOnSet(p, Client)
                              /\ nn = SumFunctionOnSet(pp, Client)
                              /\ a = Accepted
  BY <1>1, <1>4 DEF LedgerTypeOK
<1>8. nn = n - 1
  BY <1>2, <1>5, <1>7
<1>9. \A d \in Client : pc[d] = "storeCount" => reg[d] + n <= a
  BY <1>1, <1>7 DEF LedgerInv
<1>10. /\ count' = reg[c] + 1 /\ pc[c] = "storeCount" /\ pc'[c] # "storeCount"
       /\ \A d \in Client \ {c} : reg'[d] = reg[d] /\ pc'[d] = pc[d]
  BY DEF StoreCount, Goto
<1>11. count' + nn <= a /\ \A d \in Client : pc'[d] = "storeCount" => reg'[d] + nn <= a
  BY <1>7, <1>8, <1>9, <1>10
<1>12. QED
  BY <1>1, <1>3, <1>6, <1>7, <1>11 DEF LedgerInv

\* A reply owed by client c is delivered to another client: what c owed, d has.
LEMMA LedgerMoved ==
  ASSUME TypeInv, TypeInv', LedgerInv, NEW c \in Client, NEW d \in Client, c # d,
         Unicast(c), inbox' = [inbox EXCEPT ![d] = @ + 1]
  PROVE  LedgerInv'
<1> USE DEF TypeInv, TypeOK
<1>1. PICK l, ll : l = Ledger /\ ll = Ledger'
  OBVIOUS
<1>2. LedgerTypeOK /\ LedgerTypeOK'
  BY LedgerTypes, LedgerTypesNext
<1>3. /\ ll[c] = l[c] - 1 /\ ll[d] = l[d] + 1
      /\ \A e \in Client \ {c, d} : ll[e] = l[e]
  BY <1>1 DEF Unicast, Goto, Ledger, Owed, Answers, histVars
<1>4. l[c] \in Nat /\ l[d] \in Nat
  BY <1>1, <1>2 DEF LedgerTypeOK, Summable
<1>5. ll[c] + ll[d] <= l[c] + l[d]
  BY <1>3, <1>4
<1>6. SumFunctionOnSet(ll, Client) <= SumFunctionOnSet(l, Client)
  BY <1>1, <1>2, <1>3, <1>5, SumMove, ClientAssumption DEF LedgerTypeOK
<1>7. UNCHANGED <<Pending, Accepted, count, reg>>
  BY DEF Unicast, Goto, Pending, Uncounted, Accepted, moduleVars, histVars
<1>8. \A e \in Client : pc'[e] = "storeCount" => pc[e] = "storeCount"
  BY DEF Unicast, Goto
<1>9. SumFunctionOnSet(Ledger, Client)' <= Accepted'
  BY <1>1, <1>2, <1>6, <1>7 DEF LedgerInv, LedgerTypeOK
<1>10. QED
  BY <1>7, <1>8, <1>9 DEF LedgerInv

LEMMA LedgerStep ==
  ASSUME TypeInv, TypeInv', LedgerInv, [Next]_vars
  PROVE  LedgerInv'
<1> USE ClientAssumption, RcvBufAssumption
      DEF TypeInv, TypeOK, Answers, Owed, Uncounted
<1>1. CASE netlink_init
  <2>1. count' = 0 /\ UNCHANGED <<Ledger, Pending, Accepted, pc, reg>>
    BY <1>1 DEF netlink_init, clientVars, histVars, Ledger, Pending, Accepted
  <2>2. LedgerTypeOK /\ count \in Nat
    BY LedgerTypes
  <2>3. QED
    BY <2>1, <2>2 DEF LedgerInv, LedgerTypeOK
<1>2. CASE netlink_exit
  BY <1>2 DEF netlink_exit, clientVars, histVars, LedgerInv, Ledger, Pending, Accepted
<1>3. ASSUME NEW c \in Client, Callback(c)
      PROVE  LedgerInv'
  <2>1. CASE CheckLength(c)
    BY <2>1, LedgerKept DEF CheckLength, Goto, moduleVars
  <2>2. CASE LoadCount(c)
    BY <2>2, LedgerKept DEF LoadCount, Goto, moduleVars, histVars
  <2>3. CASE StoreCount(c)
    BY <2>3, LedgerCounted
  <2>4. CASE ReadUserPid(c)
    BY <2>4, LedgerKept DEF ReadUserPid, Goto, moduleVars, histVars
  <2>5. CASE Unicast(c)
    <3>1. CASE UNCHANGED inbox
      BY <2>5, <3>1, LedgerKept DEF Unicast, Goto, moduleVars, histVars
    <3>2. ASSUME NEW d \in Client, d = dest[c], inbox' = [inbox EXCEPT ![d] = @ + 1]
          PROVE  LedgerInv'
      <4>1. CASE d = c
        BY <2>5, <3>2, <4>1, LedgerKept DEF Unicast, Goto, moduleVars, histVars
      <4>2. CASE d # c
        BY <2>5, <3>2, <4>2, LedgerMoved
      <4>3. QED
        BY <4>1, <4>2
    <3>3. CASE dest[c] = NONE
      <4>1. UNCHANGED inbox
        BY <2>5, <3>3 DEF Unicast
      <4>2. QED
        BY <3>1, <4>1
    <3>4. QED
      BY <2>5, <3>1, <3>2, <3>3 DEF Unicast
  <2>6. QED
    BY <1>3, <2>1, <2>2, <2>3, <2>4, <2>5 DEF Callback
<1>4. ASSUME NEW c \in Client, UserStep(c)
      PROVE  LedgerInv'
  <2>1. CASE OpenSocket(c)
    BY <2>1, LedgerKept DEF OpenSocket, Goto, moduleVars, histVars
  <2>2. CASE OpenFails(c)
    BY <2>2, LedgerKept DEF OpenFails, Goto, moduleVars, histVars
  <2>3. CASE Send(c)
    BY <2>3, LedgerKept DEF Send, SetUserPid, Goto
  <2>4. CASE SendFails(c)
    BY <2>4, LedgerKept DEF SendFails, Goto, moduleVars, histVars
  <2>5. CASE SendReturns(c)
    BY <2>5, LedgerKept DEF SendReturns, Goto, moduleVars, histVars
  <2>6. CASE Receive(c)
    BY <2>6, LedgerKept DEF Receive, Goto, moduleVars
  <2>7. CASE ReceiveFails(c)
    BY <2>7, LedgerKept DEF ReceiveFails, Goto, moduleVars, histVars
  <2>8. QED
    BY <1>4, <2>1, <2>2, <2>3, <2>4, <2>5, <2>6, <2>7 DEF UserStep
<1>5. ASSUME NEW c \in Client, Kill(c)
      PROVE  LedgerInv'
  BY <1>5, LedgerKept DEF Kill, moduleVars, histVars
<1>6. CASE UNCHANGED vars
  BY <1>6 DEF vars, moduleVars, clientVars, histVars, LedgerInv, Ledger, Pending, Accepted
<1>7. QED
  BY <1>1, <1>2, <1>3, <1>4, <1>5, <1>6 DEF Next

LEMMA LedgerInit == ASSUME Init PROVE LedgerInv
<1>1. /\ \A c \in Client : Ledger[c] = 0 /\ Pending[c] = 0 /\ accepted[c] = 0
      /\ \A c \in Client : pc[c] # "storeCount"
      /\ count = 0
  BY DEF Init, Ledger, Pending, Answers, Owed, Uncounted
<1>2. /\ SumFunctionOnSet(Ledger, Client) = 0
      /\ SumFunctionOnSet(Pending, Client) = 0
      /\ SumFunctionOnSet(accepted, Client) = 0
  BY <1>1, SumZero, ClientAssumption
<1>3. QED
  BY <1>1, <1>2 DEF LedgerInv, Accepted

\* The module makes at most one reply per accepted request, all clients taken
\* together, and its unlocked counter never runs ahead of the requests, whatever
\* the interleaving of callbacks and the recipients that user_pid names.
THEOREM NoExtra == Spec => []NoExtraAnswers
<1>1. TypeInv /\ LedgerInv => NoExtraAnswers
  <2> SUFFICES ASSUME TypeInv, LedgerInv PROVE NoExtraAnswers
    OBVIOUS
  <2>1. PICK f, l : f = [c \in Client |-> Answers(c)] /\ l = Ledger
    OBVIOUS
  <2>2. Summable(f, Client) /\ \A c \in Client : f[c] <= l[c]
    BY <2>1, RcvBufAssumption DEF TypeInv, TypeOK, Summable, Answers, Ledger, Owed
  <2>3. LedgerTypeOK /\ count \in Nat
    BY LedgerTypes DEF TypeInv, TypeOK
  <2>4. SumFunctionOnSet(f, Client) <= SumFunctionOnSet(l, Client)
    BY <2>1, <2>2, <2>3, SumMonotone, ClientAssumption DEF LedgerTypeOK
  <2>5. SumFunctionOnSet(f, Client) \in Nat
    BY <2>2, SumType, ClientAssumption
  <2>6. QED
    BY <2>1, <2>3, <2>4, <2>5 DEF NoExtraAnswers, LedgerInv, LedgerTypeOK
<1>2. QED
  BY <1>1, LedgerInit, LedgerStep, TypeInvariant, PTL DEF Spec
=============================================================================
