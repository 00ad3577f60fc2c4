----------------------------- MODULE Nl80211Scan -----------------------------
(***************************************************************************)
(* The two scan programs of generic_netlink: "trigger_scan" is             *)
(* scan_NL80211_CMD_TRIGGER_SCAN.c and "scan" is scan.c.  Each joins the   *)
(* multicast group "scan", asks the kernel for a scan, waits first for the *)
(* acknowledgement and then for an event that ends a scan, and dumps the   *)
(* results, all over one socket: replies, and the events of every process  *)
(* that scans, arrive in one queue.                                        *)
(*                                                                         *)
(* The kernel (external) runs one scan at a time, answers a request while  *)
(* it is being sent, and multicasts the start and the end of every scan.   *)
(***************************************************************************)
EXTENDS Integers, Sequences, SequencesExt

CONSTANTS MaxOther,  \* bound: scans other processes start
          MaxBss,    \* bound: results in one dump
          Bss,       \* scan results
          has        \* which parts each of them has

ASSUME BoundAssumption == MaxOther \in Nat /\ MaxBss \in Nat

VARIABLES
  program,   \* which of the two programs runs
  pc,        \* its next step
  err,       \* what the receive loop waits for: 1 until a handler has set it
  mcid,      \* the id of the multicast group, negative if it is not known
  done,      \* state.done / results.done
  abort,     \* state.abort / results.aborted
  shown,     \* the results that were printed
  outcome,   \* how main ended
  member,    \* the socket is in the multicast group
  queue,     \* what is queued on the socket
  scanner,   \* whose scan is running
  others,    \* how many scans other processes have started
  own,       \* history: what became of this program's request
  results,   \* history: scans that ended with results while it was a member
  dumped,    \* the kernel's answer to the dump: results, and DONE at the end
  sent,      \* how much of it is queued
  fault      \* history: joining the group or sending a message has failed

flags      == <<done, abort>>
kernelVars == <<member, queue, scanner, others>>
histVars   == <<own, results, dumped, sent, fault>>
vars       == <<program, pc, err, mcid, flags, shown, outcome, kernelVars, histVars>>

Event  == {"TRIGGER_SCAN", "NEW_SCAN_RESULTS", "SCAN_ABORTED"}
\* The answer to CTRL_CMD_GETFAMILY may have a group named "scan" or not.
Family == {"FAMILY", "FAMILY_NO_SCAN"}
Reply  == {"ACK", "ERROR", "DONE"} \cup Bss \cup Family
\* What a scan result may lack: the nested attribute, a form that its policy
\* accepts, or an attribute in it that a handler tests or reads.
Part   == {"ATTR_BSS", "parses", "BSSID", "INFORMATION_ELEMENTS", "FREQUENCY",
           "SIGNAL_MBM", "BEACON_INTERVAL", "SEEN_MS_AGO"}

ASSUME BssAssumption ==
  /\ has \in [Bss -> SUBSET Part]
  /\ Bss \cap (Event \cup Family \cup {"ACK", "ERROR", "DONE"}) = {}

Init ==
  /\ program \in {"trigger_scan", "scan"}
  /\ pc = "resolve" /\ err = 1 /\ mcid = -1 /\ done = FALSE /\ abort = FALSE
  /\ shown = <<>> /\ outcome = "none"
  /\ member = FALSE /\ queue = <<>> /\ scanner = "none" /\ others = 0
  /\ own = "none" /\ results = 0 /\ dumped = <<>> /\ sent = 0 /\ fault = FALSE

------------------------------------------------------------------------------
(* The kernel (external).                                                  *)

Multicast(e) == queue' = IF member THEN Append(queue, e) ELSE queue

OtherScan ==
  /\ scanner = "none" /\ others < MaxOther
  /\ scanner' = "other" /\ others' = others + 1
  /\ Multicast("TRIGGER_SCAN")
  /\ UNCHANGED <<program, pc, err, mcid, flags, shown, outcome, member, histVars>>

ScanEnds ==
  /\ scanner # "none"
  /\ scanner' = "none"
  /\ \E e \in {"NEW_SCAN_RESULTS", "SCAN_ABORTED"} :
       /\ Multicast(e)
       /\ own' = IF scanner = "own" THEN e ELSE own
       /\ results' = IF member /\ e = "NEW_SCAN_RESULTS" THEN results + 1
                                                         ELSE results
  /\ UNCHANGED <<program, pc, err, mcid, flags, shown, outcome,
                 member, others, dumped, sent, fault>>

------------------------------------------------------------------------------
(* nl_recvmsgs(socket, cb): one datagram, handed to its handler.           *)

Handled == queue # <<>> /\ queue' = Tail(queue)

\* Mutant: every event ends the wait.
ScanCallbackAnyEvent(m) ==
  /\ done'  = (done \/ m \in Event)
  /\ abort' = IF m \in Event THEN m = "SCAN_ABORTED" ELSE abort

\* Mutant: an aborted scan does not end the wait.
ScanCallbackNoAbort(m) ==
  /\ done'  = (done \/ m = "NEW_SCAN_RESULTS")
  /\ abort' = IF m = "NEW_SCAN_RESULTS" THEN FALSE ELSE abort

\* Mutant: an aborted scan is not told from a finished one.
ScanCallbackNoFlag(m) ==
  /\ done' = (done \/ m \in {"NEW_SCAN_RESULTS", "SCAN_ABORTED"})
  /\ UNCHANGED abort

\* callback_of_scan / callback_trigger: any scan's end counts.
ScanCallback(m) ==
  /\ done'  = (done \/ m \in {"NEW_SCAN_RESULTS", "SCAN_ABORTED"})
  /\ abort' = IF m \in {"NEW_SCAN_RESULTS", "SCAN_ABORTED"}
              THEN m = "SCAN_ABORTED" ELSE abort

\* Mutant: the error code is stored with its sign reversed.
AckCallbackPositive(m) ==
  err' = CASE m = "ACK" -> 0 [] m = "ERROR" -> 16 [] OTHER -> err

\* ack_handler and error_handler
AckCallback(m) ==
  err' = CASE m = "ACK" -> 0 [] m = "ERROR" -> -1 [] OTHER -> err

\* The group's id, if the family has a group of that name.
family_handler(m) == mcid' = IF m = "FAMILY" THEN 1 ELSE mcid

------------------------------------------------------------------------------
(* Joining the group.                                                      *)

\* nl_get_multicast_id: CTRL_CMD_GETFAMILY is answered by the family and an
\* acknowledgement, or by an error if there is no such family ...
AskFamily ==
  /\ pc = "resolve" /\ pc' = "family"
  /\ \/ \E f \in Family : queue' = queue \o <<f, "ACK">>
     \/ queue' = Append(queue, "ERROR")
  /\ UNCHANGED <<program, err, mcid, flags, shown, outcome,
                 member, scanner, others, histVars>>

\* ... or it cannot be sent.
AskFamilyFails ==
  /\ pc = "resolve" /\ pc' = "join"
  /\ fault' = TRUE
  /\ UNCHANGED <<program, err, mcid, flags, shown, outcome, kernelVars,
                 own, results, dumped, sent>>

\* while (ret > 0) nl_recvmsgs(sock, cb)
WaitFamily ==
  /\ pc = "family" /\ err > 0
  /\ Handled /\ family_handler(Head(queue)) /\ AckCallback(Head(queue))
  /\ UNCHANGED <<program, pc, flags, shown, outcome,
                 member, scanner, others, histVars>>

\* if (ret == 0) ret = grp.id; err is 1 for the next loop.
LeaveFamily ==
  /\ pc = "family" /\ err <= 0
  /\ pc' = "join" /\ err' = 1
  /\ mcid' = IF err = 0 THEN mcid ELSE -1
  /\ UNCHANGED <<program, flags, shown, outcome, kernelVars, histVars>>

nl_get_multicast_id == AskFamily \/ AskFamilyFails \/ WaitFamily \/ LeaveFamily

Join ==
  /\ pc = "join" /\ mcid >= 0
  /\ pc' = "request" /\ member' = TRUE
  /\ UNCHANGED <<program, err, mcid, flags, shown, outcome,
                 queue, scanner, others, histVars>>

\* There is no id, or nl_socket_add_membership failed: both programs go on
\* without the events.
JoinFails ==
  /\ pc = "join" /\ pc' = "request"
  /\ fault' = TRUE
  /\ UNCHANGED <<program, err, mcid, flags, shown, outcome, kernelVars,
                 own, results, dumped, sent>>

------------------------------------------------------------------------------
(* Asking for a scan.                                                      *)

\* NL80211_CMD_TRIGGER_SCAN is accepted: the start is multicast before the
\* acknowledgement is queued ...
RequestAccepted ==
  /\ pc = "request" /\ scanner = "none"
  /\ pc' = "waitAck"
  /\ scanner' = "own" /\ own' = "accepted"
  /\ queue' = queue \o (IF member THEN <<"TRIGGER_SCAN">> ELSE <<>>) \o <<"ACK">>
  /\ UNCHANGED <<program, err, mcid, flags, shown, outcome,
                 member, others, results, dumped, sent, fault>>

\* ... or refused: a scan is running, the interface is down, no permission.
RequestRefused ==
  /\ pc = "request"
  /\ pc' = "waitAck"
  /\ own' = "refused"
  /\ queue' = Append(queue, "ERROR")
  /\ UNCHANGED <<program, err, mcid, flags, shown, outcome,
                 member, scanner, others, results, dumped, sent, fault>>

\* A message could not be sent (or allocated): main goes on at "next", or
\* returns if that is "exit".
NotSent(at, next) ==
  /\ pc = at /\ pc' = next
  /\ outcome' = IF next = "exit" THEN "notSent" ELSE outcome
  /\ fault' = TRUE
  /\ UNCHANGED <<program, err, mcid, flags, shown, kernelVars, own, results, dumped, sent>>

\* One turn of a loop around nl_recvmsgs(socket, cb).
RecvMsgs == /\ Handled
            /\ ScanCallback(Head(queue)) /\ AckCallback(Head(queue))
            /\ UNCHANGED <<program, pc, mcid, shown, outcome,
                           member, scanner, others, histVars>>

\* while (err > 0)
WaitAck == pc = "waitAck" /\ err > 0 /\ RecvMsgs

\* The loop has ended.  An error reply also makes nl_recvmsgs return a negative
\* value, which scan.c looks at (tested) and the other program does not.
LeaveWaitAck(tested) ==
  /\ pc = "waitAck" /\ err <= 0
  /\ pc' = IF tested /\ err < 0 THEN "exit" ELSE "waitDone"
  /\ outcome' = IF tested /\ err < 0 THEN "refused" ELSE outcome
  /\ UNCHANGED <<program, err, mcid, flags, shown, kernelVars, histVars>>

\* while (!done)
WaitDone == pc = "waitDone" /\ ~done /\ RecvMsgs

\* "Scan done": scan.c now leaves the group, the other program stays in it.
LeaveWaitDone(leaves) ==
  /\ pc = "waitDone" /\ done
  /\ pc' = IF abort THEN "exit" ELSE "getScan"
  /\ outcome' = IF abort THEN "aborted" ELSE outcome
  /\ member' = IF leaves /\ ~abort THEN FALSE ELSE member
  /\ UNCHANGED <<program, err, mcid, flags, shown, queue, scanner, others, histVars>>

------------------------------------------------------------------------------
(* NL80211_CMD_GET_SCAN and nl_recvmsgs_default.                           *)

GetScan ==
  /\ pc = "getScan" /\ pc' = "dump"
  /\ \E n \in 0..MaxBss : \E bss \in [1..n -> Bss] : dumped' = bss \o <<"DONE">>
  /\ UNCHANGED <<program, err, mcid, flags, shown, outcome, kernelVars,
                 own, results, sent, fault>>

\* The kernel (external) queues the answer piece by piece, the first while the
\* request is sent and each later one while the program receives: what others
\* make it multicast meanwhile may fall between.
DumpPiece ==
  /\ pc = "dump" /\ sent < Len(dumped)
  /\ sent' = sent + 1
  /\ queue' = Append(queue, dumped[sent + 1])
  /\ UNCHANGED <<program, pc, err, mcid, flags, shown, outcome,
                 member, scanner, others, own, results, dumped, fault>>

\* A handler of results skips one that lacks a part it tests for, faults on one
\* that lacks a part it reads untested, and prints any other.
Handle(m, tested, read) ==
  [prints |-> IF tested \subseteq has[m] THEN <<m>> ELSE <<>>,
   faults |-> tested \subseteq has[m] /\ ~ (read \subseteq has[m])]

\* Every attribute but SEEN_MS_AGO is printed only if it is there.
callback_of_get_scan_result(m) ==
  Handle(m, {"ATTR_BSS", "parses"}, {"SEEN_MS_AGO"})

\* Mutant: the test for information elements comes after the printing.
callback_dumpLate(m) ==
  Handle(m, {"ATTR_BSS", "parses", "BSSID"}, {"FREQUENCY", "SIGNAL_MBM", "BEACON_INTERVAL"})

callback_dump(m) ==
  Handle(m, {"ATTR_BSS", "parses", "BSSID", "INFORMATION_ELEMENTS"},
            {"FREQUENCY", "SIGNAL_MBM", "BEACON_INTERVAL"})

\* One message and what its handler made of it.  The socket's default callbacks
\* check sequence numbers: an event among the results ends the dump with an error.
Dump(handled) ==
  /\ pc = "dump"
  /\ Handled
  /\ LET m == Head(queue)
         goes == m \in Bss /\ ~ handled.faults
     IN  /\ shown' = IF goes THEN shown \o handled.prints ELSE shown
         /\ pc' = IF goes THEN "dump" ELSE "exit"
         /\ outcome' = CASE goes                 -> outcome
                         [] m \in Bss /\ ~ goes  -> "fault"
                         [] m = "DONE"           -> "ok"
                         [] m \in Event          -> "seqMismatch"
                         [] OTHER                -> "error"
  /\ UNCHANGED <<program, err, mcid, flags, member, scanner, others, histVars>>

------------------------------------------------------------------------------
(* The two programs.                                                       *)

\* main of scan_NL80211_CMD_TRIGGER_SCAN.c
TriggerScanMain ==
  /\ program = "trigger_scan"
  /\ \/ nl_get_multicast_id \/ Join \/ JoinFails
     \/ RequestAccepted \/ RequestRefused \/ NotSent("request", "exit")
     \/ WaitAck \/ LeaveWaitAck(FALSE) \/ WaitDone \/ LeaveWaitDone(FALSE)
     \/ GetScan \/ DumpPiece \/ NotSent("getScan", "exit")
     \/ Dump(callback_of_get_scan_result(Head(queue)))

\* do_scan_trigger and main of scan.c, which ignore failures to send.
do_scan_trigger ==
  \/ nl_get_multicast_id \/ Join \/ JoinFails
  \/ RequestAccepted \/ RequestRefused \/ NotSent("request", "waitAck")
  \/ WaitAck \/ LeaveWaitAck(TRUE) \/ WaitDone \/ LeaveWaitDone(TRUE)

ScanMain ==
  /\ program = "scan"
  /\ \/ do_scan_trigger \/ GetScan \/ DumpPiece \/ NotSent("getScan", "dump")
     \/ Dump(callback_dump(Head(queue)))

Step == TriggerScanMain \/ ScanMain

Next == Step \/ OtherScan \/ ScanEnds

\* The program runs while it has something to do, and a scan takes finite time.
Spec == Init /\ [][Next]_vars /\ WF_vars(Step) /\ WF_vars(ScanEnds)

------------------------------------------------------------------------------
(* Properties.                                                             *)

TypeOK ==
  /\ program \in {"trigger_scan", "scan"}
  /\ pc \in {"resolve", "family", "join", "request", "waitAck", "waitDone",
             "getScan", "dump", "exit"}
  /\ err \in {-1, 0, 1} /\ mcid \in {-1, 1}
  /\ done \in BOOLEAN /\ abort \in BOOLEAN /\ member \in BOOLEAN
  /\ outcome \in {"none", "notSent", "refused", "aborted", "fault",
                  "ok", "seqMismatch", "error"}
  /\ pc = "exit" <=> outcome # "none"
  /\ queue \in Seq(Event \cup Reply)
  /\ shown \in Seq(Bss) /\ dumped \in Seq(Bss \cup {"DONE"}) /\ sent \in 0..Len(dumped)
  /\ scanner \in {"none", "own", "other"}
  /\ others \in 0..MaxOther
  /\ own \in {"none", "accepted", "refused", "NEW_SCAN_RESULTS", "SCAN_ABORTED"}
  /\ results \in Nat /\ fault \in BOOLEAN

\* Results are only asked for after some scan has ended with results while the
\* program was listening: no reply, and no event that starts or aborts a scan,
\* is taken for one, however the single socket mixes them.
DumpHasCause == pc \in {"getScan", "dump"} \/ outcome = "ok" => results > 0

\* As long as no other process scans, the results are those of the program's
\* own scan, and nothing but the answer is on the socket when they are dumped.
AloneOwnResults ==
  others = 0 => /\ pc \in {"getScan", "dump"} => own = "NEW_SCAN_RESULTS"
                /\ outcome \notin {"seqMismatch", "error"}

\* The results among s that have all these parts.
Complete(s, parts) ==
  LET kept[n \in 0..Len(s)] ==
        IF n = 0 THEN <<>>
        ELSE IF s[n] \in Bss /\ parts \subseteq has[s[n]] THEN Append(kept[n - 1], s[n])
        ELSE kept[n - 1]
  IN kept[Len(s)]

\* What a line shows whether or not it is there ...
Shows == IF program = "scan"
         THEN {"BSSID", "FREQUENCY", "SIGNAL_MBM", "BEACON_INTERVAL", "INFORMATION_ELEMENTS"}
         ELSE {"SEEN_MS_AGO"}

\* ... and what a result may be left out for.
Excuses == {"ATTR_BSS", "parses"} \cup
           (IF program = "scan" THEN {"BSSID", "INFORMATION_ELEMENTS"} ELSE {})

\* A dump that ends well has printed, once and in order, every result that has
\* what a line shows, and no other, although the answer comes in pieces and other
\* scans' events on the same socket; what it left out lacks its BSS part or, in
\* scan.c, the BSSID or the information elements.  In particular a program does
\* not get past a result that lacks an attribute it reads untested
\* (SEEN_MS_AGO in one program; frequency, signal, beacon interval in the other).
ResultsShown ==
  outcome = "ok" =>
    /\ shown = Complete(dumped, {"ATTR_BSS", "parses"} \cup Shows)
    /\ \A i \in 1..Len(dumped) :
         dumped[i] \in Bss => \/ Shows \subseteq has[dumped[i]]
                             \/ ~ (Excuses \subseteq has[dumped[i]])

\* Unless joining or sending fails, a program whose request was accepted ends,
\* as does scan.c in any case: every message that the loops of lines 477-487 wait
\* for is in the queue or still to come, however many other scans there are.
AcceptedEnds == own = "accepted" \/ program = "scan" ~> pc = "exit" \/ fault

\* The error callback tells failures apart (line 455): a refused request ends
\* the program as well, if it could join the group and send.
RefusedEnds == own = "refused" ~> pc = "exit" \/ fault
==============================================================================
