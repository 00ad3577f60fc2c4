------------------------- MODULE Nl80211Scan_proofs -------------------------
(***************************************************************************)
(* Proofs about the scan programs for any number of scans of other         *)
(* processes and results of any length.                                    *)
(***************************************************************************)
EXTENDS Nl80211Scan, FiniteSums, TLAPS

Message == Event \cup Reply

\* No message that says there are results is in the sequence, or there are some.
Caused(s, n) == \A i \in 1..Len(s) : s[i] = "NEW_SCAN_RESULTS" => n > 0

LEMMA CausedConcat ==
  ASSUME NEW s \in Seq(Message), NEW t \in Seq(Message), NEW n \in Nat,
         Caused(s, n), Caused(t, n)
  PROVE  s \o t \in Seq(Message) /\ Caused(s \o t, n)
BY DEF Caused

LEMMA CausedAppend ==
  ASSUME NEW s \in Seq(Message), NEW m \in Message, NEW n \in Nat,
         Caused(s, n), m = "NEW_SCAN_RESULTS" => n > 0
  PROVE  Append(s, m) \in Seq(Message) /\ Caused(Append(s, m), n)
BY DEF Caused

LEMMA CausedTail ==
  ASSUME NEW s \in Seq(Message), NEW n \in Nat, Caused(s, n), s # <<>>
  PROVE  /\ Tail(s) \in Seq(Message) /\ Caused(Tail(s), n)
         /\ Head(s) \in Message /\ (Head(s) = "NEW_SCAN_RESULTS" => n > 0)
BY DEF Caused

\* done without abort is set by an event with results; nothing of an answer is
\* queued before it is asked for.
CauseInv ==
  /\ Caused(queue, results)
  /\ pc \notin {"dump", "exit"} => dumped = <<>> /\ sent = 0
  /\ done /\ ~abort => results > 0
  /\ DumpHasCause

ScanInv == TypeOK /\ CauseInv

LEMMA ScanInit == ASSUME Init PROVE ScanInv
<1>1. done \in BOOLEAN /\ abort \in BOOLEAN /\ member \in BOOLEAN /\ fault \in BOOLEAN
  BY Zenon DEF Init
<1>2. TypeOK
  BY <1>1, BoundAssumption DEF Init, TypeOK
<1>3. CauseInv
  BY DEF Init, CauseInv, Caused, DumpHasCause
<1>4. QED
  BY <1>2, <1>3 DEF ScanInv

\* What the kernel queues in one go keeps the queue well formed: it sends results
\* only with the event that announces them.
LEMMA KernelStep ==
  ASSUME ScanInv, OtherScan \/ ScanEnds
  PROVE  ScanInv'
<1> USE BoundAssumption DEF ScanInv, TypeOK, CauseInv, DumpHasCause, flags, histVars
<1>1. CASE OtherScan
  <2>1. queue' \in Seq(Message) /\ Caused(queue', results)
    <3>1. "TRIGGER_SCAN" \in Message
      BY DEF Message, Event
    <3>2. QED
      BY <1>1, <3>1, CausedAppend DEF OtherScan, Multicast, Message
  <2>2. QED
    BY <1>1, <2>1 DEF OtherScan, Message
<1>2. CASE ScanEnds
  <2>1. PICK e \in {"NEW_SCAN_RESULTS", "SCAN_ABORTED"} :
          /\ Multicast(e)
          /\ own' = IF scanner = "own" THEN e ELSE own
          /\ results' = IF member /\ e = "NEW_SCAN_RESULTS" THEN results + 1 ELSE results
    BY <1>2 DEF ScanEnds
  <2>2. results' \in Nat /\ results' >= results /\ Caused(queue, results')
    BY <2>1 DEF Caused
  <2>3. queue' \in Seq(Message) /\ Caused(queue', results')
    <3>1. e \in Message
      BY DEF Message, Event
    <3>2. CASE member
      <4>1. queue' = Append(queue, e) /\ (e = "NEW_SCAN_RESULTS" => results' > 0)
        BY <2>1, <3>2 DEF Multicast
      <4>2. queue \in Seq(Message)
        BY DEF Message
      <4>3. QED
        BY <2>2, <3>1, <4>1, <4>2, CausedAppend
    <3>3. CASE ~member
      BY <2>1, <2>2, <3>3 DEF Multicast, Message
    <3>4. QED
      BY <3>2, <3>3
  <2>4. QED
    BY <1>2, <2>1, <2>2, <2>3 DEF ScanEnds, Message
<1>3. QED
  BY <1>1, <1>2

LEMMA JoinStep ==
  ASSUME ScanInv, nl_get_multicast_id \/ Join \/ JoinFails
  PROVE  ScanInv'
<1> USE BoundAssumption
    DEF ScanInv, TypeOK, CauseInv, DumpHasCause, flags, kernelVars, histVars
<1>1. CASE AskFamily
  <2>1. queue' \in Seq(Message) /\ Caused(queue', results)
    <3>1. ASSUME NEW f \in Family
          PROVE  <<f, "ACK">> \in Seq(Message) /\ Caused(<<f, "ACK">>, results)
      BY DEF Message, Reply, Family, Caused
    <3>2. "ERROR" \in Message /\ "ERROR" # "NEW_SCAN_RESULTS"
      BY DEF Message, Reply
    <3>3. CASE queue' = Append(queue, "ERROR")
      BY <3>2, <3>3, CausedAppend DEF Message
    <3>4. CASE \E f \in Family : queue' = queue \o <<f, "ACK">>
      BY <3>1, <3>4, CausedConcat DEF Message
    <3>5. QED
      BY <1>1, <3>3, <3>4 DEF AskFamily
  <2>2. QED
    BY <1>1, <2>1 DEF AskFamily, Message
<1>2. CASE AskFamilyFails
  BY <1>2 DEF AskFamilyFails
<1>3. CASE WaitFamily
  <2>1. queue' \in Seq(Message) /\ Caused(queue', results)
    BY <1>3, CausedTail DEF WaitFamily, Handled, Message
  <2>2. QED
    BY <1>3, <2>1 DEF WaitFamily, family_handler, AckCallback, Message
<1>4. CASE LeaveFamily
  BY <1>4 DEF LeaveFamily
<1>5. CASE Join
  BY <1>5 DEF Join
<1>6. CASE JoinFails
  BY <1>6 DEF JoinFails
<1>7. QED
  BY <1>1, <1>2, <1>3, <1>4, <1>5, <1>6 DEF nl_get_multicast_id

LEMMA RequestStep ==
  ASSUME ScanInv, RequestAccepted \/ RequestRefused
  PROVE  ScanInv'
<1> USE BoundAssumption
    DEF ScanInv, TypeOK, CauseInv, DumpHasCause, flags, histVars
<1>1. CASE RequestAccepted
  <2>1. queue' \in Seq(Message) /\ Caused(queue', results)
    <3>1. <<"ACK">> \in Seq(Message) /\ Caused(<<"ACK">>, results)
      BY DEF Message, Reply, Caused
    <3>2. <<"TRIGGER_SCAN">> \in Seq(Message) /\ Caused(<<"TRIGGER_SCAN">>, results)
      BY DEF Message, Event, Caused
    <3>3. << >> \in Seq(Message) /\ Caused(<< >>, results)
      BY DEF Caused
    <3>4. PICK t \in Seq(Message) : /\ t = IF member THEN <<"TRIGGER_SCAN">> ELSE << >>
                                    /\ Caused(t, results)
      BY <3>2, <3>3
    <3>5. queue \o t \in Seq(Message) /\ Caused(queue \o t, results)
      BY <3>4, CausedConcat DEF Message
    <3>6. (queue \o t) \o <<"ACK">> \in Seq(Message)
            /\ Caused((queue \o t) \o <<"ACK">>, results)
      BY <3>1, <3>5, CausedConcat
    <3>7. QED
      BY <1>1, <3>4, <3>6 DEF RequestAccepted
  <2>2. QED
    BY <1>1, <2>1 DEF RequestAccepted, Message
<1>2. CASE RequestRefused
  <2>1. queue' \in Seq(Message) /\ Caused(queue', results)
    <3>1. "ERROR" \in Message /\ "ERROR" # "NEW_SCAN_RESULTS"
      BY DEF Message, Reply
    <3>2. QED
      BY <1>2, <3>1, CausedAppend DEF RequestRefused, Message
  <2>2. QED
    BY <1>2, <2>1 DEF RequestRefused, Message
<1>3. QED
  BY <1>1, <1>2

\* One turn of either receive loop: only an event with results leaves done set
\* without abort.
LEMMA RecvStep ==
  ASSUME ScanInv, RecvMsgs
  PROVE  ScanInv'
<1> USE BoundAssumption DEF ScanInv, TypeOK, CauseInv, DumpHasCause, histVars
<1>1. /\ queue' \in Seq(Message) /\ Caused(queue', results)
      /\ Head(queue) = "NEW_SCAN_RESULTS" => results > 0
  BY CausedTail DEF RecvMsgs, Handled, Message
<1>2. done' \in BOOLEAN /\ abort' \in BOOLEAN
  BY DEF RecvMsgs, ScanCallback
<1>3. done' /\ ~abort' => results > 0
  BY <1>1 DEF RecvMsgs, ScanCallback
<1>4. err' \in {-1, 0, 1}
  BY DEF RecvMsgs, AckCallback
<1>5. QED
  BY <1>1, <1>2, <1>3, <1>4 DEF RecvMsgs, Message

LEMMA WaitStep ==
  ASSUME ScanInv, NEW b \in BOOLEAN,
         WaitAck \/ LeaveWaitAck(b) \/ WaitDone \/ LeaveWaitDone(b)
  PROVE  ScanInv'
<1>1. CASE WaitAck \/ WaitDone
  BY <1>1, RecvStep DEF WaitAck, WaitDone
<1> USE BoundAssumption
    DEF ScanInv, TypeOK, CauseInv, DumpHasCause, flags, kernelVars, histVars
<1>2. CASE LeaveWaitAck(b)
  BY <1>2 DEF LeaveWaitAck
<1>3. CASE LeaveWaitDone(b)
  BY <1>3 DEF LeaveWaitDone
<1>4. QED
  BY <1>1, <1>2, <1>3

LEMMA NotSentStep ==
  ASSUME ScanInv,
         \/ NotSent("request", "exit") \/ NotSent("request", "waitAck")
         \/ NotSent("getScan", "exit") \/ NotSent("getScan", "dump")
  PROVE  ScanInv'
<1> USE DEF NotSent, ScanInv, TypeOK, CauseInv, DumpHasCause, flags, kernelVars
<1>1. CASE NotSent("request", "exit")
  BY <1>1
<1>2. CASE NotSent("request", "waitAck")
  BY <1>2
<1>3. CASE NotSent("getScan", "exit")
  BY <1>3
<1>4. CASE NotSent("getScan", "dump")
  BY <1>4
<1>5. QED
  BY <1>1, <1>2, <1>3, <1>4

\* What a handler prints is results.
LEMMA HandlePrints ==
  ASSUME NEW m \in Bss, NEW tested, NEW read
  PROVE  Handle(m, tested, read).prints \in Seq(Bss)
BY DEF Handle

LEMMA DumpStep ==
  ASSUME ScanInv,
         \/ GetScan \/ DumpPiece
         \/ Dump(callback_of_get_scan_result(Head(queue)))
         \/ Dump(callback_dump(Head(queue)))
  PROVE  ScanInv'
<1> USE BoundAssumption
    DEF ScanInv, TypeOK, CauseInv, DumpHasCause, flags, kernelVars, histVars
<1>1. CASE GetScan
  <2>1. PICK n \in 0..MaxBss : \E bss \in [1..n -> Bss] : dumped' = bss \o <<"DONE">>
    BY <1>1 DEF GetScan
  <2>2. PICK bss \in [1..n -> Bss] : dumped' = bss \o <<"DONE">>
    BY <2>1
  <2>3. bss \in Seq(Bss \cup {"DONE"}) /\ <<"DONE">> \in Seq(Bss \cup {"DONE"})
    OBVIOUS
  <2>4. /\ dumped' \in Seq(Bss \cup {"DONE"}) /\ sent' = 0
        /\ Len(dumped') = Len(bss) + 1 /\ Len(bss) \in Nat
    BY <1>1, <2>2, <2>3 DEF GetScan
  <2>5. sent' \in 0..Len(dumped')
    BY <1>1, <2>4 DEF GetScan
  <2>6. QED
    BY <1>1, <2>4, <2>5 DEF GetScan
<1>2. CASE DumpPiece
  <2>1. PICK m \in Bss \cup {"DONE"} : m = dumped[sent + 1]
    <3>1. sent + 1 \in 1..Len(dumped)
      BY <1>2 DEF DumpPiece
    <3>2. QED
      BY <3>1
  <2>2. m \in Message /\ m # "NEW_SCAN_RESULTS"
    BY BssAssumption DEF Message, Reply, Event
  <2>3. queue' \in Seq(Message) /\ Caused(queue', results)
    BY <1>2, <2>1, <2>2, CausedAppend DEF DumpPiece, Message
  <2>4. sent' \in 0..Len(dumped')
    BY <1>2 DEF DumpPiece
  <2>5. QED
    BY <1>2, <2>3, <2>4 DEF DumpPiece, Message
<1>3. ASSUME NEW h, Dump(h), Head(queue) \in Bss => h.prints \in Seq(Bss)
      PROVE  ScanInv'
  <2>1. queue' \in Seq(Message) /\ Caused(queue', results)
    BY <1>3, CausedTail DEF Dump, Handled, Message
  <2>2. shown' \in Seq(Bss)
    BY <1>3 DEF Dump
  <2>3. /\ pc = "dump" /\ pc' \in {"dump", "exit"}
        /\ pc' = "dump" => outcome' = outcome
        /\ pc' = "exit" => outcome' \in {"fault", "ok", "seqMismatch", "error"}
    <3>1. CASE Head(queue) \in Bss /\ ~ h.faults
      BY <1>3, <3>1, BssAssumption DEF Dump, Event
    <3>2. CASE ~ (Head(queue) \in Bss /\ ~ h.faults)
      <4>1. outcome' = CASE Head(queue) \in Bss   -> "fault"
                         [] Head(queue) = "DONE"  -> "ok"
                         [] Head(queue) \in Event -> "seqMismatch"
                         [] OTHER                 -> "error"
        BY <1>3, <3>2 DEF Dump
      <4>2. QED
        BY <1>3, <3>2, <4>1 DEF Dump
    <3>3. QED
      BY <3>1, <3>2
  <2>4. QED
    BY <1>3, <2>1, <2>2, <2>3 DEF Dump, Message
<1>4. CASE Dump(callback_of_get_scan_result(Head(queue)))
  <2>1. Head(queue) \in Bss => callback_of_get_scan_result(Head(queue)).prints \in Seq(Bss)
    BY HandlePrints DEF callback_of_get_scan_result
  <2>2. QED
    BY <1>3, <1>4, <2>1
<1>5. CASE Dump(callback_dump(Head(queue)))
  <2>1. Head(queue) \in Bss => callback_dump(Head(queue)).prints \in Seq(Bss)
    BY HandlePrints DEF callback_dump
  <2>2. QED
    BY <1>3, <1>5, <2>1
<1>6. QED
  BY <1>1, <1>4, <1>5, <1>2

LEMMA ScanStep ==
  ASSUME ScanInv, [Next]_vars
  PROVE  ScanInv'
<1>1. CASE OtherScan \/ ScanEnds
  BY <1>1, KernelStep
<1>2. CASE Step
  BY <1>2, JoinStep, RequestStep, WaitStep, NotSentStep, DumpStep
     DEF Step, TriggerScanMain, ScanMain, do_scan_trigger
<1>3. CASE UNCHANGED vars
  BY <1>3 DEF vars, flags, kernelVars, histVars, ScanInv, TypeOK, CauseInv, DumpHasCause
<1>4. QED
  BY <1>1, <1>2, <1>3 DEF Next

LEMMA ScanInvariant == Spec => []ScanInv
BY ScanInit, ScanStep, PTL DEF Spec

\* The state of both programs has its type, and a program has an outcome exactly
\* when its main has returned.
THEOREM TypeCorrect == Spec => []TypeOK
<1>1. ScanInv => TypeOK
  BY DEF ScanInv
<1>2. QED
  BY <1>1, ScanInvariant, PTL

\* However replies and the events of any number of scans mix on the one socket,
\* results are only asked for after a scan that ended with results.
THEOREM CauseOfDump == Spec => []DumpHasCause
<1>1. ScanInv => DumpHasCause
  BY DEF ScanInv, CauseInv
<1>2. QED
  BY <1>1, ScanInvariant, PTL

-----------------------------------------------------------------------------
(* A program that scans alone.                                             *)

\* The events that end a scan, and what a dump is answered with.
End    == {"NEW_SCAN_RESULTS", "SCAN_ABORTED"}
Answer == Bss \cup {"DONE"}

LEMMA AnswerNoEvent ==
  \A m \in Answer : m \in Message /\ m \notin End /\ m \notin Event
BY BssAssumption DEF Answer, End, Event, Message, Reply

\* The event that ends the program's own scan is the last message it is sent.
EndIsLast(s, o) == \A i \in 1..Len(s) : s[i] \in End => i = Len(s) /\ o = s[i]

\* done is set by the event of the program's own scan, which leaves nothing behind
\* it in the queue, so that a dump finds its answer only.
Alone ==
  /\ scanner # "other" /\ (own = "accepted" <=> scanner = "own")
  /\ EndIsLast(queue, own)
  /\ pc \in {"resolve", "family", "join", "request"} => own = "none" /\ ~done
  /\ pc \notin {"dump", "exit"} /\ done =>
       queue = <<>> /\ own \in End /\ (abort <=> own = "SCAN_ABORTED")
  /\ pc = "getScan" => done /\ ~abort
  /\ pc = "dump" => /\ own = "NEW_SCAN_RESULTS"
                    /\ \A i \in 1..Len(queue) : queue[i] \in Answer
  /\ outcome \notin {"seqMismatch", "error"}

AloneInv == others = 0 => Alone

\* Before the end of the scan nothing that is queued announces an end.
LEMMA QueuedBeforeEnd ==
  ASSUME NEW s \in Seq(Message), NEW t \in Seq(Message), NEW o, NEW p,
         o \notin End, EndIsLast(s, o), \A i \in 1..Len(t) : t[i] \notin End
  PROVE  EndIsLast(s \o t, p)
BY DEF EndIsLast

LEMMA AloneKernel ==
  ASSUME TypeOK, AloneInv, OtherScan \/ ScanEnds
  PROVE  AloneInv'
<1>1. CASE OtherScan
  BY <1>1 DEF OtherScan, AloneInv, TypeOK
<1>2. CASE ScanEnds
  <2> SUFFICES ASSUME others = 0 PROVE Alone'
    BY <1>2 DEF ScanEnds, AloneInv
  <2>1. Alone /\ scanner = "own" /\ own = "accepted"
    BY <1>2 DEF ScanEnds, AloneInv, Alone, TypeOK
  <2>2. PICK e \in End : Multicast(e) /\ own' = e
    BY <1>2, <2>1 DEF ScanEnds, End
  <2>3. EndIsLast(queue', own')
    <3>1. \A i \in 1..Len(queue) : queue[i] \notin End
      BY <2>1 DEF Alone, EndIsLast, End
    <3>2. queue' = queue \/ queue' = Append(queue, e)
      BY <2>2 DEF Multicast
    <3>3. CASE queue' = queue
      BY <3>1, <3>3 DEF EndIsLast
    <3>4. CASE queue' = Append(queue, e)
      <4>1. /\ Len(queue') = Len(queue) + 1 /\ Len(queue) \in Nat /\ queue'[Len(queue')] = e
            /\ \A i \in 1..Len(queue) : queue'[i] = queue[i]
        BY <3>4 DEF TypeOK
      <4>2. QED
        BY <2>2, <3>1, <4>1 DEF EndIsLast
    <3>5. QED
      BY <3>2, <3>3, <3>4
  <2>4. ~ done \/ pc \in {"dump", "exit"}
    BY <2>1 DEF Alone, End
  <2>5. UNCHANGED <<pc, done, abort, outcome>> /\ scanner' = "none"
    BY <1>2 DEF ScanEnds, flags
  <2>6. QED
    BY <2>1, <2>2, <2>3, <2>4, <2>5 DEF Alone, End
<1>3. QED
  BY <1>1, <1>2

LEMMA AloneJoin ==
  ASSUME TypeOK, AloneInv, nl_get_multicast_id \/ Join \/ JoinFails
  PROVE  AloneInv'
<1> USE DEF AloneInv, Alone, flags, kernelVars, histVars
<1>1. CASE AskFamily
  <2> SUFFICES ASSUME others = 0 PROVE Alone'
    BY <1>1 DEF AskFamily
  <2>1. own = "none" /\ own' = own /\ ~ done /\ "none" \notin End
    BY <1>1 DEF AskFamily, End
  <2>2. EndIsLast(queue', own')
    <3>1. PICK t \in Seq(Message) : /\ queue' = queue \o t
                                    /\ \A i \in 1..Len(t) : t[i] \notin End
      <4>1. \A f \in Family : /\ <<f, "ACK">> \in Seq(Message)
                              /\ \A i \in 1..Len(<<f, "ACK">>) : <<f, "ACK">>[i] \notin End
        BY DEF Message, Reply, Family, End
      <4>2. /\ <<"ERROR">> \in Seq(Message)
            /\ \A i \in 1..Len(<<"ERROR">>) : <<"ERROR">>[i] \notin End
            /\ Append(queue, "ERROR") = queue \o <<"ERROR">>
        <5>1. "ERROR" \in Message /\ "ERROR" \notin End
          BY DEF Message, Reply, End
        <5>2. queue \in Seq(Message)
          BY DEF TypeOK, Message
        <5>3. QED
          BY <5>1, <5>2
      <4>3. CASE queue' = Append(queue, "ERROR")
        BY <4>2, <4>3
      <4>4. CASE \E f \in Family : queue' = queue \o <<f, "ACK">>
        BY <4>1, <4>4
      <4>5. QED
        BY <1>1, <4>3, <4>4 DEF AskFamily
    <3>2. QED
      BY <2>1, <3>1, QueuedBeforeEnd DEF TypeOK, Message
  <2>3. QED
    BY <1>1, <2>1, <2>2 DEF AskFamily
<1>2. CASE AskFamilyFails
  BY <1>2 DEF AskFamilyFails
<1>3. CASE WaitFamily
  <2>1. EndIsLast(queue, own) => EndIsLast(Tail(queue), own)
    BY <1>3 DEF WaitFamily, Handled, EndIsLast, TypeOK
  <2>2. QED
    BY <1>3, <2>1 DEF WaitFamily, Handled
<1>4. CASE LeaveFamily
  BY <1>4 DEF LeaveFamily
<1>5. CASE Join
  BY <1>5 DEF Join
<1>6. CASE JoinFails
  BY <1>6 DEF JoinFails
<1>7. QED
  BY <1>1, <1>2, <1>3, <1>4, <1>5, <1>6 DEF nl_get_multicast_id

LEMMA AloneRequest ==
  ASSUME TypeOK, AloneInv, RequestAccepted \/ RequestRefused
  PROVE  AloneInv'
<1> SUFFICES ASSUME others = 0 PROVE Alone'
  BY DEF RequestAccepted, RequestRefused, AloneInv
<1>1. Alone /\ own = "none" /\ ~ done /\ "none" \notin End
  BY DEF RequestAccepted, RequestRefused, AloneInv, Alone, End
<1>2. EndIsLast(queue', own')
  <2>1. PICK t \in Seq(Message) : /\ queue' = queue \o t
                                  /\ \A i \in 1..Len(t) : t[i] \notin End
    <3>1. ASSUME NEW m \in {"ACK", "ERROR", "TRIGGER_SCAN"}
          PROVE  /\ <<m>> \in Seq(Message) /\ \A i \in 1..Len(<<m>>) : <<m>>[i] \notin End
      BY DEF Message, Reply, Event, End
    <3>2. CASE RequestRefused
      <4>1. Append(queue, "ERROR") = queue \o <<"ERROR">>
        BY DEF TypeOK
      <4>2. QED
        BY <3>1, <3>2, <4>1 DEF RequestRefused
    <3>3. CASE RequestAccepted /\ member
      <4>1. /\ <<"TRIGGER_SCAN", "ACK">> \in Seq(Message)
            /\ \A i \in 1..2 : <<"TRIGGER_SCAN", "ACK">>[i] \notin End
        BY DEF Message, Reply, Event, End
      <4>2. queue \o <<"TRIGGER_SCAN">> \o <<"ACK">> = queue \o <<"TRIGGER_SCAN", "ACK">>
        BY DEF TypeOK
      <4>3. QED
        BY <3>3, <4>1, <4>2 DEF RequestAccepted
    <3>4. CASE RequestAccepted /\ ~ member
      <4>1. queue \o <<>> \o <<"ACK">> = queue \o <<"ACK">>
        BY DEF TypeOK
      <4>2. QED
        BY <3>1, <3>4, <4>1 DEF RequestAccepted
    <3>5. QED
      BY <3>2, <3>3, <3>4
  <2>2. queue \in Seq(Message) /\ own \notin End /\ EndIsLast(queue, own)
    BY <1>1 DEF Alone, TypeOK, Message
  <2>3. QED
    BY <2>1, <2>2, QueuedBeforeEnd
<1>3. CASE RequestAccepted
  BY <1>1, <1>2, <1>3 DEF RequestAccepted, Alone, flags
<1>4. CASE RequestRefused
  BY <1>1, <1>2, <1>4 DEF RequestRefused, Alone, flags
<1>5. QED
  BY <1>3, <1>4

LEMMA AloneWait ==
  ASSUME TypeOK, AloneInv, NEW b \in BOOLEAN,
         WaitAck \/ LeaveWaitAck(b) \/ WaitDone \/ LeaveWaitDone(b)
  PROVE  AloneInv'
<1>1. CASE WaitAck \/ WaitDone
  <2> SUFFICES ASSUME others = 0 PROVE Alone'
    BY <1>1 DEF WaitAck, WaitDone, RecvMsgs, AloneInv
  <2>1. /\ Alone /\ RecvMsgs /\ pc \in {"waitAck", "waitDone"} /\ queue # <<>> /\ ~ done
    BY <1>1 DEF WaitAck, WaitDone, RecvMsgs, Handled, AloneInv, Alone
  <2>2. PICK m \in Message : m = Head(queue)
    BY <2>1 DEF TypeOK, Message
  <2>3. EndIsLast(Tail(queue), own) /\ (m \in End => Tail(queue) = <<>> /\ own = m)
    BY <2>1, <2>2 DEF Alone, EndIsLast, TypeOK
  <2>4. /\ done' <=> m \in End
        /\ m \in End => (abort' <=> m = "SCAN_ABORTED")
    BY <2>1, <2>2 DEF RecvMsgs, ScanCallback, End, TypeOK
  <2>5. QED
    BY <2>1, <2>3, <2>4 DEF Alone, RecvMsgs, Handled, histVars
<1> USE DEF AloneInv, Alone, flags, kernelVars, histVars
<1>2. CASE LeaveWaitAck(b)
  BY <1>2 DEF LeaveWaitAck
<1>3. CASE LeaveWaitDone(b)
  BY <1>3 DEF LeaveWaitDone
<1>4. QED
  BY <1>1, <1>2, <1>3

LEMMA AloneNotSent ==
  ASSUME TypeOK, AloneInv,
         \/ NotSent("request", "exit") \/ NotSent("request", "waitAck")
         \/ NotSent("getScan", "exit") \/ NotSent("getScan", "dump")
  PROVE  AloneInv'
<1> USE DEF NotSent, AloneInv, Alone, flags, kernelVars
<1>1. CASE NotSent("request", "exit")
  BY <1>1
<1>2. CASE NotSent("request", "waitAck")
  BY <1>2
<1>3. CASE NotSent("getScan", "exit")
  BY <1>3
<1>4. CASE NotSent("getScan", "dump")
  BY <1>4 DEF End
<1>5. QED
  BY <1>1, <1>2, <1>3, <1>4

LEMMA AloneDump ==
  ASSUME TypeOK, AloneInv,
         \/ GetScan \/ DumpPiece
         \/ Dump(callback_of_get_scan_result(Head(queue)))
         \/ Dump(callback_dump(Head(queue)))
  PROVE  AloneInv'
<1> SUFFICES ASSUME others = 0 PROVE Alone'
  BY DEF GetScan, DumpPiece, Dump, AloneInv, kernelVars
<1>1. Alone
  BY DEF AloneInv
<1>2. \A m \in Answer : m \notin End /\ m \notin Event
  BY AnswerNoEvent
<1>3. CASE GetScan
  <2>1. own = "NEW_SCAN_RESULTS" /\ queue = <<>>
    BY <1>1, <1>3 DEF GetScan, Alone, End
  <2>2. \A i \in 1..Len(queue) : queue[i] \in Answer
    BY <2>1
  <2>3. QED
    BY <1>1, <1>3, <2>1, <2>2 DEF GetScan, Alone, kernelVars, flags
<1>4. CASE DumpPiece
  <2>1. PICK m \in Answer : m = dumped[sent + 1]
    <3>1. sent + 1 \in 1..Len(dumped) /\ dumped \in Seq(Answer)
      BY <1>4 DEF DumpPiece, TypeOK, Answer
    <3>2. QED
      BY <3>1
  <2>2. queue' = Append(queue, m) /\ queue \in Seq(Message) /\ m \in Message
    BY <1>4, <2>1, AnswerNoEvent DEF DumpPiece, TypeOK, Message
  <2>3. own = "NEW_SCAN_RESULTS" /\ \A i \in 1..Len(queue) : queue[i] \in Answer
    BY <1>1, <1>4 DEF DumpPiece, Alone
  <2>4. \A i \in 1..Len(queue') : queue'[i] \in Answer
    BY <2>2, <2>3
  <2>5. EndIsLast(queue', own')
    BY <1>2, <2>4 DEF EndIsLast
  <2>6. QED
    BY <1>1, <1>4, <2>3, <2>4, <2>5 DEF DumpPiece, Alone, flags
<1>5. ASSUME NEW h, Dump(h) PROVE Alone'
  <2>1. /\ queue # <<>> /\ queue' = Tail(queue) /\ pc = "dump" /\ pc' \in {"dump", "exit"}
        /\ UNCHANGED <<own, scanner, done, abort>>
    BY <1>5 DEF Dump, Handled, flags, histVars
  <2>2. /\ own = "NEW_SCAN_RESULTS" /\ Head(queue) \in Answer
        /\ \A i \in 1..Len(queue') : queue'[i] \in Answer
    BY <1>1, <2>1 DEF Alone, TypeOK
  <2>3. EndIsLast(queue', own')
    BY <1>2, <2>2 DEF EndIsLast
  <2>4. outcome' \notin {"seqMismatch", "error"}
    <3>1. outcome' = CASE Head(queue) \in Bss /\ ~ h.faults -> outcome
                       [] Head(queue) \in Bss /\ ~ (Head(queue) \in Bss /\ ~ h.faults) -> "fault"
                       [] Head(queue) = "DONE"  -> "ok"
                       [] Head(queue) \in Event -> "seqMismatch"
                       [] OTHER                 -> "error"
      BY <1>5 DEF Dump
    <3>2. CASE Head(queue) = "DONE"
      BY <3>1, <3>2, BssAssumption DEF Event
    <3>3. CASE Head(queue) \in Bss /\ h.faults
      BY <3>1, <3>3, BssAssumption DEF Event
    <3>4. CASE Head(queue) \in Bss /\ ~ h.faults
      <4>1. outcome' = outcome
        BY <3>1, <3>4, BssAssumption DEF Event
      <4>2. QED
        BY <1>1, <4>1 DEF Alone
    <3>5. QED
      BY <2>2, <3>2, <3>3, <3>4 DEF Answer
  <2>5. QED
    BY <1>1, <2>1, <2>2, <2>3, <2>4 DEF Alone
<1>6. QED
  BY <1>3, <1>5, <1>4

LEMMA AloneStep ==
  ASSUME TypeOK, AloneInv, [Next]_vars
  PROVE  AloneInv'
<1>1. CASE OtherScan \/ ScanEnds
  BY <1>1, AloneKernel
<1>2. CASE Step
  BY <1>2, AloneJoin, AloneRequest, AloneWait, AloneNotSent, AloneDump
     DEF Step, TriggerScanMain, ScanMain, do_scan_trigger
<1>3. CASE UNCHANGED vars
  BY <1>3 DEF vars, flags, kernelVars, histVars, AloneInv, Alone
<1>4. QED
  BY <1>1, <1>2, <1>3 DEF Next

\* As long as no other process scans, a program dumps the results of its own scan
\* and finds nothing on the socket but the answer, whatever it was refused, could
\* not join or could not send.
THEOREM AloneSeesOwn == Spec => []AloneOwnResults
<1>1. Init => AloneInv
  BY DEF Init, AloneInv, Alone, EndIsLast
<1>2. AloneInv => AloneOwnResults
  BY DEF AloneInv, Alone, AloneOwnResults, End
<1>3. QED
  BY <1>1, <1>2, AloneStep, TypeCorrect, PTL DEF Spec

-----------------------------------------------------------------------------
(* What a dump prints.                                                     *)

\* Complete(s, P), one message after the other.
Keeps(m, P) == m \in Bss /\ P \subseteq has[m]

KeepStep(s, P, f, n) == IF n = 0 THEN <<>>
                        ELSE IF Keeps(s[n], P) THEN Append(f[n - 1], s[n])
                        ELSE f[n - 1]

IsKept(s, P, f) == f = [n \in 0..Len(s) |-> KeepStep(s, P, f, n)]

Kept(s, P) == CHOOSE f : IsKept(s, P, f)

LEMMA CompleteIsKept == ASSUME NEW s, NEW P PROVE Complete(s, P) = Kept(s, P)[Len(s)]
BY DEF Complete, Kept, IsKept, KeepStep, Keeps

\* The recursive definition has a solution.
LEMMA KeptExists ==
  ASSUME NEW s \in Seq(Answer), NEW P
  PROVE  IsKept(s, P, Kept(s, P))
<1> DEFINE Upto(f, n) == \A m \in 0..Len(s) : m <= n => f[m] = KeepStep(s, P, f, m)
<1>1. PICK G \in SUBSET Nat : G = {n \in Nat : \E f \in [0..Len(s) -> Seq(Bss)] : Upto(f, n)}
  OBVIOUS
<1>2. 0 \in G
  <2>1. PICK f \in [0..Len(s) -> Seq(Bss)] : \A m \in 0..Len(s) : f[m] = <<>>
    <3>1. [m \in 0..Len(s) |-> <<>>] \in [0..Len(s) -> Seq(Bss)]
      OBVIOUS
    <3>2. QED
      BY <3>1
  <2>2. Upto(f, 0)
    BY <2>1 DEF KeepStep
  <2>3. QED
    BY <1>1, <2>2
<1>3. ASSUME NEW n \in G PROVE n + 1 \in G
  <2>1. PICK f \in [0..Len(s) -> Seq(Bss)] : Upto(f, n)
    BY <1>1, <1>3
  <2>2. n \in Nat /\ Len(s) \in Nat
    BY <1>1
  <2>3. CASE n + 1 > Len(s)
    <3>1. Upto(f, n + 1)
      BY <2>1, <2>2, <2>3
    <3>2. QED
      BY <1>1, <2>2, <3>1
  <2>4. CASE n + 1 <= Len(s)
    <3>0. f[n] \in Seq(Bss) /\ (n + 1) - 1 = n
      <4>1. n \in 0..Len(s) /\ (n + 1) - 1 = n
        BY <2>2, <2>4
      <4>2. QED
        BY <4>1
    <3>1. PICK v \in Seq(Bss) : v = KeepStep(s, P, f, n + 1)
      <4>1. KeepStep(s, P, f, n + 1) = IF Keeps(s[n + 1], P) THEN Append(f[n], s[n + 1]) ELSE f[n]
        BY <2>2, <3>0 DEF KeepStep
      <4>2. s[n + 1] \in Bss => Append(f[n], s[n + 1]) \in Seq(Bss)
        BY <3>0
      <4>3. QED
        BY <3>0, <4>1, <4>2 DEF Keeps
    <3>2. PICK g \in [0..Len(s) -> Seq(Bss)] : g = [f EXCEPT ![n + 1] = v]
      BY <2>2, <2>4
    <3>3. g[n + 1] = v /\ \A m \in 0..Len(s) : m <= n => g[m] = f[m]
      BY <2>2, <2>4, <3>2
    <3>4. \A m \in 0..Len(s) : m <= n + 1 => KeepStep(s, P, g, m) = KeepStep(s, P, f, m)
      BY <2>2, <3>3 DEF KeepStep
    <3>5. ASSUME NEW m \in 0..Len(s), m <= n + 1 PROVE g[m] = KeepStep(s, P, g, m)
      <4>1. CASE m = n + 1
        BY <3>1, <3>3, <3>4, <3>5, <4>1
      <4>2. CASE m <= n
        BY <2>1, <3>3, <3>4, <3>5, <4>2
      <4>3. QED
        BY <2>2, <3>5, <4>1, <4>2
    <3>6. QED
      BY <1>1, <2>2, <3>5
  <2>5. QED
    BY <2>2, <2>3, <2>4
<1>4. Len(s) \in G
  <2>1. G = Nat
    BY <1>2, <1>3, SetOfAllNaturals
  <2>2. QED
    BY <2>1
<1>5. PICK f \in [0..Len(s) -> Seq(Bss)] : Upto(f, Len(s))
  BY <1>1, <1>4
<1>6. IsKept(s, P, f)
  <2>1. \A m \in 0..Len(s) : f[m] = KeepStep(s, P, f, m)
    BY <1>5
  <2>2. f = [m \in 0..Len(s) |-> f[m]]
    OBVIOUS
  <2>3. QED
    BY <2>1, <2>2, Zenon DEF IsKept
<1>7. QED
  BY <1>6 DEF Kept

\* What Kept says of the first result and of every other.
LEMMA KeptValues ==
  ASSUME NEW s \in Seq(Answer), NEW P
  PROVE  /\ Kept(s, P)[0] = <<>>
         /\ \A n \in 0..(Len(s) - 1) :
              Kept(s, P)[n + 1] = IF Keeps(s[n + 1], P) THEN Append(Kept(s, P)[n], s[n + 1])
                               ELSE Kept(s, P)[n]
<1>1. PICK f : f = Kept(s, P)
  OBVIOUS
<1>2. f = [n \in 0..Len(s) |-> KeepStep(s, P, f, n)]
  BY <1>1, KeptExists DEF IsKept
<1>3. \A n \in 0..Len(s) : f[n] = KeepStep(s, P, f, n)
  BY <1>2
<1>4. QED
  BY <1>1, <1>3 DEF KeepStep

NoAnswer(s) == \A i \in 1..Len(s) : s[i] \notin Answer

LEMMA NoAnswerConcat ==
  ASSUME NEW s \in Seq(Message), NEW t \in Seq(Message), NoAnswer(s), NoAnswer(t)
  PROVE  s \o t \in Seq(Message) /\ NoAnswer(s \o t)
BY DEF NoAnswer

LEMMA NoAnswerAppend ==
  ASSUME NEW s \in Seq(Message), NEW m \in Message, NoAnswer(s), m \notin Answer
  PROVE  NoAnswer(Append(s, m))
BY DEF NoAnswer

LEMMA NoAnswerTail ==
  ASSUME NEW s \in Seq(Message), NoAnswer(s), s # <<>>
  PROVE  NoAnswer(Tail(s))
BY DEF NoAnswer

\* The results that a program gets past, and those it prints.
Needs == {"ATTR_BSS", "parses"} \cup Shows

Spared(b) == Shows \subseteq has[b] \/ ~ (Excuses \subseteq has[b])

\* Both handlers do what ResultsShown asks for with a single result.
LEMMA HandlerCorrect ==
  ASSUME NEW m \in Bss, NEW h, ~ h.faults,
         \/ program = "trigger_scan" /\ h = callback_of_get_scan_result(m)
         \/ program = "scan" /\ h = callback_dump(m)
  PROVE  Spared(m) /\ h.prints = IF Keeps(m, Needs) THEN <<m>> ELSE <<>>
<1>1. PICK S : S = has[m]
  OBVIOUS
<1>2. CASE program = "trigger_scan"
  <2>1. h = Handle(m, {"ATTR_BSS", "parses"}, {"SEEN_MS_AGO"})
    BY <1>2 DEF callback_of_get_scan_result
  <2>2. /\ h.prints = IF {"ATTR_BSS", "parses"} \subseteq S THEN <<m>> ELSE <<>>
        /\ ~ ({"ATTR_BSS", "parses"} \subseteq S /\ ~ ({"SEEN_MS_AGO"} \subseteq S))
    BY <1>1, <2>1 DEF Handle
  <2>3. Needs = {"ATTR_BSS", "parses", "SEEN_MS_AGO"} /\ Shows = {"SEEN_MS_AGO"}
        /\ Excuses = {"ATTR_BSS", "parses"}
    BY <1>2 DEF Needs, Shows, Excuses
  <2>4. QED
    BY <1>1, <2>2, <2>3 DEF Spared, Keeps
<1>3. CASE program = "scan"
  <2> DEFINE T == {"ATTR_BSS", "parses", "BSSID", "INFORMATION_ELEMENTS"}
             R == {"FREQUENCY", "SIGNAL_MBM", "BEACON_INTERVAL"}
  <2>1. h = Handle(m, T, R)
    BY <1>3 DEF callback_dump
  <2>2. /\ h.prints = IF T \subseteq S THEN <<m>> ELSE <<>>
        /\ ~ (T \subseteq S /\ ~ (R \subseteq S))
    BY <1>1, <2>1 DEF Handle
  <2>3. Needs = T \cup R /\ Shows = {"BSSID", "INFORMATION_ELEMENTS"} \cup R /\ Excuses = T
    BY <1>3 DEF Needs, Shows, Excuses
  <2>4. QED
    BY <1>1, <2>2, <2>3 DEF Spared, Keeps
<1>4. QED
  BY <1>2, <1>3

\* An answer is results and, at its end alone, DONE.
IsAnswer == dumped # <<>> => /\ dumped[Len(dumped)] = "DONE"
                             /\ \A i \in 1..(Len(dumped) - 1) : dumped[i] \in Bss

\* Of the answer behind its first n messages the next k are at the head of the
\* queue: all that is sent with nothing behind it, or all there is, or those up to
\* a message that does not belong to it.
Ahead(n, k) ==
  /\ n < Len(dumped) /\ n + k <= sent /\ k <= Len(queue)
  /\ \A i \in 1..k : queue[i] = dumped[n + i]
  /\ \/ n + k = sent /\ k = Len(queue)
     \/ n + k = Len(dumped)
     \/ k < Len(queue) /\ queue[k + 1] \notin Answer

\* The first n messages of the answer have been handled.
PrintedUpto(n) ==
  /\ shown = Kept(dumped, Needs)[n]
  /\ \A i \in 1..n : dumped[i] \in Bss => Spared(dumped[i])

Dumping == \E n \in Nat, k \in Nat : Ahead(n, k) /\ PrintedUpto(n)

ShownInv ==
  /\ pc \notin {"dump", "exit"} => shown = <<>> /\ NoAnswer(queue) /\ dumped = <<>> /\ sent = 0
  /\ IsAnswer
  /\ pc = "dump" => (dumped = <<>> /\ NoAnswer(queue)) \/ Dumping
  /\ ResultsShown

\* The steps before a dump queue no answer.
LEMMA ShownQuiet ==
  ASSUME ShownInv, pc \notin {"dump", "exit"}, UNCHANGED <<shown, dumped, sent, program>>,
         pc' # "dump", outcome' # "ok", NoAnswer(queue')
  PROVE  ShownInv'
BY DEF ShownInv, IsAnswer, ResultsShown

\* Another message behind the queue.
LEMMA AheadAppend ==
  ASSUME TypeOK, NEW n \in Nat, NEW k \in Nat, Ahead(n, k), NEW e \in Message, e \notin Answer,
         queue' = Append(queue, e), UNCHANGED <<dumped, sent>>
  PROVE  Ahead(n, k)'
<1>1. /\ Len(queue') = Len(queue) + 1 /\ Len(queue) \in Nat /\ queue'[Len(queue) + 1] = e
      /\ \A i \in 1..Len(queue) : queue'[i] = queue[i]
  BY DEF TypeOK
<1>2. k <= Len(queue') /\ \A i \in 1..k : queue'[i] = dumped[n + i]
  BY <1>1 DEF Ahead
<1>3. \/ n + k = Len(dumped)
      \/ k < Len(queue') /\ queue'[k + 1] \notin Answer
  <2>1. CASE k = Len(queue)
    BY <1>1, <2>1
  <2>2. CASE k < Len(queue) /\ queue[k + 1] \notin Answer
    <3>1. k + 1 \in 1..Len(queue)
      BY <1>1, <2>2
    <3>2. QED
      BY <1>1, <2>2, <3>1
  <2>3. QED
    BY <2>1, <2>2 DEF Ahead
<1>4. QED
  BY <1>2, <1>3 DEF Ahead

LEMMA ShownKernel ==
  ASSUME TypeOK, ShownInv, OtherScan \/ ScanEnds
  PROVE  ShownInv'
<1>1. UNCHANGED <<pc, program, shown, dumped, sent, outcome>>
  BY DEF OtherScan, ScanEnds, histVars
<1>2. PICK e \in Event : queue' = queue \/ queue' = Append(queue, e)
  BY DEF OtherScan, ScanEnds, Multicast, Event
<1>3. e \notin Answer /\ e \in Message /\ queue \in Seq(Message)
  BY AnswerNoEvent DEF Message, TypeOK
<1>4. \A n \in Nat : PrintedUpto(n) => PrintedUpto(n)'
  BY <1>1 DEF PrintedUpto, Needs, Shows, Excuses, Spared
<1>5. IsAnswer' /\ ResultsShown'
  BY <1>1 DEF ShownInv, IsAnswer, ResultsShown, Shows, Excuses
<1>6. CASE queue' = queue
  <2>1. Dumping => Dumping'
    BY <1>1, <1>4, <1>6 DEF Dumping, Ahead
  <2>2. QED
    BY <1>1, <1>5, <1>6, <2>1 DEF ShownInv
<1>7. CASE queue' = Append(queue, e)
  <2>1. NoAnswer(queue) => NoAnswer(queue')
    BY <1>3, <1>7, NoAnswerAppend
  <2>2. Dumping => Dumping'
    BY <1>1, <1>3, <1>4, <1>7, AheadAppend DEF Dumping
  <2>3. QED
    BY <1>1, <1>5, <2>1, <2>2 DEF ShownInv
<1>8. QED
  BY <1>2, <1>6, <1>7

LEMMA ShownJoin ==
  ASSUME TypeOK, ShownInv, nl_get_multicast_id \/ Join \/ JoinFails
  PROVE  ShownInv'
<1>0. queue \in Seq(Message)
  BY DEF TypeOK, Message
<1>1. ASSUME pc \in {"resolve", "family", "join"}, UNCHANGED <<shown, dumped, sent, program, outcome>>,
             pc' # "dump", NoAnswer(queue) => NoAnswer(queue')
      PROVE  ShownInv'
  <2>1. outcome = "none" /\ NoAnswer(queue)
    BY <1>1 DEF TypeOK, ShownInv
  <2>2. QED
    BY <1>1, <2>1, ShownQuiet
<1> USE DEF flags, kernelVars, histVars
<1>2. CASE AskFamily
  <2>1. ASSUME NEW f \in Family
        PROVE  <<f, "ACK">> \in Seq(Message) /\ NoAnswer(<<f, "ACK">>)
    BY BssAssumption DEF Message, Reply, Family, NoAnswer, Answer
  <2>2. "ERROR" \in Message /\ "ERROR" \notin Answer
    BY BssAssumption DEF Message, Reply, Answer
  <2>3. ASSUME NoAnswer(queue) PROVE NoAnswer(queue')
    <3>1. CASE queue' = Append(queue, "ERROR")
      BY <1>0, <2>2, <2>3, <3>1, NoAnswerAppend
    <3>2. CASE \E f \in Family : queue' = queue \o <<f, "ACK">>
      BY <1>0, <2>1, <2>3, <3>2, NoAnswerConcat
    <3>3. QED
      BY <1>2, <3>1, <3>2 DEF AskFamily
  <2>4. QED
    BY <1>1, <1>2, <2>3 DEF AskFamily
<1>3. CASE AskFamilyFails
  BY <1>1, <1>3 DEF AskFamilyFails
<1>4. CASE WaitFamily
  BY <1>0, <1>1, <1>4, NoAnswerTail DEF WaitFamily, Handled
<1>5. CASE LeaveFamily
  BY <1>1, <1>5 DEF LeaveFamily
<1>6. CASE Join \/ JoinFails
  BY <1>1, <1>6 DEF Join, JoinFails
<1>7. QED
  BY <1>2, <1>3, <1>4, <1>5, <1>6 DEF nl_get_multicast_id

LEMMA ShownRequest ==
  ASSUME TypeOK, ShownInv, RequestAccepted \/ RequestRefused
  PROVE  ShownInv'
<1>1. NoAnswer(queue) /\ queue \in Seq(Message) /\ outcome # "ok"
  BY DEF RequestAccepted, RequestRefused, ShownInv, TypeOK, Message
<1>2. ASSUME NEW m \in {"ACK", "ERROR", "TRIGGER_SCAN"}
      PROVE  m \in Message /\ m \notin Answer /\ <<m>> \in Seq(Message) /\ NoAnswer(<<m>>)
  BY BssAssumption DEF Message, Reply, Event, NoAnswer, Answer
<1>3. NoAnswer(queue')
  <2>1. CASE RequestRefused
    BY <1>1, <1>2, <2>1, NoAnswerAppend DEF RequestRefused
  <2>2. CASE RequestAccepted
    <3>1. PICK t \in Seq(Message) : /\ t = IF member THEN <<"TRIGGER_SCAN">> ELSE << >>
                                    /\ NoAnswer(t)
      <4>1. << >> \in Seq(Message) /\ NoAnswer(<< >>)
        BY DEF NoAnswer
      <4>2. <<"TRIGGER_SCAN">> \in Seq(Message) /\ NoAnswer(<<"TRIGGER_SCAN">>)
        BY <1>2
      <4>3. QED
        BY <4>1, <4>2
    <3>2. queue \o t \in Seq(Message) /\ NoAnswer(queue \o t)
      BY <1>1, <3>1, NoAnswerConcat
    <3>3. NoAnswer((queue \o t) \o <<"ACK">>)
      BY <1>2, <3>2, NoAnswerConcat
    <3>4. QED
      BY <2>2, <3>1, <3>3 DEF RequestAccepted
  <2>3. QED
    BY <2>1, <2>2
<1>4. QED
  BY <1>1, <1>3, ShownQuiet DEF RequestAccepted, RequestRefused, flags, histVars

LEMMA ShownWait ==
  ASSUME TypeOK, ShownInv, NEW b \in BOOLEAN,
         WaitAck \/ LeaveWaitAck(b) \/ WaitDone \/ LeaveWaitDone(b)
  PROVE  ShownInv'
<1>1. /\ NoAnswer(queue) /\ queue \in Seq(Message) /\ outcome # "ok"
      /\ pc \in {"waitAck", "waitDone"}
  BY DEF WaitAck, LeaveWaitAck, WaitDone, LeaveWaitDone, ShownInv, TypeOK, Message
<1>2. CASE WaitAck \/ WaitDone
  <2>1. NoAnswer(queue')
    BY <1>1, <1>2, NoAnswerTail DEF WaitAck, WaitDone, RecvMsgs, Handled
  <2>2. QED
    BY <1>1, <1>2, <2>1, ShownQuiet DEF WaitAck, WaitDone, RecvMsgs, histVars
<1>3. CASE LeaveWaitAck(b)
  BY <1>1, <1>3, ShownQuiet DEF LeaveWaitAck, kernelVars, histVars
<1>4. CASE LeaveWaitDone(b)
  BY <1>1, <1>4, ShownQuiet DEF LeaveWaitDone, histVars
<1>5. QED
  BY <1>2, <1>3, <1>4

LEMMA ShownNotSent ==
  ASSUME TypeOK, ShownInv,
         \/ NotSent("request", "exit") \/ NotSent("request", "waitAck")
         \/ NotSent("getScan", "exit") \/ NotSent("getScan", "dump")
  PROVE  ShownInv'
<1>1. PICK at \in {"request", "getScan"}, next \in {"exit", "waitAck", "dump"} :
        NotSent(at, next)
  OBVIOUS
<1>2. /\ pc \notin {"dump", "exit"} /\ outcome' # "ok" /\ pc' = next
      /\ UNCHANGED <<shown, dumped, sent, program, queue>>
  BY <1>1 DEF NotSent, TypeOK, kernelVars
<1>3. NoAnswer(queue)
  BY <1>2 DEF ShownInv
<1>4. CASE next # "dump"
  BY <1>2, <1>3, <1>4, ShownQuiet
<1>5. CASE next = "dump"
  BY <1>2, <1>3, <1>5 DEF ShownInv, IsAnswer, ResultsShown
<1>6. QED
  BY <1>4, <1>5

\* A dump begins with nothing sent.
LEMMA ShownGetScan ==
  ASSUME TypeOK, ShownInv, GetScan
  PROVE  ShownInv'
<1>1. /\ pc' = "dump" /\ UNCHANGED <<shown, program, outcome, queue, sent>> /\ outcome = "none"
      /\ shown = <<>> /\ NoAnswer(queue) /\ sent = 0 /\ queue \in Seq(Message)
  BY DEF GetScan, TypeOK, ShownInv, kernelVars, Message
<1>2. PICK k \in 0..MaxBss : \E bss \in [1..k -> Bss] : dumped' = bss \o <<"DONE">>
  BY DEF GetScan
<1>3. PICK bss \in [1..k -> Bss] : dumped' = bss \o <<"DONE">>
  BY <1>2
<1>4. bss \in Seq(Answer) /\ <<"DONE">> \in Seq(Answer) /\ Len(bss) = k /\ k \in Nat
  BY BoundAssumption DEF Answer
<1>5. PICK d \in Seq(Answer) : d = dumped'
  BY <1>3, <1>4
<1>6. Len(d) = k + 1 /\ d[k + 1] = "DONE" /\ \A i \in 1..k : d[i] = bss[i]
  BY <1>3, <1>4, <1>5
<1>7. IsAnswer'
  BY <1>4, <1>5, <1>6 DEF IsAnswer
<1>8. Ahead(0, 0)'
  <2>1. queue = <<>> \/ (1 \in 1..Len(queue) /\ 0 < Len(queue))
    BY <1>1
  <2>2. Len(queue) \in Nat /\ (queue = <<>> => Len(queue) = 0)
    BY <1>1
  <2>3. queue # <<>> => queue[1] \notin Answer
    BY <1>1, <2>1 DEF NoAnswer
  <2>4. QED
    BY <1>1, <1>4, <1>5, <1>6, <2>1, <2>2, <2>3 DEF Ahead
<1>9. PrintedUpto(0)'
  <2>1. PICK P : P = Needs'
    OBVIOUS
  <2>2. Kept(d, P)[0] = <<>>
    BY KeptValues
  <2>3. QED
    BY <1>1, <1>5, <2>1, <2>2 DEF PrintedUpto
<1>10. QED
  BY <1>1, <1>7, <1>8, <1>9 DEF ShownInv, Dumping, ResultsShown

\* The next piece is queued behind the last one, or behind something else.
LEMMA ShownPiece ==
  ASSUME TypeOK, ShownInv, DumpPiece
  PROVE  ShownInv'
<1>1. /\ pc = "dump" /\ UNCHANGED <<pc, shown, program, outcome, dumped>> /\ outcome = "none"
      /\ sent < Len(dumped) /\ sent' = sent + 1 /\ sent \in Nat /\ Len(dumped) \in Nat
      /\ queue' = Append(queue, dumped[sent + 1]) /\ queue \in Seq(Message)
      /\ dumped \in Seq(Answer) /\ dumped # <<>>
  BY DEF DumpPiece, TypeOK, Message, Answer
<1>2. PICK n \in Nat, k \in Nat : Ahead(n, k) /\ PrintedUpto(n)
  BY <1>1 DEF ShownInv, Dumping
<1>3. PrintedUpto(n)'
  BY <1>1, <1>2 DEF PrintedUpto, Needs, Shows, Excuses, Spared
<1>4. PICK m \in Message : m = dumped[sent + 1]
  <2>1. sent + 1 \in 1..Len(dumped)
    BY <1>1
  <2>2. QED
    BY <1>1, <2>1, AnswerNoEvent
<1>5. /\ Len(queue') = Len(queue) + 1 /\ Len(queue) \in Nat /\ queue'[Len(queue) + 1] = m
      /\ \A i \in 1..Len(queue) : queue'[i] = queue[i]
  BY <1>1, <1>4
<1>6. \E l \in Nat : Ahead(n, l)'
  <2>1. CASE n + k = sent /\ k = Len(queue)
    <3>1. k + 1 \in Nat /\ n + (k + 1) = sent' /\ k + 1 = Len(queue')
      BY <1>1, <1>5, <2>1
    <3>2. \A i \in 1..k : queue'[i] = dumped[n + i]
      BY <1>2, <1>5, <2>1 DEF Ahead
    <3>3. queue'[k + 1] = dumped[n + (k + 1)]
      <4>1. n + (k + 1) = sent + 1
        BY <2>1, <1>1
      <4>2. QED
        BY <1>4, <1>5, <2>1, <4>1
    <3>4. \A i \in 1..(k + 1) : queue'[i] = dumped[n + i]
      BY <3>2, <3>3
    <3>5. Ahead(n, k + 1)'
      BY <1>1, <1>2, <3>1, <3>4 DEF Ahead
    <3>6. QED
      BY <3>1, <3>5
  <2>2. CASE n + k = Len(dumped)
    BY <1>1, <1>2, <2>2 DEF Ahead
  <2>3. CASE k < Len(queue) /\ queue[k + 1] \notin Answer
    <3>1. k + 1 \in 1..Len(queue) /\ \A i \in 1..k : i \in 1..Len(queue)
      BY <1>5, <2>3
    <3>2. queue'[k + 1] = queue[k + 1] /\ \A i \in 1..k : queue'[i] = queue[i]
      BY <1>5, <3>1
    <3>3. Ahead(n, k)'
      BY <1>1, <1>2, <1>5, <2>3, <3>2 DEF Ahead
    <3>4. QED
      BY <3>3
  <2>4. QED
    BY <1>2, <2>1, <2>2, <2>3 DEF Ahead
<1>7. Dumping' /\ IsAnswer'
  BY <1>1, <1>3, <1>6 DEF Dumping, ShownInv, IsAnswer
<1>8. QED
  BY <1>1, <1>7 DEF ShownInv, ResultsShown

\* One result is taken from the queue and printed, or skipped, or the dump ends.
LEMMA ShownDump ==
  ASSUME TypeOK, ShownInv, NEW h, Dump(h),
         \/ program = "trigger_scan" /\ h = callback_of_get_scan_result(Head(queue))
         \/ program = "scan" /\ h = callback_dump(Head(queue))
  PROVE  ShownInv'
<1>1. /\ pc = "dump" /\ queue # <<>> /\ queue' = Tail(queue)
      /\ UNCHANGED <<dumped, sent, program>> /\ outcome = "none" /\ queue \in Seq(Message)
      /\ dumped \in Seq(Answer) /\ shown \in Seq(Bss) /\ sent \in 0..Len(dumped)
  BY DEF Dump, Handled, histVars, TypeOK, Message, Answer
<1>2. PICK m \in Message : m = Head(queue) /\ m = queue[1]
  BY <1>1
<1>3. ASSUME m \notin Bss \/ h.faults
      PROVE  /\ pc' = "exit" /\ shown' = shown
             /\ outcome' = "ok" => m = "DONE"
  <2>1. outcome' = CASE m \in Bss   -> "fault"
                     [] m = "DONE"  -> "ok"
                     [] m \in Event -> "seqMismatch"
                     [] OTHER       -> "error"
    BY <1>2, <1>3 DEF Dump
  <2>2. QED
    BY <1>2, <1>3, <2>1 DEF Dump
<1>4. ASSUME m \in Bss, ~ h.faults
      PROVE  pc' = "dump" /\ shown' = shown \o h.prints /\ outcome' = outcome
  <2>1. Head(queue) \in Bss /\ ~ h.faults
    BY <1>2, <1>4
  <2>2. pc' = "dump" /\ shown' = shown \o h.prints
    BY <2>1 DEF Dump
  <2>3. outcome' = outcome
    BY <2>1, BssAssumption DEF Dump, Event
  <2>4. QED
    BY <2>2, <2>3
<1>5. IsAnswer' /\ "DONE" \notin Bss
  BY <1>1, BssAssumption DEF ShownInv, IsAnswer
<1>6. ASSUME m \notin Answer PROVE ShownInv'
  <2>1. pc' = "exit" /\ outcome' # "ok"
    BY <1>3, <1>6 DEF Answer
  <2>2. QED
    BY <1>5, <2>1 DEF ShownInv, ResultsShown
<1>7. CASE dumped = <<>> /\ NoAnswer(queue)
  <2>1. 1 \in 1..Len(queue)
    BY <1>1
  <2>2. m \notin Answer
    BY <1>2, <1>7, <2>1 DEF NoAnswer
  <2>3. QED
    BY <1>6, <2>2
<1>8. CASE Dumping
  <2>1. PICK n \in Nat, k \in Nat : Ahead(n, k) /\ PrintedUpto(n)
    BY <1>8 DEF Dumping
  <2>2. PICK D \in Nat : D = Len(dumped)
    BY <1>1
  <2>3. PICK Q \in Nat : Q = Len(queue) /\ Q > 0
    BY <1>1
  <2>4. /\ n < D /\ n + k <= sent /\ k <= Q /\ sent <= D /\ sent \in Nat
        /\ \A i \in 1..k : queue[i] = dumped[n + i]
        /\ \/ n + k = sent /\ k = Q
           \/ n + k = D
           \/ k < Q /\ queue[k + 1] \notin Answer
    <3>1. sent <= D /\ sent \in Nat
      BY <1>1, <2>2
    <3>2. QED
      BY <2>1, <2>2, <2>3, <3>1 DEF Ahead
  <2>5. CASE k = 0
    <3>1. m \notin Answer
      BY <1>2, <2>3, <2>4, <2>5
    <3>2. QED
      BY <1>6, <3>1
  <2>6. CASE k > 0
    <3>1. 1 \in 1..k /\ n + 1 \in 1..D /\ n \in 0..(D - 1)
      BY <2>4, <2>6
    <3>2. m = dumped[n + 1]
      BY <1>2, <2>4, <3>1
    <3>3. CASE n + 1 = D
      <4>1. m = "DONE" /\ \A i \in 1..n : dumped[i] \in Bss
        <5>1. dumped # <<>> /\ D - 1 = n
          BY <1>1, <2>2, <3>1, <3>3
        <5>2. QED
          BY <2>2, <3>2, <3>3, <5>1 DEF ShownInv, IsAnswer
      <4>2. pc' = "exit" /\ shown' = shown
        BY <1>3, <1>5, <4>1
      <4>3. shown = Complete(dumped, Needs)
        <5>1. ~ Keeps(dumped[n + 1], Needs)
          BY <1>5, <3>2, <4>1 DEF Keeps
        <5>2. Kept(dumped, Needs)[n + 1] = Kept(dumped, Needs)[n]
          BY <1>1, <2>2, <3>1, <5>1, KeptValues
        <5>3. QED
          BY <2>1, <2>2, <3>3, <5>2, CompleteIsKept DEF PrintedUpto
      <4>4. \A i \in 1..Len(dumped) : dumped[i] \in Bss => Spared(dumped[i])
        <5>1. \A i \in 1..D : i \in 1..n \/ i = n + 1
          BY <3>3
        <5>2. QED
          BY <1>5, <2>1, <2>2, <3>2, <4>1, <5>1 DEF PrintedUpto
      <4>5. ResultsShown'
        BY <1>1, <4>2, <4>3, <4>4 DEF ResultsShown, Needs, Spared, Shows, Excuses
      <4>6. QED
        BY <1>5, <4>2, <4>5 DEF ShownInv
    <3>4. CASE n + 1 < D
      <4>1. m \in Bss
        <5>1. dumped # <<>> /\ n + 1 \in 1..(D - 1)
          BY <1>1, <2>2, <3>1, <3>4
        <5>2. QED
          BY <2>2, <3>2, <5>1 DEF ShownInv, IsAnswer
      <4>2. CASE h.faults
        <5>1. pc' = "exit" /\ outcome' # "ok"
          BY <1>3, <1>5, <4>1, <4>2
        <5>2. QED
          BY <1>5, <5>1 DEF ShownInv, ResultsShown
      <4>3. CASE ~ h.faults
        <5>1. pc' = "dump" /\ shown' = shown \o h.prints /\ outcome' = "none"
          BY <1>1, <1>4, <4>1, <4>3
        <5>2. PICK l \in Nat : l = k - 1
          BY <2>6
        <5>3. /\ Len(queue') = Q - 1
              /\ \A i \in 1..(Q - 1) : queue'[i] = queue[i + 1]
          BY <1>1, <2>3
        <5>4. \A i \in 1..l : queue'[i] = dumped[n + 1 + i]
          <6> SUFFICES ASSUME NEW i \in 1..l PROVE queue'[i] = dumped[n + 1 + i]
            OBVIOUS
          <6>1. i + 1 \in 1..k /\ n + (i + 1) = n + 1 + i /\ i \in 1..(Q - 1)
            BY <2>4, <5>2
          <6>2. queue[i + 1] = dumped[n + (i + 1)]
            BY <2>4, <6>1
          <6>3. QED
            BY <5>3, <6>1, <6>2
        <5>5. \/ n + 1 + l = sent /\ l = Q - 1
              \/ n + 1 + l = D
              \/ l < Q - 1 /\ queue'[l + 1] \notin Answer
          BY <2>4, <2>6, <5>2, <5>3
        <5>6. Ahead(n + 1, l)'
          BY <1>1, <2>2, <2>3, <2>4, <3>4, <5>2, <5>3, <5>4, <5>5 DEF Ahead
        <5>7. PrintedUpto(n + 1)'
          <6>1. Spared(m) /\ h.prints = IF Keeps(m, Needs) THEN <<m>> ELSE <<>>
            BY <1>2, <4>1, <4>3, HandlerCorrect
          <6>2. shown \o <<m>> = Append(shown, m) /\ shown \o <<>> = shown
            BY <1>1, <4>1
          <6>3. shown' = IF Keeps(m, Needs) THEN Append(shown, m) ELSE shown
            BY <5>1, <6>1, <6>2
          <6>4. shown' = Kept(dumped, Needs)[n + 1]
            BY <1>1, <2>1, <2>2, <3>1, <3>2, <6>3, KeptValues DEF PrintedUpto
          <6>5. \A i \in 1..(n + 1) : i \in 1..n \/ i = n + 1
            OBVIOUS
          <6>6. \A i \in 1..(n + 1) : dumped[i] \in Bss => Spared(dumped[i])
            BY <2>1, <3>2, <6>1, <6>5 DEF PrintedUpto
          <6>7. QED
            BY <1>1, <6>4, <6>6 DEF PrintedUpto, Needs, Spared, Shows, Excuses
        <5>8. n + 1 \in Nat /\ Dumping'
          BY <5>6, <5>7 DEF Dumping
        <5>9. QED
          BY <1>5, <5>1, <5>8 DEF ShownInv, ResultsShown
      <4>4. QED
        BY <4>2, <4>3
    <3>5. QED
      BY <3>1, <3>3, <3>4
  <2>7. QED
    BY <2>5, <2>6
<1>9. QED
  BY <1>1, <1>7, <1>8 DEF ShownInv

LEMMA ShownStep ==
  ASSUME TypeOK, ShownInv, [Next]_vars
  PROVE  ShownInv'
<1>1. CASE OtherScan \/ ScanEnds
  BY <1>1, ShownKernel
<1>2. CASE TriggerScanMain
  <2>1. CASE Dump(callback_of_get_scan_result(Head(queue)))
    BY <1>2, <2>1, ShownDump DEF TriggerScanMain
  <2>2. QED
    BY <1>2, <2>1, ShownJoin, ShownRequest, ShownWait, ShownNotSent, ShownGetScan, ShownPiece
       DEF TriggerScanMain
<1>3. CASE ScanMain
  <2>1. CASE Dump(callback_dump(Head(queue)))
    BY <1>3, <2>1, ShownDump DEF ScanMain
  <2>2. QED
    BY <1>3, <2>1, ShownJoin, ShownRequest, ShownWait, ShownNotSent, ShownGetScan, ShownPiece
       DEF ScanMain, do_scan_trigger
<1>4. CASE UNCHANGED vars
  <2>1. UNCHANGED <<pc, program, shown, outcome, queue, dumped, sent>>
    BY <1>4 DEF vars, kernelVars, histVars
  <2>2. Dumping => Dumping'
    BY <2>1 DEF Dumping, Ahead, PrintedUpto, Needs, Shows, Excuses, Spared
  <2>3. ResultsShown' /\ IsAnswer'
    BY <2>1 DEF ShownInv, ResultsShown, IsAnswer, Shows, Excuses
  <2>4. QED
    BY <2>1, <2>2, <2>3 DEF ShownInv
<1>5. QED
  BY <1>1, <1>2, <1>3, <1>4 DEF Next, Step

\* A dump that ends well has printed, once and in order, every result that has
\* what a line shows, and has met none that lacks an attribute it reads untested,
\* for results of any number with any parts, in whatever pieces the kernel sends
\* them and whatever events are queued before, among and behind them.
THEOREM DumpShowsAll == Spec => []ResultsShown
<1>1. Init => ShownInv
  BY DEF Init, ShownInv, IsAnswer, ResultsShown, NoAnswer
<1>2. ShownInv => ResultsShown
  BY DEF ShownInv
<1>3. QED
  BY <1>1, <1>2, ShownStep, TypeCorrect, PTL DEF Spec
=============================================================================
