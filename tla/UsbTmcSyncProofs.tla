--------------------------- MODULE UsbTmcSyncProofs ---------------------------
(***************************************************************************)
(* TMC_Task stays in step with the packets of the OUT endpoint: the proof  *)
(* of SyncInv, and of HeaderSync from it.                                  *)
(***************************************************************************)
EXTENDS UsbTmcSync, UsbTmcProofs

USE DEF abortVars, handleVars, statusVars, messageVars, internalVars, callVars,
        localVars, busVars, eventVars, deliveryVars, hostVars, ctlVars,
        transferVars, hostFrame, InsideTransfer

(* What USB_USBTask does to the abort flags: a flag is raised only for a   *)
(* request on the control endpoint, which is answered, and a clear is      *)
(* refused only while a split request is in progress.                      *)
LEMMA RequestEffect ==
  ASSUME TypeOK, FlagRequest \/ NoRequest \/ ReadStatusByteNow
  PROVE  /\ Revoked' => Revoked
         /\ Aborting => Aborting'
         /\ Aborting' => Aborting \/ Revoked
         /\ RequestInProgress' # "none" => RequestInProgress # "none" \/ Revoked
         /\ Revoked /\ ~Revoked' => Aborting' \/ RequestInProgress # "none"
         /\ RequestInProgress = "none" /\ RequestInProgress' # "none" => Aborting'
<1> USE DEF TypeOK, FlagTypes, HostTypes, Revoked, Aborting, Initiates, Replied
<1>1. CASE InitiateAbortBulkOut
  BY <1>1 DEF InitiateAbortBulkOut, AcceptAbort
<1>2. CASE InitiateAbortBulkIn
  BY <1>2 DEF InitiateAbortBulkIn, AcceptAbort
<1>3. CASE InitiateClear
  BY <1>3 DEF InitiateClear
<1>4. CASE CheckAbortBulkOutStatus
  BY <1>4 DEF CheckAbortBulkOutStatus, CheckStatus
<1>5. CASE CheckAbortBulkInStatus
  BY <1>5 DEF CheckAbortBulkInStatus, CheckStatus
<1>6. CASE CheckClearStatus
  BY <1>6 DEF CheckClearStatus, CheckStatus
<1>7. CASE IndicatorPulse
  BY <1>7 DEF IndicatorPulse
<1>8. CASE AskTask
  BY <1>8 DEF AskTask, RenControl, RenRequests, LocalLockout, GoToLocal
<1>9. CASE DeferReadStatusByte
  BY <1>9 DEF DeferReadStatusByte
<1>10. CASE NoRequest
  BY <1>10 DEF NoRequest
<1>11. CASE ReadStatusByteNow
  BY <1>11 DEF ReadStatusByteNow, handle_control_Req_ReadStatusByte
<1> QED
  BY <1>1, <1>2, <1>3, <1>4, <1>5, <1>6, <1>7, <1>8, <1>9, <1>10, <1>11
  DEF FlagRequest

(* Only USB_USBTask, a host and the end of TMC_Task change what SplitInv   *)
(* is about; no other step begins a transfer with an empty endpoint.       *)
LEMMA SplitStep == ASSUME IInv, SplitInv, [Next]_vars PROVE SplitInv'
<1> USE DEF IInv, Structure, SplitInv
<1> DEFINE Task0 == TaskLabels \ {"in_reply"}
           Kept  == /\ UNCHANGED <<RequestInProgress, hleft>>
                    /\ hin' => hin
                    /\ hmore' => hin \/ hmore
                    /\ Revoked' <=> Revoked
           Idle  == /\ UNCHANGED <<abortVars, s_remaining_bytes_receive>>
                    /\ UNCHANGED TMC_InLastMessageComplete
                    /\ outq = <<>> => outq' = <<>>
                    /\ Site \in Task0 /\ outq = <<>> /\ s_remaining_bytes_receive = 0
                         => Site' \in Task0
<1>1. Kept => HostQuiet' BY DEF HostQuiet
<1>2. Idle => Flushed' BY DEF Flushed, Aborting
<1>3. CASE UsbTask \/ Waiting
  <2>1. /\ FlagRequest \/ NoRequest \/ ReadStatusByteNow
        /\ UNCHANGED <<hleft, hin, hmore, outq, s_remaining_bytes_receive>>
        /\ UNCHANGED TMC_InLastMessageComplete
    BY <1>3 DEF UsbTask, Waiting, PollTimeout, PollTimeoutReadStatusByte
  <2>2. /\ Revoked' => Revoked
        /\ Aborting => Aborting'
        /\ RequestInProgress' # "none" => RequestInProgress # "none" \/ Revoked
        /\ RequestInProgress = "none" /\ RequestInProgress' # "none" => Aborting'
    BY <2>1, RequestEffect
  <2>3. Site \in Task0 => Site' \in Task0
    BY <1>3 DEF UsbTask, Waiting, PollTimeout, PollTimeoutReadStatusByte, TimedOut,
       KeepsWaiting, Return, Site, TaskLabels, CallOK
  <2>4. HostQuiet' BY <2>1, <2>2 DEF HostQuiet
  <2>5. Flushed' BY <2>1, <2>2, <2>3 DEF Flushed
  <2> QED BY <2>4, <2>5
<1> USE DEF Site, TaskLabels, Revoked
<1>4. CASE ServiceRequest \/ SelectiveDeviceClear \/ SendLocalLockout
  <2>1. Kept /\ Idle
    BY <1>4 DEF ServiceRequest, SelectiveDeviceClear, SendLocalLockout, Goto
  <2> QED BY <1>1, <1>2, <2>1
<1>5. CASE GotoLocalAndRen \/ NoHeader \/ NotifyStatusByte
  <2>1. Kept /\ Idle
    BY <1>5 DEF GotoLocalAndRen, NoHeader, NotifyStatusByte, Goto
  <2> QED BY <1>1, <1>2, <2>1
<1>6. CASE DeviceOut \/ DeviceIn \/ Trigger \/ UnknownMessage
  <2>1. outq # <<>> /\ Kept /\ UNCHANGED abortVars
    BY <1>6 DEF DeviceOut, DeviceIn, Trigger, UnknownMessage, Header
  <2>2. Flushed' BY <2>1 DEF Flushed, Aborting
  <2> QED BY <1>1, <2>1, <2>2
<1>7. CASE ReceiveMore
  <2>1. pc = "more" /\ Kept /\ UNCHANGED abortVars BY <1>7 DEF ReceiveMore
  <2>2. s_remaining_bytes_receive > 0 BY <2>1 DEF RemainingOK
  <2>3. Flushed' BY <2>1, <2>2 DEF Flushed, Aborting
  <2> QED BY <1>1, <2>1, <2>3
<1>8. CASE PsmTop \/ PsmLoop \/ PsmWrite \/ PsmUntalk \/ PsmEnd \/ GnmLoop \/ GnmEnd
  <2>1. Kept /\ Idle
    BY <1>8 DEF PsmTop, PsmLoop, PsmWrite, PsmUntalk, PsmEnd, GnmLoop, GnmEnd, Goto,
       Call
  <2> QED BY <1>1, <1>2, <2>1
<1>9. CASE PsmAnswerTop \/ PsmAnswerLoop \/ PsmAnswerEnd
  <2>1. Kept /\ Idle
    BY <1>9 DEF PsmAnswerTop, PsmAnswerLoop, PsmAnswerEnd, PsmAnswerStatus, Goto,
       Call, handle_control_Req_ReadStatusByte, Initiates
  <2> QED BY <1>1, <1>2, <2>1
<1>10. CASE PsmReturn
  <2>1. pc = "psm_ret" /\ Kept /\ UNCHANGED abortVars BY <1>10 DEF PsmReturn
  <2>2. Flushed' BY <2>1 DEF Flushed, Aborting
  <2> QED BY <1>1, <2>1, <2>2
<1>11. CASE ReplyIn
  <2>1. pc = "in_reply" /\ Kept /\ UNCHANGED abortVars BY <1>11 DEF ReplyIn
  <2>2. Flushed' BY <2>1 DEF Flushed, Aborting
  <2> QED BY <1>1, <2>1, <2>2
<1>12. CASE FinishTask
  <2>1. Kept /\ pc' = "usb" BY <1>12 DEF FinishTask, Goto
  <2>2. CASE Aborting
    <3>1. /\ outq' = <<>> /\ s_remaining_bytes_receive' = 0
          /\ TMC_InLastMessageComplete'
      BY <1>12, <2>2 DEF FinishTask, FlushOutBanks, TMC_resetstates
    <3> QED BY <1>1, <2>1, <3>1 DEF Flushed
  <2>3. CASE ~Aborting
    <3>1. Idle
      BY <1>12, <2>1, <2>3 DEF FinishTask, Aborting, TypeOK, FlagTypes
    <3> QED BY <1>1, <1>2, <2>1, <3>1
  <2> QED BY <2>2, <2>3
<1>13. CASE Handshakes
  <2>1. Site \notin Task0
    BY <1>13 DEF Handshakes, CommandAccepted, DataAccepted, DataRead, CallOK
  <2>2. UNCHANGED <<abortVars, messageVars, hostVars, outq, ctl>>
    BY <1>13 DEF Handshakes, CommandAccepted, DataAccepted, DataRead
  <2>3. Kept /\ Idle BY <2>1, <2>2
  <2> QED BY <1>1, <1>2, <2>3
<1>14. CASE HostSend
  <2>1. RequestInProgress' = "none" /\ ~Revoked'
    BY <1>14 DEF HostSend, MayStartMessage
  <2> QED BY <2>1 DEF HostQuiet, Flushed
<1>15. CASE HostContinue
  <2>1. hleft > 0 /\ UNCHANGED <<RequestInProgress, ctl>> BY <1>15 DEF HostContinue
  <2>2. RequestInProgress' = "none" /\ ~Revoked' BY <2>1 DEF HostQuiet
  <2> QED BY <2>2 DEF HostQuiet, Flushed
<1>16. CASE HostRequest
  <2>1. Idle BY <1>16 DEF HostRequest
  <2>2. HostQuiet' BY <1>16 DEF HostRequest, HostQuiet
  <2> QED BY <1>2, <2>1, <2>2
<1>17. CASE HostCheck
  <2>1. ctl = "none" /\ ctl' \in Checks
    BY <1>17 DEF HostCheck, CheckFor, Checks, TypeOK, FlagTypes, Initiates
  <2>2. ~Revoked /\ ~Revoked' BY <2>1 DEF Initiates, Checks
  <2>3. Kept /\ Idle BY <1>17, <2>2 DEF HostCheck
  <2> QED BY <1>1, <1>2, <2>3
<1>18. CASE HostCancel \/ Instrument \/ UNCHANGED vars
  <2>1. Kept /\ Idle
    BY <1>18 DEF HostCancel, Instrument, InstrumentRaises, InstrumentAnswers, vars,
       Initiates
  <2> QED BY <1>1, <1>2, <2>1
<1> QED
  BY <1>3, <1>4, <1>5, <1>6, <1>7, <1>8, <1>9, <1>10, <1>11, <1>12, <1>13, <1>14,
     <1>15, <1>16, <1>17, <1>18, Zenon
  DEF Next, Firmware, Transfer, Task, Host

(* Whatever the host does: while it asks for an abort, or waits for the    *)
(* end of one, it owes and expects nothing; and once the abort flags have  *)
(* fallen the adapter is between two messages with empty banks until the   *)
(* host has learned that the abort is complete.                            *)
THEOREM SplitQuiet == Spec => []SplitInv
<1>1. Init => SplitInv
  BY DEF Init, SplitInv, HostQuiet, Flushed, Revoked, Initiates
<1>2. IInv /\ SplitInv /\ [Next]_vars => SplitInv' BY SplitStep
<1>3. Spec => []IInv BY Inductive
<1> QED BY <1>1, <1>2, <1>3, PTL DEF Spec

-----------------------------------------------------------------------------
(* What is left of a message is a number of bytes, whatever packet is      *)
(* taken or sent.                                                          *)
LEMMA LeftFacts ==
  ASSUME NEW left \in Nat, NEW p \in Packets
  PROVE  LeftBy(left, p) \in Nat
<1>1. p.size \in Nat /\ p.kind \in MessageKinds \cup {"DATA"} BY DEF Packets
<1> QED BY <1>1, ChunkAssumption DEF LeftBy, LesserOf, MessageKinds

(* The endpoint has two banks.                                             *)
LEMMA OneOrTwo  == ASSUME NEW n \in Nat, n # 0, n <= 2 PROVE n = 1 \/ n = 2
  OBVIOUS
LEMMA NoneOrOne == ASSUME NEW n \in Nat, n < 2 PROVE n = 0 \/ n = 1
  OBVIOUS

(* The order of the banks, whatever the sequence t behind the first packet *)
(* of q is called.                                                         *)
LEMMA Shifted ==
  ASSUME NEW left, NEW q, NEW t, InOrder(left, q), Len(q) = 1 \/ Len(q) = 2,
         Len(t) = Len(q) - 1, Len(q) = 2 => t[1] = q[2]
  PROVE  /\ Fits(left, q[1])
         /\ InOrder(LeftBy(left, q[1]), t)
         /\ LeftAfter(LeftBy(left, q[1]), t) = LeftAfter(left, q)
<1>1. CASE Len(q) = 1
  <2>1. Len(t) = 0 BY <1>1
  <2> QED BY <1>1, <2>1 DEF InOrder, LeftAfter
<1>2. CASE Len(q) = 2
  <2>1. Len(t) = 1 BY <1>2
  <2> QED BY <1>2, <2>1 DEF InOrder, LeftAfter
<1> QED BY <1>1, <1>2

(* TMC_Task takes the packet at the head: the rest of the endpoint is in   *)
(* order behind it.                                                        *)
LEMMA Dequeued ==
  ASSUME NEW left \in Nat, NEW q \in Seq(Packets), q # <<>>, Len(q) <= 2,
         InOrder(left, q)
  PROVE  /\ Fits(left, Head(q))
         /\ InOrder(LeftBy(left, Head(q)), Tail(q))
         /\ LeftAfter(LeftBy(left, Head(q)), Tail(q)) = LeftAfter(left, q)
<1>1. Head(q) = q[1]
  OBVIOUS
<1>2. Len(q) \in Nat /\ Len(q) # 0
  OBVIOUS
<1>3. Len(Tail(q)) = Len(q) - 1
  OBVIOUS
<1>4. Len(q) = 2 => Tail(q)[1] = q[2]
  OBVIOUS
<1>5. Len(q) = 1 \/ Len(q) = 2
  BY <1>2, OneOrTwo, Zenon
<1>6. /\ Fits(left, q[1])
      /\ InOrder(LeftBy(left, q[1]), Tail(q))
      /\ LeftAfter(LeftBy(left, q[1]), Tail(q)) = LeftAfter(left, q)
  BY <1>3, <1>4, <1>5, Shifted, Zenon
<1> QED BY <1>1, <1>6, Zenon

(* LeftAfter and InOrder, bank by bank.                                    *)
LEMMA NoBank == ASSUME NEW left, NEW q, Len(q) = 0 PROVE LeftAfter(left, q) = left
  BY DEF LeftAfter
LEMMA OneBank ==
  ASSUME NEW left, NEW q, NEW p, Len(q) = 1, q[1] = p
  PROVE  LeftAfter(left, q) = LeftBy(left, p) /\ (InOrder(left, q) <=> Fits(left, p))
  BY DEF LeftAfter, InOrder
LEMMA BothBanks ==
  ASSUME NEW left, NEW q, NEW p, NEW r, Len(q) = 2, q[1] = p, q[2] = r
  PROVE  /\ LeftAfter(left, q) = LeftBy(LeftBy(left, p), r)
         /\ InOrder(left, q) <=> Fits(left, p) /\ Fits(LeftBy(left, p), r)
  BY DEF LeftAfter, InOrder

(* The host appends the packet that follows.                               *)
LEMMA Enqueued ==
  ASSUME NEW left \in Nat, NEW q \in Seq(Packets), NEW p \in Packets, Len(q) < 2,
         InOrder(left, q), Fits(LeftAfter(left, q), p)
  PROVE  /\ InOrder(left, Append(q, p))
         /\ LeftAfter(left, Append(q, p)) = LeftBy(LeftAfter(left, q), p)
<1>1. Len(q) \in Nat
  OBVIOUS
<1>2. Len(Append(q, p)) = Len(q) + 1
  OBVIOUS
<1>3. Append(q, p)[Len(Append(q, p))] = p
  OBVIOUS
<1>4. Len(q) = 1 => Append(q, p)[1] = q[1]
  <2>1. 1 \in 1..Len(q) => Append(q, p)[1] = q[1] OBVIOUS
  <2>2. Len(q) = 1 => 1 \in 1..Len(q) BY <1>1
  <2> QED BY <2>1, <2>2, Zenon
<1>5. Len(q) = 0 \/ Len(q) = 1
  BY <1>1, NoneOrOne, Zenon
<1>6. CASE Len(q) = 0
  <2>1. LeftAfter(left, q) = left BY <1>6, NoBank, Zenon
  <2>2. Len(Append(q, p)) = 1 BY <1>2, <1>6
  <2>3. Append(q, p)[1] = p BY <1>3, <2>2, Zenon
  <2>4. /\ LeftAfter(left, Append(q, p)) = LeftBy(left, p)
        /\ InOrder(left, Append(q, p)) <=> Fits(left, p)
    BY <2>2, <2>3, OneBank, Zenon
  <2> QED BY <2>1, <2>4
<1>7. CASE Len(q) = 1
  <2>1. /\ LeftAfter(left, q) = LeftBy(left, q[1])
        /\ InOrder(left, q) <=> Fits(left, q[1])
    BY <1>7, OneBank, Zenon
  <2>2. Len(Append(q, p)) = 2 BY <1>2, <1>7
  <2>3. Append(q, p)[2] = p BY <1>3, <2>2, Zenon
  <2>4. Append(q, p)[1] = q[1] BY <1>4, <1>7, Zenon
  <2>5. /\ LeftAfter(left, Append(q, p)) = LeftBy(LeftBy(left, q[1]), p)
        /\ InOrder(left, Append(q, p)) <=>
             Fits(left, q[1]) /\ Fits(LeftBy(left, q[1]), p)
    BY <2>2, <2>3, <2>4, BothBanks, Zenon
  <2> QED BY <2>1, <2>5
<1> QED BY <1>5, <1>6, <1>7, Zenon

(* The packets not begun are a sequence, and the host appends to them.     *)
LEMMA PendingFacts ==
  ASSUME TypeOK, CallOK
  PROVE  /\ Pending \in Seq(Packets)
         /\ Len(Pending) <= Len(outq)
         /\ \A p \in Packets : outq' = Append(outq, p) /\ UNCHANGED <<pc, ret>>
              => Pending' = Append(Pending, p)
<1>1. outq \in Seq(Packets) BY DEF TypeOK, HostTypes
<1>2. CASE Site \in PsmLabels
  <2>1. outq # <<>> BY <1>2 DEF CallOK
  <2>2. Tail(outq) \in Seq(Packets) /\ Len(Tail(outq)) <= Len(outq)
    BY <1>1, <2>1
  <2>3. \A p \in Packets : Tail(Append(outq, p)) = Append(Tail(outq), p)
    BY <1>1, <2>1
  <2> QED BY <1>2, <2>2, <2>3 DEF Pending, Site
<1>3. CASE Site \notin PsmLabels
  BY <1>1, <1>3 DEF Pending, Site
<1> QED BY <1>2, <1>3

-----------------------------------------------------------------------------
(* THE STEPS                                                               *)

(* A step that changes nothing SyncInv speaks of.                          *)
LEMMA Bystander ==
  ASSUME SyncInv, UNCHANGED <<abortVars, hleft, outq, s_remaining_bytes_receive>>,
         Revoked' <=> Revoked, Site' \in PsmLabels <=> Site \in PsmLabels
  PROVE  SyncInv'
<1> USE DEF SyncInv
<1>1. AbortQuiet' /\ TwoBanks'
  BY DEF AbortQuiet, TwoBanks, Aborting
<1>2. Pending' = Pending BY DEF Pending
<1>3. StreamOK' BY <1>2 DEF StreamOK, Aborting
<1> QED BY <1>1, <1>3

(* USB_USBTask handles a request, and nothing else changes.                *)
LEMMA RequestStep ==
  ASSUME TypeOK, SplitInv, SyncInv, FlagRequest \/ NoRequest \/ ReadStatusByteNow,
         UNCHANGED <<hleft, outq, s_remaining_bytes_receive>>,
         Site' \in PsmLabels <=> Site \in PsmLabels
  PROVE  SyncInv'
<1> USE DEF SplitInv, SyncInv
<1>1. /\ Revoked' => Revoked
      /\ Aborting => Aborting'
      /\ Aborting' => Aborting \/ Revoked
      /\ RequestInProgress' # "none" => RequestInProgress # "none" \/ Revoked
      /\ Revoked /\ ~Revoked' => Aborting' \/ RequestInProgress # "none"
      /\ RequestInProgress = "none" /\ RequestInProgress' # "none" => Aborting'
  BY RequestEffect
<1>2. AbortQuiet' BY <1>1 DEF AbortQuiet, HostQuiet
<1>3. TwoBanks' BY DEF TwoBanks
<1>4. Pending' = Pending BY DEF Pending
<1>5. ASSUME ~Aborting', ~Revoked'
      PROVE  LeftAfter(s_remaining_bytes_receive, Pending) = hleft
  <2>1. CASE ~Revoked BY <1>1, <1>5, <2>1 DEF StreamOK
  <2>2. CASE Revoked
    <3>1. RequestInProgress # "none" /\ ~Aborting BY <1>1, <1>5, <2>2
    <3>2. /\ outq = <<>> /\ s_remaining_bytes_receive = 0
          /\ Site \in BetweenSites
      BY <3>1 DEF Flushed, BetweenSites
    <3>3. hleft = 0 BY <2>2 DEF HostQuiet
    <3>4. Pending = outq BY <3>2 DEF Pending, BetweenSites, TaskLabels, PsmLabels
    <3>5. Len(Pending) = 0 BY <3>2, <3>4
    <3> QED BY <3>2, <3>3, <3>5, NoBank, Zenon
  <2> QED BY <2>1, <2>2
<1>6. StreamOK' BY <1>1, <1>4, <1>5 DEF StreamOK
<1> QED BY <1>2, <1>3, <1>6

(* The steps that change what TMC_Task expects: the endpoint has two banks *)
(* and the packet at the head is taken or begun.                           *)
LEMMA HeadFacts ==
  ASSUME TypeOK, SyncInv, Site \notin PsmLabels, outq # <<>>, ~Aborting
  PROVE  LET left == s_remaining_bytes_receive
         IN /\ Fits(left, Head(outq))
            /\ InOrder(LeftBy(left, Head(outq)), Tail(outq))
            /\ Revoked \/ LeftAfter(LeftBy(left, Head(outq)), Tail(outq)) = hleft
<1>1. outq \in Seq(Packets) /\ s_remaining_bytes_receive \in Nat
  BY DEF TypeOK, HostTypes, MessageTypes
<1>2. Pending = outq BY DEF Pending
<1>3. Len(outq) <= 2 BY DEF SyncInv, TwoBanks
<1>4. InOrder(s_remaining_bytes_receive, outq)
  BY <1>2 DEF SyncInv, StreamOK
<1>5. Revoked \/ LeftAfter(s_remaining_bytes_receive, outq) = hleft
  BY <1>2 DEF SyncInv, StreamOK
<1> QED BY <1>1, <1>3, <1>4, <1>5, Dequeued, Zenon

(* The first packet of a message is begun: header and payload.             *)
LEMMA DeviceOutSync == ASSUME IInv, SyncInv, DeviceOut PROVE SyncInv'
<1> USE DEF IInv, Structure, SyncInv
<1>1. /\ pc = "hdr" /\ outq # <<>> /\ Head(outq).kind = "OUT"
      /\ UNCHANGED <<ctlVars, hostVars, outq, TMC_InLastMessageComplete>>
      /\ s_remaining_bytes_receive'
           = Head(outq).size - LesserOf(FirstChunk, Head(outq).size)
  BY DEF DeviceOut, Header
<1>2. Site' \in PsmLabels
  BY DEF DeviceOut, ProcessSentMessage, Call, Goto, Site, PsmLabels
<1>3. Site \notin PsmLabels /\ s_remaining_bytes_receive = 0
  BY <1>1 DEF Site, PsmLabels, RemainingOK
<1>4. s_remaining_bytes_receive' = LeftBy(0, Head(outq))
  BY <1>1 DEF LeftBy
<1>5. Pending' = Tail(outq) BY <1>1, <1>2 DEF Pending
<1>6. AbortQuiet' /\ TwoBanks'
  BY <1>1 DEF AbortQuiet, TwoBanks, Aborting, ctlVars
<1>7. ASSUME ~Aborting
      PROVE  /\ InOrder(LeftBy(0, Head(outq)), Tail(outq))
             /\ Revoked \/ LeftAfter(LeftBy(0, Head(outq)), Tail(outq)) = hleft
  BY <1>1, <1>3, <1>7, HeadFacts
<1>8. StreamOK'
  BY <1>1, <1>4, <1>5, <1>7 DEF StreamOK, Revoked, Aborting, ctlVars
<1> QED BY <1>6, <1>8

(* A further packet is begun, or none has arrived yet.                     *)
LEMMA ReceiveMoreSync == ASSUME IInv, SyncInv, ReceiveMore PROVE SyncInv'
<1> USE DEF IInv, Structure, SyncInv
<1>1. /\ pc = "more" /\ UNCHANGED <<ctlVars, hostVars, outq>>
      /\ UNCHANGED TMC_InLastMessageComplete
  BY DEF ReceiveMore
<1>2. Site \notin PsmLabels /\ s_remaining_bytes_receive > 0
  BY <1>1 DEF Site, PsmLabels, RemainingOK
<1>3. UNCHANGED <<abortVars, ctl, hleft, hin, hmore, outq>>
  BY <1>1 DEF ctlVars
<1>4. CASE outq = <<>>
  <2>1. UNCHANGED s_remaining_bytes_receive /\ Site' = "rstb"
    BY <1>4 DEF ReceiveMore, Goto, Site
  <2>2. Site' \notin PsmLabels BY <2>1 DEF PsmLabels
  <2> QED BY <1>1, <1>2, <1>3, <2>1, <2>2, Bystander DEF Revoked
<1>5. CASE outq # <<>>
  <2>1. s_remaining_bytes_receive' = s_remaining_bytes_receive
                                     - LesserOf(Chunk, s_remaining_bytes_receive)
    BY <1>5 DEF ReceiveMore
  <2>2. Site' \in PsmLabels
    BY <1>5 DEF ReceiveMore, ProcessSentMessage, InternalCommand, Call, Goto, Site,
       PsmLabels
  <2>3. Pending' = Tail(outq) BY <1>1, <2>2 DEF Pending
  <2>4. AbortQuiet' /\ TwoBanks'
    BY <1>3 DEF AbortQuiet, TwoBanks, Aborting
  <2>5. ASSUME ~Aborting
        PROVE  /\ Fits(s_remaining_bytes_receive, Head(outq))
               /\ InOrder(LeftBy(s_remaining_bytes_receive, Head(outq)), Tail(outq))
               /\ Revoked \/ LeftAfter(LeftBy(s_remaining_bytes_receive, Head(outq)),
                                       Tail(outq)) = hleft
    BY <1>2, <1>5, <2>5, HeadFacts
  <2>6. ASSUME ~Aborting
        PROVE  s_remaining_bytes_receive'
                 = LeftBy(s_remaining_bytes_receive, Head(outq))
    <3>1. Head(outq).kind = "DATA" BY <1>2, <2>5, <2>6 DEF Fits
    <3> QED BY <2>1, <3>1 DEF LeftBy
  <2>7. StreamOK'
    BY <1>3, <2>3, <2>5, <2>6 DEF StreamOK, Revoked, Aborting
  <2> QED BY <2>4, <2>7
<1> QED BY <1>4, <1>5

(* The bank of a packet that was written is released.                      *)
LEMMA PsmReturnSync == ASSUME IInv, SyncInv, PsmReturn PROVE SyncInv'
<1> USE DEF IInv, Structure, SyncInv
<1>1. /\ pc = "psm_ret" /\ pc' = "rstb" /\ outq' = Tail(outq)
      /\ UNCHANGED <<ctlVars, hostVars, s_remaining_bytes_receive>>
      /\ UNCHANGED TMC_InLastMessageComplete
  BY DEF PsmReturn, Goto
<1>2. Site \in PsmLabels /\ Site' \notin PsmLabels BY <1>1 DEF Site, PsmLabels
<1>3. outq \in Seq(Packets) /\ outq # <<>> BY <1>2 DEF CallOK, TypeOK, HostTypes
<1>4. Pending' = Pending BY <1>1, <1>2 DEF Pending
<1>5. TwoBanks'
  <2>1. Len(Tail(outq)) <= Len(outq) /\ Len(outq) \in Nat /\ Len(Tail(outq)) \in Nat
    BY <1>3
  <2> QED BY <1>1, <2>1 DEF TwoBanks
<1>6. AbortQuiet'
  BY <1>1 DEF AbortQuiet, Aborting, ctlVars
<1>7. StreamOK' BY <1>1, <1>4 DEF StreamOK, Revoked, Aborting, ctlVars
<1> QED BY <1>5, <1>6, <1>7

(* A trigger or a read request is one packet: nothing is left of it.       *)
LEMMA SinglePacketSync ==
  ASSUME IInv, SyncInv, pc = "hdr", outq # <<>>,
         Head(outq).kind \in {"TRIGGER", "IN"}, outq' = Tail(outq),
         UNCHANGED <<ctlVars, hleft, hin, hmore>>,
         UNCHANGED <<s_remaining_bytes_receive, TMC_InLastMessageComplete>>,
         Site' \notin PsmLabels
  PROVE  SyncInv'
<1> USE DEF IInv, Structure, SyncInv
<1>1. Site \notin PsmLabels /\ s_remaining_bytes_receive = 0
  BY DEF Site, PsmLabels, RemainingOK
<1>2. outq \in Seq(Packets) BY DEF TypeOK, HostTypes
<1>3. Pending' = Tail(outq) BY DEF Pending
<1>4. TwoBanks'
  <2>1. Len(Tail(outq)) <= Len(outq) /\ Len(outq) \in Nat /\ Len(Tail(outq)) \in Nat
    BY <1>2
  <2> QED BY <2>1 DEF TwoBanks
<1>5. AbortQuiet'
  BY DEF AbortQuiet, Aborting, ctlVars
<1>6. LeftBy(0, Head(outq)) = 0 BY DEF LeftBy
<1>7. ASSUME ~Aborting
      PROVE  /\ InOrder(0, Tail(outq))
             /\ Revoked \/ LeftAfter(0, Tail(outq)) = hleft
  BY <1>1, <1>6, <1>7, HeadFacts
<1>8. StreamOK' BY <1>1, <1>3, <1>7 DEF StreamOK, Revoked, Aborting, ctlVars
<1> QED BY <1>4, <1>5, <1>8

LEMMA TriggerSync == ASSUME IInv, SyncInv, Trigger PROVE SyncInv'
<1>1. /\ pc = "hdr" /\ outq # <<>> /\ Head(outq).kind = "TRIGGER"
      /\ outq' = Tail(outq) /\ UNCHANGED <<ctlVars, hleft, hin, hmore>>
      /\ UNCHANGED <<s_remaining_bytes_receive, TMC_InLastMessageComplete>>
      /\ pc' = "rstb"
  BY DEF Trigger, Header, Goto
<1>2. Site' \notin PsmLabels BY <1>1 DEF Site, PsmLabels
<1> QED BY <1>1, <1>2, SinglePacketSync

LEMMA DeviceInSync == ASSUME IInv, SyncInv, DeviceIn PROVE SyncInv'
<1>1. /\ pc = "hdr" /\ outq # <<>> /\ Head(outq).kind = "IN"
      /\ outq' = Tail(outq) /\ UNCHANGED <<ctlVars, hleft, hin, hmore>>
      /\ UNCHANGED <<s_remaining_bytes_receive, TMC_InLastMessageComplete>>
  BY DEF DeviceIn, Header
<1>2. Site' \notin PsmLabels
  BY DEF DeviceIn, GetNextMessage, Call, Goto, Site, PsmLabels
<1> QED BY <1>1, <1>2, SinglePacketSync

(* Bytes that are no header only arrive while an abort is pending.         *)
LEMMA UnknownMessageSync == ASSUME IInv, SyncInv, UnknownMessage PROVE SyncInv'
<1> USE DEF IInv, Structure, SyncInv
<1>1. /\ pc = "hdr" /\ outq # <<>> /\ Head(outq).kind = "DATA" /\ pc' = "rstb"
      /\ outq' = <<>> /\ UNCHANGED <<ctlVars, hostVars, s_remaining_bytes_receive>>
  BY DEF UnknownMessage, Header, Goto
<1>2. Site \notin PsmLabels /\ s_remaining_bytes_receive = 0
  BY <1>1 DEF Site, PsmLabels, RemainingOK
<1>3. Aborting
  <2>1. SUFFICES ASSUME ~Aborting PROVE FALSE OBVIOUS
  <2>2. Fits(0, Head(outq)) BY <1>1, <1>2, <2>1, HeadFacts
  <2> QED BY <1>1, <2>2 DEF Fits
<1>4. Aborting' BY <1>1, <1>3 DEF Aborting, ctlVars
<1>5. AbortQuiet'
  BY <1>1 DEF AbortQuiet, Aborting, ctlVars
<1>6. TwoBanks'
  <2>1. Len(<<>>) <= 2 OBVIOUS
  <2> QED BY <1>1, <2>1 DEF TwoBanks
<1> QED BY <1>4, <1>5, <1>6 DEF Flushed, StreamOK

(* The response is sent, or an abort resets the states.                    *)
LEMMA ReplyInSync == ASSUME IInv, SyncInv, ReplyIn PROVE SyncInv'
<1> USE DEF IInv, Structure, SyncInv
<1>1. /\ pc = "in_reply" /\ pc' = "rstb"
      /\ UNCHANGED <<abortVars, ctl, hleft, outq>>
  BY DEF ReplyIn, Goto
<1>2. /\ Site = "in_reply" /\ Site' = "rstb"
      /\ Site \notin PsmLabels /\ Site' \notin PsmLabels
  BY <1>1 DEF Site, PsmLabels
<1>3. hin' => hin
  BY DEF ReplyIn
<1>4. hmore' => (hin \/ hmore) BY DEF ReplyIn
<1>5. AbortQuiet' /\ TwoBanks'
  BY <1>1, <1>3, <1>4 DEF AbortQuiet, TwoBanks, Aborting
<1>6. CASE Aborting
  <2>1. Aborting' BY <1>1, <1>6 DEF Aborting
  <2> QED BY <1>5, <2>1 DEF StreamOK
<1>7. CASE ~Aborting
  <2>1. UNCHANGED s_remaining_bytes_receive BY <1>7 DEF ReplyIn, Aborting
  <2>2. Pending' = Pending BY <1>1, <1>2 DEF Pending
  <2>3. StreamOK' BY <1>1, <2>1, <2>2 DEF StreamOK, Revoked, Aborting
  <2> QED BY <1>5, <2>3
<1> QED BY <1>6, <1>7

(* An abort ends with empty banks and a host that owes nothing.            *)
LEMMA FinishSync == ASSUME IInv, SyncInv, FinishTask PROVE SyncInv'
<1> USE DEF IInv, Structure, SyncInv
<1>1. /\ pc = "reset" /\ pc' = "usb" /\ ~Aborting'
      /\ UNCHANGED <<RequestInProgress, ctl, hleft, hin, hmore>>
  BY DEF FinishTask, Goto, Aborting
<1>2. Site \notin PsmLabels /\ Site' \notin PsmLabels /\ Site' \in BetweenSites
  BY <1>1 DEF Site, PsmLabels, BetweenSites, TaskLabels
<1>3. AbortQuiet'
  BY <1>1 DEF AbortQuiet
<1>4. CASE Aborting
  <2>1. /\ outq' = <<>> /\ s_remaining_bytes_receive' = 0
        /\ TMC_InLastMessageComplete'
    BY <1>4 DEF FinishTask, FlushOutBanks, TMC_resetstates
  <2>2. hleft = 0 BY <1>4 DEF AbortQuiet
  <2>3. Pending' = <<>> BY <1>2, <2>1 DEF Pending
  <2>4. Len(<<>>) = 0 OBVIOUS
  <2>5. Len(Pending') = 0 BY <2>3, <2>4
  <2>6. LeftAfter(0, Pending') = 0 BY <2>5, NoBank, Zenon
  <2>7. InOrder(0, Pending') BY <2>5 DEF InOrder
  <2>8. StreamOK' BY <1>1, <2>1, <2>2, <2>6, <2>7 DEF StreamOK
  <2>9. TwoBanks' BY <2>1, <2>4 DEF TwoBanks
  <2> QED BY <1>3, <2>8, <2>9
<1>5. CASE ~Aborting
  <2>1. UNCHANGED <<abortVars, outq, s_remaining_bytes_receive>>
        /\ UNCHANGED TMC_InLastMessageComplete
    BY <1>5 DEF FinishTask, Aborting, TypeOK, FlagTypes
  <2> QED BY <1>1, <1>2, <2>1, Bystander DEF Revoked
<1> QED BY <1>4, <1>5

(* A host that does not rush begins a message: it follows all that is in   *)
(* the endpoint, and what the host still owes is what is to come of it.    *)
LEMMA HostSendSync ==
  ASSUME IInv, SyncInv, HostSend, "rush" \notin Habits PROVE SyncInv'
<1> USE DEF IInv, Structure, SyncInv
<1>1. /\ UNCHANGED <<hostFrame, ctl>>
      /\ hleft = 0 /\ Len(outq) < 2 /\ RequestInProgress = "none"
      /\ ~Revoked /\ ~Aborting
  BY DEF HostSend, MayStartMessage, Revoked
<1>2. PICK p \in Packets :
        /\ outq' = Append(outq, p) /\ p.kind # "DATA"
        /\ hleft' = LeftBy(0, p)
  <2>1. PICK kind \in Kinds, size \in Sizes, eom \in BOOLEAN, bang \in BOOLEAN :
          /\ outq' = Append(outq, Packet(kind, size, eom, bang))
          /\ hleft' = IF kind = "OUT" THEN size - LesserOf(FirstChunk, size) ELSE 0
    BY DEF HostSend
  <2>2. Packet(kind, size, eom, bang) \in Packets
    BY HostAssumption DEF Packet, Packets, TypeOK, HostTypes
  <2>3. kind # "DATA" BY HostAssumption DEF MessageKinds
  <2>4. Packet(kind, size, eom, bang).kind = kind
        /\ Packet(kind, size, eom, bang).size = size
    BY DEF Packet
  <2>5. hleft' = LeftBy(0, Packet(kind, size, eom, bang))
    BY <2>1, <2>3, <2>4 DEF LeftBy
  <2> QED BY <2>1, <2>2, <2>3, <2>4, <2>5
<1>3. Pending' = Append(Pending, p)
  BY <1>1, <1>2, PendingFacts DEF hostFrame
<1>4. Pending \in Seq(Packets) /\ Len(Pending) < 2
  <2>1. Pending \in Seq(Packets) /\ Len(Pending) <= Len(outq) BY PendingFacts
  <2>2. Len(outq) \in Nat BY DEF TypeOK, HostTypes
  <2>3. Len(Pending) \in Nat BY <2>1
  <2> QED BY <1>1, <2>1, <2>2, <2>3
<1>5. /\ InOrder(s_remaining_bytes_receive, Pending)
      /\ LeftAfter(s_remaining_bytes_receive, Pending) = 0
  BY <1>1 DEF StreamOK
<1>6. Fits(0, p) BY <1>2 DEF Fits
<1>7. s_remaining_bytes_receive \in Nat BY DEF TypeOK, MessageTypes
<1>8. /\ InOrder(s_remaining_bytes_receive, Append(Pending, p))
      /\ LeftAfter(s_remaining_bytes_receive, Append(Pending, p)) = LeftBy(0, p)
  BY <1>4, <1>5, <1>6, <1>7, Enqueued
<1>9. StreamOK'
  BY <1>1, <1>2, <1>3, <1>8 DEF StreamOK, hostFrame
<1>10. TwoBanks'
  <2>1. Len(outq) \in Nat /\ Len(Append(outq, p)) = Len(outq) + 1
    BY DEF TypeOK, HostTypes
  <2> QED BY <1>1, <1>2, <2>1 DEF TwoBanks
<1>11. AbortQuiet'
  BY <1>1 DEF AbortQuiet, Aborting, hostFrame
<1> QED BY <1>9, <1>10, <1>11

(* The host sends the next packet of a message it has begun.               *)
LEMMA HostContinueSync == ASSUME IInv, SplitInv, SyncInv, HostContinue PROVE SyncInv'
<1> USE DEF IInv, Structure, SplitInv, SyncInv
<1>1. /\ UNCHANGED <<hostFrame, ctl, hin, hmore>>
      /\ hleft > 0 /\ Len(outq) < 2
  BY DEF HostContinue
<1>2. RequestInProgress = "none" /\ ~Revoked /\ ~Aborting
  BY <1>1 DEF HostQuiet, AbortQuiet
<1>3. PICK p \in Packets :
        /\ outq' = Append(outq, p) /\ p.kind = "DATA"
        /\ hleft' = LeftBy(hleft, p)
  <2> DEFINE size == LesserOf(Chunk, hleft)
             pkt  == [kind |-> "DATA", tag |-> htag, size |-> size,
                      eom |-> FALSE, bang |-> FALSE]
  <2>1. outq' = Append(outq, pkt) /\ hleft' = hleft - size BY DEF HostContinue
  <2>2. size \in Nat
    BY ChunkAssumption DEF LesserOf, TypeOK, HostTypes
  <2>3. pkt \in Packets BY <2>2 DEF Packets, TypeOK, HostTypes
  <2>4. pkt.kind = "DATA" OBVIOUS
  <2>5. LeftBy(hleft, pkt) = hleft - size BY <2>4 DEF LeftBy
  <2> HIDE DEF pkt, size
  <2> QED BY <2>1, <2>3, <2>4, <2>5
<1>4. Pending' = Append(Pending, p)
  BY <1>1, <1>3, PendingFacts DEF hostFrame
<1>5. Pending \in Seq(Packets) /\ Len(Pending) < 2
  <2>1. Pending \in Seq(Packets) /\ Len(Pending) <= Len(outq) BY PendingFacts
  <2>2. Len(outq) \in Nat BY DEF TypeOK, HostTypes
  <2>3. Len(Pending) \in Nat BY <2>1
  <2> QED BY <1>1, <2>1, <2>2, <2>3
<1>6. /\ InOrder(s_remaining_bytes_receive, Pending)
      /\ LeftAfter(s_remaining_bytes_receive, Pending) = hleft
  BY <1>2 DEF StreamOK
<1>7. Fits(hleft, p) BY <1>1, <1>3 DEF Fits
<1>8. s_remaining_bytes_receive \in Nat BY DEF TypeOK, MessageTypes
<1>9. /\ InOrder(s_remaining_bytes_receive, Append(Pending, p))
      /\ LeftAfter(s_remaining_bytes_receive, Append(Pending, p)) = LeftBy(hleft, p)
  BY <1>5, <1>6, <1>7, <1>8, Enqueued
<1>10. StreamOK'
  BY <1>1, <1>3, <1>4, <1>9 DEF StreamOK, hostFrame
<1>11. TwoBanks'
  <2>1. Len(outq) \in Nat /\ Len(Append(outq, p)) = Len(outq) + 1
    BY DEF TypeOK, HostTypes
  <2> QED BY <1>1, <1>3, <2>1 DEF TwoBanks
<1>12. AbortQuiet'
  BY <1>1, <1>2 DEF AbortQuiet, Aborting, hostFrame
<1> QED BY <1>10, <1>11, <1>12

(* A host that asks for an abort gives up its transfers.                   *)
LEMMA HostRequestSync == ASSUME IInv, SyncInv, HostRequest PROVE SyncInv'
<1> USE DEF IInv, Structure, SyncInv
<1>1. /\ UNCHANGED <<hostFrame, outq>> /\ ~Revoked
      /\ \/ Revoked' /\ hleft' = 0 /\ hin' = FALSE /\ hmore' = FALSE
         \/ ~Revoked' /\ UNCHANGED <<hleft, hin, hmore>>
  BY DEF HostRequest, Revoked, Initiates
<1>2. /\ UNCHANGED <<abortVars, s_remaining_bytes_receive>>
      /\ UNCHANGED <<TMC_InLastMessageComplete, pc, ret>>
  BY <1>1 DEF hostFrame
<1>3. Site' = Site /\ Pending' = Pending BY <1>1, <1>2 DEF Site, Pending
<1>4. AbortQuiet' BY <1>1, <1>2 DEF AbortQuiet, Aborting
<1>5. StreamOK' BY <1>1, <1>2, <1>3 DEF StreamOK, Aborting
<1>6. TwoBanks' BY <1>1 DEF TwoBanks
<1> QED BY <1>4, <1>5, <1>6

(* A step of the host, of the instrument or of the thread that only moves  *)
(* on, waits or uses the bus.                                              *)
LEMMA QuietSteps ==
  ASSUME IInv, SyncInv,
         \/ ServiceRequest \/ SelectiveDeviceClear \/ SendLocalLockout
         \/ GotoLocalAndRen \/ NoHeader \/ NotifyStatusByte
         \/ PsmTop \/ PsmLoop \/ PsmWrite \/ PsmUntalk \/ PsmEnd
         \/ PsmAnswerTop \/ PsmAnswerLoop \/ PsmAnswerEnd \/ GnmLoop \/ GnmEnd
         \/ Handshakes \/ HostCheck \/ HostCancel \/ Instrument \/ UNCHANGED vars
  PROVE  SyncInv'
<1> USE DEF IInv, Structure
<1> DEFINE Kept == /\ UNCHANGED <<abortVars, hleft, outq, s_remaining_bytes_receive>>
                   /\ Revoked' <=> Revoked
                   /\ Site' \in PsmLabels <=> Site \in PsmLabels
<1> SUFFICES Kept BY Bystander
<1> USE DEF Revoked, Site, PsmLabels
<1>1. CASE \/ ServiceRequest \/ SelectiveDeviceClear \/ SendLocalLockout
           \/ GotoLocalAndRen \/ NoHeader \/ NotifyStatusByte
  BY <1>1 DEF ServiceRequest, SelectiveDeviceClear, SendLocalLockout, ctlVars,
     GotoLocalAndRen, NoHeader, NotifyStatusByte, Goto
<1>2. CASE PsmTop \/ PsmLoop \/ PsmWrite \/ PsmUntalk \/ PsmEnd
  BY <1>2 DEF PsmTop, PsmLoop, PsmWrite, PsmUntalk, PsmEnd, Goto, Call, ctlVars
<1>3. CASE PsmAnswerTop \/ PsmAnswerLoop \/ PsmAnswerEnd
  BY <1>3 DEF PsmAnswerTop, PsmAnswerLoop, PsmAnswerEnd, PsmAnswerStatus, Initiates,
     handle_control_Req_ReadStatusByte, Goto, Call
<1>4. CASE GnmLoop \/ GnmEnd
  BY <1>4 DEF GnmLoop, GnmEnd, Goto, Call, ctlVars
<1>5. CASE Handshakes
  BY <1>5 DEF Handshakes, CommandAccepted, DataAccepted, DataRead, Return, ctlVars,
     CallOK
<1>6. CASE HostCheck
  <2>1. ctl = "none" /\ ctl' \in Checks
    BY <1>6 DEF HostCheck, CheckFor, Checks, TypeOK, FlagTypes, Initiates
  <2>2. ~Revoked /\ ~Revoked' BY <2>1 DEF Initiates, Checks
  <2> QED BY <1>6, <2>2 DEF HostCheck, hostFrame
<1>7. CASE HostCancel
  BY <1>7 DEF HostCancel, hostFrame, Initiates
<1>8. CASE Instrument
  BY <1>8 DEF Instrument, InstrumentRaises, InstrumentAnswers, hostFrame
<1>9. CASE UNCHANGED vars BY <1>9 DEF vars
<1> QED
  BY <1>1, <1>2, <1>3, <1>4, <1>5, <1>6, <1>7, <1>8, <1>9, Zenon

(* USB_USBTask, from main() or from inside a handshake.                    *)
LEMMA UsbSteps ==
  ASSUME IInv, SplitInv, SyncInv, UsbTask \/ Waiting PROVE SyncInv'
<1> USE DEF IInv, Structure
<1> USE DEF Site, PsmLabels
<1>1. CASE UsbTask
  BY <1>1, RequestStep DEF UsbTask
<1>2. CASE PollTimeout
  BY <1>2, RequestStep DEF PollTimeout, TimedOut, KeepsWaiting, Return, CallOK
<1>3. CASE PollTimeoutReadStatusByte
  BY <1>3, RequestStep
  DEF PollTimeoutReadStatusByte, TimedOut, KeepsWaiting, Return, CallOK
<1> QED BY <1>1, <1>2, <1>3 DEF Waiting

-----------------------------------------------------------------------------
(* THEOREMS                                                                *)

(* Nothing is in the endpoint when the adapter is attached.                *)
LEMMA InitSync == Init => SyncInv
<1> SUFFICES ASSUME Init PROVE SyncInv OBVIOUS
<1>1. Len(<<>>) = 0 OBVIOUS
<1>2. Pending = <<>> BY DEF Init, Pending, Site, PsmLabels
<1>3. LeftAfter(0, <<>>) = 0 BY <1>1, NoBank, Zenon
<1>4. InOrder(0, <<>>) BY <1>1 DEF InOrder
<1>5. StreamOK BY <1>2, <1>3, <1>4 DEF StreamOK, Init
<1>6. TwoBanks BY <1>1 DEF TwoBanks, Init
<1> QED BY <1>5, <1>6 DEF SyncInv, HostQuiet, Flushed, AbortQuiet, Init, Revoked,
           Aborting, Initiates

LEMMA SyncStep ==
  ASSUME IInv, SplitInv, SyncInv, [Next]_vars, "rush" \notin Habits PROVE SyncInv'
<1>1. CASE UsbTask \/ Waiting BY <1>1, UsbSteps
<1>2. CASE DeviceOut BY <1>2, DeviceOutSync
<1>3. CASE ReceiveMore BY <1>3, ReceiveMoreSync
<1>4. CASE PsmReturn BY <1>4, PsmReturnSync
<1>5. CASE Trigger BY <1>5, TriggerSync
<1>6. CASE DeviceIn BY <1>6, DeviceInSync
<1>7. CASE UnknownMessage BY <1>7, UnknownMessageSync
<1>8. CASE ReplyIn BY <1>8, ReplyInSync
<1>9. CASE FinishTask BY <1>9, FinishSync
<1>10. CASE HostSend BY <1>10, HostSendSync
<1>11. CASE HostContinue BY <1>11, HostContinueSync
<1>12. CASE HostRequest BY <1>12, HostRequestSync
<1>13. CASE \/ ServiceRequest \/ SelectiveDeviceClear \/ SendLocalLockout
            \/ GotoLocalAndRen \/ NoHeader \/ NotifyStatusByte
            \/ PsmTop \/ PsmLoop \/ PsmWrite \/ PsmUntalk \/ PsmEnd
            \/ PsmAnswerTop \/ PsmAnswerLoop \/ PsmAnswerEnd \/ GnmLoop \/ GnmEnd
            \/ Handshakes \/ HostCheck \/ HostCancel \/ Instrument \/ UNCHANGED vars
  BY <1>13, QuietSteps, Zenon
<1> QED
  BY <1>1, <1>2, <1>3, <1>4, <1>5, <1>6, <1>7, <1>8, <1>9, <1>10, <1>11, <1>12,
     <1>13, Zenon
  DEF Next, Firmware, Host, Transfer, Task

(* With a host that waits for the adapter after a refused abort, the       *)
(* packets of the endpoint are at every moment the rest of the message     *)
(* TMC_Task is in, then whole messages.  (With a host that rushes TLC      *)
(* finds the endpoint flushed in the middle of a new message.)             *)
THEOREM InStep == ASSUME "rush" \notin Habits PROVE Spec => []SyncInv
<1>1. Init => SyncInv BY InitSync
<1>2. IInv /\ SplitInv /\ SyncInv /\ [Next]_vars => SyncInv' BY SyncStep
<1>3. Spec => []IInv BY Inductive
<1>4. Spec => []SplitInv BY SplitQuiet
<1> QED BY <1>1, <1>2, <1>3, <1>4, PTL DEF Spec

(* TMC_Task never takes payload for a header nor a header for payload,     *)
(* whatever the sizes of the messages and the aborts between them.         *)
THEOREM HeadersInSync == ASSUME "rush" \notin Habits PROVE Spec => []HeaderSync
<1>1. IInv /\ SyncInv => HeaderSync
  <2> SUFFICES ASSUME IInv, SyncInv PROVE HeaderSync OBVIOUS
  <2> USE DEF IInv, Structure
  <2>1. CASE pc = "hdr" /\ outq # <<>> /\ ~Aborting
    <3>1. Site \notin PsmLabels /\ s_remaining_bytes_receive = 0
      BY <2>1 DEF Site, PsmLabels, RemainingOK
    <3>2. Fits(0, Head(outq)) BY <2>1, <3>1, HeadFacts
    <3> QED BY <2>1, <3>2 DEF Fits, HeaderSync
  <2>2. CASE pc = "more" /\ outq # <<>> /\ ~Aborting
    <3>1. Site \notin PsmLabels /\ s_remaining_bytes_receive > 0
      BY <2>2 DEF Site, PsmLabels, RemainingOK
    <3>2. Fits(s_remaining_bytes_receive, Head(outq)) BY <2>2, <3>1, HeadFacts
    <3> QED BY <2>2, <3>1, <3>2 DEF Fits, HeaderSync
  <2> QED BY <2>1, <2>2 DEF HeaderSync
<1>2. Spec => []IInv BY Inductive
<1>3. Spec => []SyncInv BY InStep
<1> QED BY <1>1, <1>2, <1>3, PTL
=============================================================================
