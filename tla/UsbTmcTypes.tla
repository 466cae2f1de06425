----------------------------- MODULE UsbTmcTypes -----------------------------
(***************************************************************************)
(* Every step of UsbTmc keeps the type invariant (TypeStep).  Only CallOK  *)
(* is needed beside it: a GPIB function returns to a place in the code, a  *)
(* data byte is taken from Length > 0, and ProcessSentMessage has a packet *)
(* to release.                                                             *)
(***************************************************************************)
EXTENDS UsbTmcInv, TLAPS

(* The tuples of the frame conditions are expanded in every proof.         *)
USE DEF abortVars, handleVars, statusVars, messageVars, internalVars, callVars,
        localVars, busVars, eventVars, deliveryVars, hostVars, ctlVars,
        transferVars, hostFrame, InsideTransfer

(* The packet at the head of the OUT endpoint, and the queue behind it.    *)
LEMMA PacketFacts ==
  ASSUME HostTypes, outq # <<>>
  PROVE  /\ Head(outq).tag \in Nat /\ Head(outq).size \in Nat
         /\ Head(outq).eom \in BOOLEAN /\ Head(outq).bang \in BOOLEAN
         /\ Tail(outq) \in Seq(Packets)
         /\ Len(outq) \in Nat /\ Len(outq) >= 1 /\ Head(outq) = outq[1]
         /\ Len(Tail(outq)) = Len(outq) - 1
         /\ \A i \in 1..Len(Tail(outq)) : Tail(outq)[i] = outq[i + 1]
<1>1. outq \in Seq(Packets) BY DEF HostTypes
<1>2. Head(outq) \in Packets BY <1>1
<1>3. Tail(outq) \in Seq(Packets) BY <1>1
<1>4. Len(outq) \in Nat /\ Len(outq) >= 1 /\ Head(outq) = outq[1] BY <1>1
<1>5. /\ Len(Tail(outq)) = Len(outq) - 1
      /\ \A i \in 1..Len(Tail(outq)) : Tail(outq)[i] = outq[i + 1]
  BY <1>1
<1> QED BY <1>2, <1>3, <1>4, <1>5 DEF Packets

(* The share of a message that fits in a packet or a buffer.               *)
LEMMA LesserFacts ==
  ASSUME NEW a \in Nat, NEW b \in Nat
  PROVE  /\ LesserOf(a, b) \in Nat /\ LesserOf(a, b) <= a /\ LesserOf(a, b) <= b
         /\ b - LesserOf(a, b) \in Nat
         /\ LesserOf(a, b) = b <=> b - LesserOf(a, b) = 0
         /\ a > 0 /\ b > 0 => LesserOf(a, b) > 0
         /\ b <= a => LesserOf(a, b) = b
BY DEF LesserOf

(* A control request changes flags, status and the control endpoint within *)
(* their types.                                                            *)
LEMMA RequestTypes ==
  ASSUME TypeOK, FlagRequest \/ NoRequest
  PROVE  /\ FlagTypes' /\ StatusTypes'
         /\ ctl' \in AllRequests \cup {"none", "deferred"} /\ reqTag' \in Nat
         /\ s_nextwrite_mightbeparameterset' \in BOOLEAN
<1> USE DEF TypeOK
<1>1. CASE FlagRequest
  <2>1. FlagTypes' /\ ctl' \in AllRequests \cup {"none", "deferred"}
    <3> USE DEF FlagTypes
    <3>1. CASE InitiateAbortBulkOut \/ InitiateAbortBulkIn \/ InitiateClear
      BY <3>1 DEF HostTypes, InitiateAbortBulkOut, InitiateAbortBulkIn,
         InitiateClear, AcceptAbort, Replied, Initiates
    <3>2. CASE CheckAbortBulkOutStatus \/ CheckAbortBulkInStatus \/ CheckClearStatus
      BY <3>2 DEF CheckAbortBulkOutStatus, CheckAbortBulkInStatus,
         CheckClearStatus, CheckStatus, Replied
    <3>3. CASE IndicatorPulse \/ AskTask \/ DeferReadStatusByte
      BY <3>3 DEF IndicatorPulse, AskTask, RenControl, LocalLockout, GoToLocal,
         DeferReadStatusByte, Replied
    <3> QED BY <1>1, <3>1, <3>2, <3>3 DEF FlagRequest
  <2>2. StatusTypes' /\ reqTag' \in Nat
        /\ s_nextwrite_mightbeparameterset' \in BOOLEAN
    BY <1>1 DEF StatusTypes, HostTypes, MessageTypes, FlagRequest,
       InitiateAbortBulkOut, InitiateAbortBulkIn, InitiateClear,
       CheckAbortBulkOutStatus, CheckAbortBulkInStatus, CheckClearStatus,
       CheckStatus, IndicatorPulse, AskTask, DeferReadStatusByte
  <2> QED BY <2>1, <2>2
<1>2. CASE NoRequest
  BY <1>2 DEF NoRequest, FlagTypes, StatusTypes, HostTypes, MessageTypes
<1> QED BY <1>1, <1>2

(* So does the answer to a status request, now or between two bytes.       *)
LEMMA AnswerTypes ==
  ASSUME TypeOK, handle_control_Req_ReadStatusByte, UNCHANGED raised,
         UNCHANGED abortVars, UNCHANGED handleVars
  PROVE  /\ FlagTypes' /\ StatusTypes'
         /\ ctl' \in AllRequests \cup {"none", "deferred"}
  BY DEF TypeOK, FlagTypes, StatusTypes, HostTypes,
     handle_control_Req_ReadStatusByte, SerialPoll, StatusRead, Respond

(* A status request answered at once, inside USB_USBTask.                  *)
LEMMA StatusNowTypes ==
  ASSUME TypeOK, ReadStatusByteNow
  PROVE  /\ FlagTypes' /\ StatusTypes'
         /\ ctl' \in AllRequests \cup {"none", "deferred"} /\ reqTag' \in Nat
         /\ s_nextwrite_mightbeparameterset' \in BOOLEAN
         /\ addr' \in Addressing /\ REN' \in BOOLEAN
<1>1. /\ handle_control_Req_ReadStatusByte
      /\ UNCHANGED <<abortVars, handleVars, raised,
                     s_nextwrite_mightbeparameterset, reqTag>>
  BY DEF ReadStatusByteNow
<1>2. /\ FlagTypes' /\ StatusTypes'
      /\ ctl' \in AllRequests \cup {"none", "deferred"}
  BY <1>1, AnswerTypes
<1>3. addr' \in Addressing /\ REN' \in BOOLEAN
  BY <1>1 DEF handle_control_Req_ReadStatusByte, SerialPoll, Unaddressed,
     Addressing
<1>4. reqTag' \in Nat /\ s_nextwrite_mightbeparameterset' \in BOOLEAN
  BY <1>1 DEF TypeOK, MessageTypes, HostTypes
<1> QED BY <1>2, <1>3, <1>4

(* HostSend appends the packet of a message header.                        *)
LEMMA HostSendTypes == ASSUME TypeOK, HostSend PROVE HostTypes'
<1> USE DEF TypeOK, HostTypes, HostSend
<1>1. PICK kind \in Kinds, size \in Sizes, eom \in BOOLEAN, bang \in BOOLEAN :
        /\ outq' = Append(outq, Packet(kind, size, eom, bang))
        /\ hleft' = IF kind = "OUT"
                      THEN size - LesserOf(FirstChunk, size) ELSE 0
        /\ hin' = (kind = "IN")
        /\ hmore' = (hmore /\ kind = "IN")
  OBVIOUS
<1>2. size \in Nat /\ kind \in MessageKinds BY HostAssumption
<1>3. Packet(kind, size, eom, bang) \in Packets BY <1>2 DEF Packet, Packets
<1>4. outq' \in Seq(Packets) BY <1>1, <1>3
<1>5. hleft' \in Nat BY <1>1, <1>2, ChunkAssumption DEF LesserOf
<1>6. htag' \in Nat /\ hin' \in BOOLEAN /\ hmore' \in BOOLEAN BY <1>1
<1> QED BY <1>4, <1>5, <1>6

(* HostContinue appends a packet of payload.                               *)
LEMMA HostContinueTypes == ASSUME TypeOK, HostContinue PROVE HostTypes'
<1> USE DEF TypeOK, HostTypes, HostContinue
<1> DEFINE size == LesserOf(Chunk, hleft)
           data == [kind |-> "DATA", tag |-> htag, size |-> size,
                    eom |-> FALSE, bang |-> FALSE]
<1>1. size \in Nat /\ size <= hleft BY ChunkAssumption DEF LesserOf
<1>2. data \in Packets BY <1>1 DEF Packets
<1>3. outq' \in Seq(Packets) BY <1>2
<1>4. hleft' \in Nat BY <1>1
<1> QED BY <1>3, <1>4

(* HostRequest puts a request on the control endpoint.                     *)
LEMMA HostRequestTypes == ASSUME TypeOK, HostRequest PROVE HostTypes'
<1>1. PICK r \in Requests :
        /\ ctl' = r
        /\ IF r \in Initiates
             THEN hleft' = 0 /\ hin' = FALSE /\ hmore' = FALSE
             ELSE UNCHANGED <<hleft, hin, hmore>>
  BY DEF HostRequest
<1>2. ctl' \in AllRequests BY <1>1, HostAssumption
<1>3. hleft' \in Nat /\ hin' \in BOOLEAN /\ hmore' \in BOOLEAN
  <2>1. CASE r \in Initiates
    <3>1. hleft' = 0 /\ hin' = FALSE /\ hmore' = FALSE BY <1>1, <2>1, Zenon
    <3> QED BY <3>1
  <2>2. CASE r \notin Initiates
    <3>1. UNCHANGED <<hleft, hin, hmore>> BY <1>1, <2>2, Zenon
    <3> QED BY <3>1 DEF TypeOK, HostTypes
  <2> QED BY <2>1, <2>2
<1>4. outq' = outq /\ htag' = htag /\ reqTag' = reqTag /\ nreq' = nreq + 1
  BY DEF HostRequest
<1> QED BY <1>2, <1>3, <1>4 DEF TypeOK, HostTypes

(* The instrument raises an event within the bound.                        *)
LEMMA InstrumentRaisesTypes ==
  ASSUME TypeOK, InstrumentRaises
  PROVE  StatusTypes'
<1> USE DEF TypeOK, StatusTypes, InstrumentRaises
<1>1. raised + 1 \in 1..MaxEvents BY InstrumentAssumption
<1>2. stb' \subseteq 1..MaxEvents BY <1>1
<1>3. raised' \in 0..MaxEvents BY <1>1, InstrumentAssumption
<1> QED BY <1>2, <1>3

(* A GPIB function returns to a place in the code.                         *)
LEMMA ReturnTypes == ASSUME TypeOK, CallOK, pc = "bus", Return PROVE CallTypes'
BY DEF TypeOK, CallTypes, CallOK, Return, Labels, PsmLabels, GnmLabels,
   TaskLabels

(* A handshake that is given up takes at most one byte from Length, from   *)
(* the response and from the message.                                      *)
LEMMA TimedOutTypes ==
  ASSUME TypeOK, CallOK, pc = "bus", TimedOut
  PROVE  CallTypes' /\ LocalTypes' /\ BusTypes'
<1>1. CallTypes' BY ReturnTypes DEF TimedOut
<1>2. LocalTypes'
  <2>1. fn \in {"writedat", "readdat"} => Length > 0 BY DEF CallOK
  <2>2. Length' \in Nat BY <2>1 DEF TimedOut, TypeOK, LocalTypes
  <2>3. timedout' \in BOOLEAN /\ lastmessage' \in BOOLEAN
    BY DEF TimedOut, Result, TypeOK, LocalTypes
  <2> QED BY <2>2, <2>3 DEF LocalTypes
<1>3. BusTypes'
  <2>1. rx' \in Nat /\ rxEoi' \in BOOLEAN
    <3>1. CASE InstrumentHears
      BY <3>1 DEF InstrumentHears, EndsMessage, TypeOK, BusTypes
    <3>2. CASE UNCHANGED <<rx, rxEoi>>
      BY <3>2 DEF TypeOK, BusTypes
    <3> QED BY <3>1, <3>2 DEF TimedOut
  <2>2. reply' \in Nat BY DEF TimedOut, TypeOK, BusTypes
  <2> QED
    BY <2>1, <2>2 DEF TimedOut, TypeOK, BusTypes, Unaddressed, Addressing
<1> QED BY <1>1, <1>2, <1>3

(* USB_USBTask in the main loop.                                           *)
LEMMA UsbTaskTypes ==
  ASSUME TypeOK, CallOK, UsbTask
  PROVE  TypeOK'
<1>1. \/ (FlagRequest \/ NoRequest) /\ UNCHANGED busVars
      \/ ReadStatusByteNow
  BY DEF UsbTask
<1>2. /\ FlagTypes' /\ StatusTypes'
      /\ ctl' \in AllRequests \cup {"none", "deferred"} /\ reqTag' \in Nat
      /\ s_nextwrite_mightbeparameterset' \in BOOLEAN
  BY <1>1, RequestTypes, StatusNowTypes
<1>3. addr' \in Addressing /\ REN' \in BOOLEAN
  BY <1>1, StatusNowTypes DEF TypeOK, BusTypes
<1> QED
  BY <1>2, <1>3 DEF UsbTask, TypeOK, MessageTypes, CallTypes, LocalTypes,
     BusTypes,
     HostTypes, Labels, TaskLabels

(* The header of a write and its first packet.                             *)
LEMMA DeviceOutTypes ==
  ASSUME TypeOK, CallOK, DeviceOut
  PROVE  MessageTypes' /\ CallTypes'
<1>1. HostTypes /\ outq # <<>> BY DEF DeviceOut, Header, TypeOK
<1> DEFINE packet == Head(outq)
           curlen == LesserOf(FirstChunk, packet.size)
<1>2. /\ packet.tag \in Nat /\ packet.eom \in BOOLEAN
      /\ curlen \in Nat /\ packet.size - curlen \in Nat
  BY <1>1, PacketFacts, LesserFacts, ChunkAssumption
<1>3. /\ s_remaining_bytes_receive' = packet.size - curlen
      /\ TMC_eom' = packet.eom /\ CurrentTransferTag' = packet.tag
      /\ ProcessSentMessage(TMC_LastMessageComplete, packet, curlen)
  BY DEF DeviceOut, Header
<1>4. CASE InternalCommand(TMC_LastMessageComplete, packet)
  <2>1. internal_response' \in Nat
    BY <1>3, <1>4, InstrumentAssumption DEF ProcessSentMessage
  <2>2. MessageTypes'
    BY <1>2, <1>3, <2>1 DEF DeviceOut, ProcessSentMessage, TypeOK,
       MessageTypes
  <2>3. CallTypes'
    BY <1>3, <1>4 DEF ProcessSentMessage, Goto, TypeOK, CallTypes, Labels,
       PsmLabels
  <2> QED BY <2>2, <2>3
<1>5. CASE ~InternalCommand(TMC_LastMessageComplete, packet)
  <2>1. internal_response' = internal_response
    BY <1>3, <1>5 DEF ProcessSentMessage
  <2>2. MessageTypes'
    BY <1>2, <1>3, <2>1 DEF DeviceOut, ProcessSentMessage, TypeOK,
       MessageTypes
  <2>4. Call("make_listener", "psm_top") \/ Goto("psm_top")
    BY <1>3, <1>5 DEF ProcessSentMessage
  <2>3. CallTypes'
    BY <2>4 DEF Call, Goto, TypeOK, CallTypes, Labels, PsmLabels, BusFns,
       AddressingFns
  <2> QED BY <2>2, <2>3
<1> QED BY <1>4, <1>5

(* Further packets of a write.                                             *)
LEMMA ReceiveMoreTypes ==
  ASSUME TypeOK, CallOK, ReceiveMore
  PROVE  MessageTypes' /\ LocalTypes'
<1>1. CASE outq = <<>>
  BY <1>1 DEF ReceiveMore, Goto, TypeOK, MessageTypes, LocalTypes
<1>2. CASE outq # <<>>
  <2> DEFINE curlen == LesserOf(Chunk, s_remaining_bytes_receive)
  <2>1. curlen \in Nat /\ s_remaining_bytes_receive - curlen \in Nat
    BY LesserFacts, ChunkAssumption DEF TypeOK, MessageTypes
  <2>2. /\ s_remaining_bytes_receive' = s_remaining_bytes_receive - curlen
        /\ lastmessage' = (curlen = s_remaining_bytes_receive)
        /\ TMC_LastMessageComplete' = lastmessage'
        /\ ProcessSentMessage(FALSE, Head(outq), curlen)
        /\ UNCHANGED <<TMC_eom, TMC_InLastMessageComplete, CurrentTransferTag,
                      s_nextwrite_mightbeparameterset, s_terminator_enabled>>
    BY <1>2 DEF ReceiveMore
  <2>3. /\ internal_response' = internal_response /\ gpib_write_is_busy' = TRUE
        /\ timedout' = FALSE /\ Length' = curlen
    BY <2>2 DEF ProcessSentMessage, InternalCommand
  <2>4. MessageTypes' BY <2>1, <2>2, <2>3 DEF TypeOK, MessageTypes
  <2>5. LocalTypes' BY <2>1, <2>2, <2>3 DEF LocalTypes
  <2> QED BY <2>4, <2>5
<1> QED BY <1>1, <1>2

(* A read request and the response it starts.                              *)
LEMMA DeviceInTypes ==
  ASSUME TypeOK, CallOK, DeviceIn
  PROVE  MessageTypes' /\ CallTypes' /\ LocalTypes'
<1>1. HostTypes /\ outq # <<>> BY DEF DeviceIn, Header, TypeOK
<1> DEFINE size == Head(outq).size
           sent == LesserOf(internal_response, size)
<1>2. Head(outq).tag \in Nat /\ Head(outq).eom \in BOOLEAN /\ size \in Nat
  BY <1>1, PacketFacts
<1>3. CASE internal_response > 0
  <2>1. /\ internal_response' = internal_response - sent
        /\ lastmessage' = (sent = internal_response)
        /\ Goto("in_reply")
        /\ UNCHANGED <<timedout, Length>>
    BY <1>3 DEF DeviceIn
  <2>2. internal_response' \in Nat
    BY <1>2, <2>1 DEF LesserOf, TypeOK, MessageTypes
  <2>3. MessageTypes' BY <1>2, <2>2 DEF DeviceIn, Header, TypeOK, MessageTypes
  <2>4. CallTypes' /\ LocalTypes'
    BY <2>1 DEF Goto, TypeOK, CallTypes, LocalTypes, Labels, TaskLabels
  <2> QED BY <2>3, <2>4
<1>4. CASE ~(internal_response > 0)
  <2>1. GetNextMessage(LesserOf(BufferSize, size)) /\ UNCHANGED internal_response
    BY <1>4 DEF DeviceIn
  <2>2. LesserOf(BufferSize, size) \in Nat
    BY <1>2, LesserFacts, ChunkAssumption
  <2>3. MessageTypes' BY <1>2, <2>1 DEF DeviceIn, Header, TypeOK, MessageTypes
  <2>4. LocalTypes' BY <2>1, <2>2 DEF GetNextMessage, LocalTypes
  <2>6. Call("make_talker", "gnm_loop") \/ Goto("gnm_loop")
    BY <2>1 DEF GetNextMessage
  <2>5. CallTypes'
    BY <2>6 DEF Call, Goto, TypeOK, CallTypes, Labels, GnmLabels, BusFns,
       AddressingFns
  <2> QED BY <2>3, <2>4, <2>5
<1> QED BY <1>3, <1>4

(* The packet of a write is released.                                      *)
LEMMA PsmReturnTypes ==
  ASSUME TypeOK, CallOK, PsmReturn
  PROVE  HostTypes'
<1>1. outq # <<>> BY DEF CallOK, Site, PsmReturn, PsmLabels
<1>2. outq' \in Seq(Packets) BY <1>1, PacketFacts DEF PsmReturn, TypeOK
<1> QED BY <1>2 DEF PsmReturn, TypeOK, HostTypes

(* The response is sent, or dropped with the states of the transfer.       *)
LEMMA ReplyInTypes ==
  ASSUME TypeOK, CallOK, ReplyIn
  PROVE  MessageTypes'
<1>1. CASE IsTMCBulkINReset
  BY <1>1 DEF ReplyIn, TMC_resetstates, gpib_interface_clear, TypeOK,
     MessageTypes
<1>2. CASE ~IsTMCBulkINReset
  BY <1>2 DEF ReplyIn, TypeOK, MessageTypes, LocalTypes
<1> QED BY <1>1,<1>2

(* The end of TMC_Task, with and without an abort.                         *)
LEMMA FinishTaskTypes ==
  ASSUME TypeOK, CallOK, FinishTask
  PROVE  HostTypes' /\ MessageTypes'
<1>1. CASE Aborting
  <2>1. outq' = <<>> BY <1>1 DEF FinishTask, FlushOutBanks
  <2>2. <<>> \in Seq(Packets) OBVIOUS
  <2>3. HostTypes' BY <2>1, <2>2 DEF FinishTask, TypeOK, HostTypes
  <2>4. MessageTypes'
    BY <1>1 DEF FinishTask, TMC_resetstates, gpib_interface_clear, TypeOK,
       MessageTypes
  <2> QED BY <2>3, <2>4
<1>2. CASE ~Aborting BY <1>2 DEF FinishTask, TypeOK, HostTypes, MessageTypes
<1> QED BY <1>1, <1>2

(* A data byte goes out, with or without a listener.                       *)
LEMMA DataAcceptedTypes ==
  ASSUME TypeOK, CallOK, DataAccepted
  PROVE  BusTypes'
<1>1. rx' \in Nat /\ rxEoi' \in BOOLEAN
  <2>1. CASE addr = "listen" /\ byte = "good"
    BY <2>1 DEF DataAccepted, InstrumentHears, EndsMessage, TypeOK, BusTypes
  <2>2. CASE ~(addr = "listen" /\ byte = "good")
    BY <2>2 DEF DataAccepted, TypeOK, BusTypes
  <2> QED BY <2>1, <2>2
<1> QED BY <1>1 DEF DataAccepted, TypeOK, BusTypes

(* A command byte is accepted; the last one ends the function.             *)
LEMMA CommandAcceptedTypes ==
  ASSUME TypeOK, CallOK, CommandAccepted
  PROVE  BusTypes' /\ CallTypes'
<1>1. BusTypes'
  <2>1. addr' \in Addressing
    <3>1. CASE byte = "good"
      BY <3>1 DEF CommandAccepted, Hear, TypeOK, BusTypes, Addressing
    <3>2. CASE byte # "good" BY <3>2 DEF CommandAccepted, TypeOK, BusTypes
    <3> QED BY <3>1, <3>2
  <2> QED BY <2>1 DEF CommandAccepted, TypeOK, BusTypes
<1>2. CallTypes'
  <2>1. CASE k < Len(CommandsOf(fn))
    <3> DEFINE n == Len(CommandsOf(fn))
    <3>1. n \in 0..4
      BY DEF CommandAccepted, CommandsOf, make_listener, make_talker,
         untalk_unlisten, AddressingFns
    <3>2. k' = k + 1 /\ byte' = "good" /\ UNCHANGED <<pc, fn, ret>>
      BY <2>1 DEF CommandAccepted
    <3>3. k + 1 \in 0..4
      <4>1. k < n /\ k \in 0..4 BY <2>1 DEF TypeOK, CallTypes
      <4> HIDE DEF n
      <4> QED BY <3>1, <4>1
    <3> QED BY <3>2, <3>3 DEF TypeOK, CallTypes
  <2>2. CASE ~(k < Len(CommandsOf(fn)))
    BY <2>2, ReturnTypes DEF CommandAccepted
  <2> QED BY <2>1, <2>2
<1> QED BY <1>1, <1>2

(* A poll of the timeout function ends the handshake or lets it wait.      *)
LEMMA PollTypes ==
  ASSUME TypeOK, CallOK, PollTimeout
  PROVE  CallTypes' /\ LocalTypes' /\ BusTypes'
<1>1. CASE TimedOut BY <1>1, TimedOutTypes DEF PollTimeout
<1>2. CASE KeepsWaiting /\ UNCHANGED <<byte, busVars>>
  BY <1>2 DEF KeepsWaiting, TypeOK, CallTypes, LocalTypes, BusTypes
<1> QED BY <1>1, <1>2 DEF PollTimeout

(* The same with a serial poll inside the handshake.                       *)
LEMMA PollStatusTypes ==
  ASSUME TypeOK, CallOK, PollTimeoutReadStatusByte
  PROVE  CallTypes' /\ LocalTypes' /\ BusTypes'
<1>1. CASE Aborting BY <1>1, TimedOutTypes DEF PollTimeoutReadStatusByte
<1>2. CASE ~Aborting
  <2>1. CallTypes'
    BY <1>2 DEF PollTimeoutReadStatusByte, KeepsWaiting, TypeOK, CallTypes
  <2>2. LocalTypes'
    BY <1>2 DEF PollTimeoutReadStatusByte, KeepsWaiting, TypeOK, LocalTypes
  <2>3. BusTypes'
    BY <1>2, StatusNowTypes
    DEF PollTimeoutReadStatusByte, KeepsWaiting, TypeOK, BusTypes
  <2> QED BY <2>1, <2>2, <2>3
<1> QED BY <1>1, <1>2

(* One step, one case per action: what a lemma above does not cover        *)
(* follows from the action's assignments and frame conditions, group by    *)
(* group.                                                                  *)
LEMMA TypeStep == ASSUME TypeOK, CallOK, [Next]_vars PROVE TypeOK'
<1> USE DEF TypeOK, Goto, Call, Return, Result, WriteContinues,
        Labels, TaskLabels, PsmLabels, GnmLabels, BusFns, AddressingFns
<1>1. CASE UsbTask BY <1>1, UsbTaskTypes
<1>2. CASE ServiceRequest
  <2>1. FlagTypes' BY <1>2 DEF FlagTypes, ServiceRequest, SerialPoll,
         StatusRead
  <2>2. StatusTypes' BY <1>2 DEF StatusTypes, ServiceRequest, SerialPoll,
         StatusRead
  <2>3. MessageTypes' BY <1>2 DEF MessageTypes, ServiceRequest, SerialPoll,
         StatusRead, LocalTypes
  <2>4. CallTypes' BY <1>2 DEF CallTypes, ServiceRequest, SerialPoll,
         StatusRead, CallOK
  <2>5. LocalTypes' BY <1>2 DEF LocalTypes, ServiceRequest, SerialPoll,
         StatusRead, CallOK
  <2>6. BusTypes' BY <1>2 DEF BusTypes, ServiceRequest, SerialPoll,
         StatusRead, Unaddressed, Addressing
  <2>7. HostTypes' BY <1>2 DEF HostTypes, ServiceRequest, SerialPoll,
         StatusRead, LocalTypes
  <2> QED BY <2>1, <2>2, <2>3, <2>4, <2>5, <2>6, <2>7
<1>3. CASE SelectiveDeviceClear
  <2>1. FlagTypes' BY <1>3 DEF FlagTypes, SelectiveDeviceClear,
         AddressedCommand
  <2>2. StatusTypes' BY <1>3 DEF StatusTypes, SelectiveDeviceClear,
         AddressedCommand
  <2>3. MessageTypes' BY <1>3 DEF MessageTypes, SelectiveDeviceClear,
         AddressedCommand, LocalTypes
  <2>4. CallTypes' BY <1>3 DEF CallTypes, SelectiveDeviceClear,
         AddressedCommand, CallOK
  <2>5. LocalTypes' BY <1>3 DEF LocalTypes, SelectiveDeviceClear,
         AddressedCommand, CallOK
  <2>6. BusTypes' BY <1>3 DEF BusTypes, SelectiveDeviceClear,
         AddressedCommand, Unaddressed, Addressing
  <2>7. HostTypes' BY <1>3 DEF HostTypes, SelectiveDeviceClear,
         AddressedCommand, LocalTypes
  <2> QED BY <2>1, <2>2, <2>3, <2>4, <2>5, <2>6, <2>7
<1>4. CASE SendLocalLockout
  <2>1. FlagTypes' BY <1>4 DEF FlagTypes, SendLocalLockout
  <2>2. StatusTypes' BY <1>4 DEF StatusTypes, SendLocalLockout
  <2>3. MessageTypes' BY <1>4 DEF MessageTypes, SendLocalLockout, LocalTypes
  <2>4. CallTypes' BY <1>4 DEF CallTypes, SendLocalLockout, CallOK
  <2>5. LocalTypes' BY <1>4 DEF LocalTypes, SendLocalLockout, CallOK
  <2>6. BusTypes' BY <1>4 DEF BusTypes, SendLocalLockout, Unaddressed,
         Addressing
  <2>7. HostTypes' BY <1>4 DEF HostTypes, SendLocalLockout, LocalTypes
  <2> QED BY <2>1, <2>2, <2>3, <2>4, <2>5, <2>6, <2>7
<1>5. CASE GotoLocalAndRen
  <2>1. FlagTypes' BY <1>5 DEF FlagTypes, GotoLocalAndRen, TransfersComplete,
         RenRequests
  <2>2. StatusTypes' BY <1>5 DEF StatusTypes, GotoLocalAndRen,
         TransfersComplete
  <2>3. MessageTypes' BY <1>5 DEF MessageTypes, GotoLocalAndRen,
         TransfersComplete, LocalTypes
  <2>4. CallTypes' BY <1>5 DEF CallTypes, GotoLocalAndRen, TransfersComplete,
         CallOK
  <2>5. LocalTypes' BY <1>5 DEF LocalTypes, GotoLocalAndRen,
         TransfersComplete, CallOK
  <2>6. BusTypes' BY <1>5 DEF BusTypes, GotoLocalAndRen, TransfersComplete,
         Unaddressed, Addressing
  <2>7. HostTypes' BY <1>5 DEF HostTypes, GotoLocalAndRen, TransfersComplete,
         LocalTypes
  <2> QED BY <2>1, <2>2, <2>3, <2>4, <2>5, <2>6, <2>7
<1>6. CASE NoHeader
  <2>1. FlagTypes' BY <1>6 DEF FlagTypes, NoHeader
  <2>2. StatusTypes' BY <1>6 DEF StatusTypes, NoHeader
  <2>3. MessageTypes' BY <1>6, PacketFacts DEF MessageTypes, NoHeader,
         LocalTypes
  <2>4. CallTypes' BY <1>6, PacketFacts DEF CallTypes, NoHeader, CallOK
  <2>5. LocalTypes' BY <1>6, PacketFacts DEF LocalTypes, NoHeader, CallOK
  <2>6. BusTypes' BY <1>6, PacketFacts DEF BusTypes, NoHeader, Unaddressed,
         Addressing
  <2>7. HostTypes' BY <1>6, PacketFacts DEF HostTypes, NoHeader, LocalTypes
  <2> QED BY <2>1, <2>2, <2>3, <2>4, <2>5, <2>6, <2>7
<1>7. CASE UnknownMessage
  <2>1. FlagTypes' BY <1>7 DEF FlagTypes, UnknownMessage, Header
  <2>2. StatusTypes' BY <1>7 DEF StatusTypes, UnknownMessage, Header
  <2>3. MessageTypes' BY <1>7, PacketFacts DEF MessageTypes, UnknownMessage,
         Header, LocalTypes
  <2>4. CallTypes' BY <1>7, PacketFacts DEF CallTypes, UnknownMessage, Header,
         CallOK
  <2>5. LocalTypes' BY <1>7, PacketFacts DEF LocalTypes, UnknownMessage,
         Header, CallOK
  <2>6. BusTypes' BY <1>7, PacketFacts DEF BusTypes, UnknownMessage, Header,
         Unaddressed, Addressing
  <2>7. HostTypes' BY <1>7, PacketFacts DEF HostTypes, UnknownMessage, Header,
         LocalTypes
  <2> QED BY <2>1, <2>2, <2>3, <2>4, <2>5, <2>6, <2>7
<1>8. CASE Trigger
  <2>1. FlagTypes' BY <1>8 DEF FlagTypes, Trigger, Header, AddressedCommand
  <2>2. StatusTypes' BY <1>8 DEF StatusTypes, Trigger, Header,
         AddressedCommand
  <2>3. MessageTypes' BY <1>8, PacketFacts DEF MessageTypes, Trigger, Header,
         AddressedCommand, LocalTypes
  <2>4. CallTypes' BY <1>8, PacketFacts DEF CallTypes, Trigger, Header,
         AddressedCommand, CallOK
  <2>5. LocalTypes' BY <1>8, PacketFacts DEF LocalTypes, Trigger, Header,
         AddressedCommand, CallOK
  <2>6. BusTypes' BY <1>8, PacketFacts DEF BusTypes, Trigger, Header,
         AddressedCommand, Unaddressed, Addressing
  <2>7. HostTypes' BY <1>8, PacketFacts DEF HostTypes, Trigger, Header,
         AddressedCommand, LocalTypes
  <2> QED BY <2>1, <2>2, <2>3, <2>4, <2>5, <2>6, <2>7
<1>9. CASE DeviceOut
  <2>1. MessageTypes' /\ CallTypes' BY <1>9, DeviceOutTypes
  <2>2. FlagTypes' BY <1>9, ChunkAssumption, LesserFacts DEF FlagTypes,
         DeviceOut, Header, ProcessSentMessage
  <2>3. StatusTypes' BY <1>9, ChunkAssumption, LesserFacts DEF StatusTypes,
         DeviceOut, Header, ProcessSentMessage
  <2>4. LocalTypes' BY <1>9, PacketFacts, ChunkAssumption, LesserFacts DEF
         LocalTypes, DeviceOut, Header, ProcessSentMessage, CallOK
  <2>5. BusTypes' BY <1>9, PacketFacts, ChunkAssumption, LesserFacts DEF
         BusTypes, DeviceOut, Header, ProcessSentMessage, Unaddressed,
         Addressing
  <2>6. HostTypes' BY <1>9, PacketFacts, ChunkAssumption, LesserFacts DEF
         HostTypes, DeviceOut, Header, ProcessSentMessage, LocalTypes
  <2> QED BY <2>1, <2>2, <2>3, <2>4, <2>5, <2>6
<1>10. CASE DeviceIn
  <2>1. MessageTypes' /\ CallTypes' /\ LocalTypes' BY <1>10, DeviceInTypes
  <2>2. FlagTypes' BY <1>10 DEF FlagTypes, DeviceIn, Header, GetNextMessage
  <2>3. StatusTypes' BY <1>10 DEF StatusTypes, DeviceIn, Header,
         GetNextMessage
  <2>4. BusTypes' BY <1>10, PacketFacts DEF BusTypes, DeviceIn, Header,
         GetNextMessage, Unaddressed, Addressing
  <2>5. HostTypes' BY <1>10, PacketFacts DEF HostTypes, DeviceIn, Header,
         GetNextMessage, LocalTypes
  <2> QED BY <2>1, <2>2, <2>3, <2>4, <2>5
<1>11. CASE ReceiveMore
  <2>1. MessageTypes' /\ LocalTypes' BY <1>11, ReceiveMoreTypes
  <2>2. FlagTypes' BY <1>11 DEF FlagTypes, ReceiveMore, ProcessSentMessage,
         InternalCommand
  <2>3. StatusTypes' BY <1>11 DEF StatusTypes, ReceiveMore,
         ProcessSentMessage, InternalCommand
  <2>4. CallTypes' BY <1>11 DEF CallTypes, ReceiveMore, ProcessSentMessage,
         InternalCommand, CallOK
  <2>5. BusTypes' BY <1>11 DEF BusTypes, ReceiveMore, ProcessSentMessage,
         InternalCommand, Unaddressed, Addressing
  <2>6. HostTypes' BY <1>11 DEF HostTypes, ReceiveMore, ProcessSentMessage,
         InternalCommand, LocalTypes
  <2> QED BY <2>1, <2>2, <2>3, <2>4, <2>5, <2>6
<1>12. CASE NotifyStatusByte
  <2>1. FlagTypes' BY <1>12 DEF FlagTypes, NotifyStatusByte
  <2>2. StatusTypes' BY <1>12 DEF StatusTypes, NotifyStatusByte
  <2>3. MessageTypes' BY <1>12 DEF MessageTypes, NotifyStatusByte, LocalTypes
  <2>4. CallTypes' BY <1>12 DEF CallTypes, NotifyStatusByte, CallOK
  <2>5. LocalTypes' BY <1>12 DEF LocalTypes, NotifyStatusByte, CallOK
  <2>6. BusTypes' BY <1>12 DEF BusTypes, NotifyStatusByte, Unaddressed,
         Addressing
  <2>7. HostTypes' BY <1>12 DEF HostTypes, NotifyStatusByte, LocalTypes
  <2> QED BY <2>1, <2>2, <2>3, <2>4, <2>5, <2>6, <2>7
<1>13. CASE FinishTask
  <2>1. HostTypes' /\ MessageTypes' BY <1>13, FinishTaskTypes
  <2>2. FlagTypes' BY <1>13 DEF FlagTypes, FinishTask, TMC_resetstates,
         gpib_interface_clear
  <2>3. StatusTypes' BY <1>13 DEF StatusTypes, FinishTask, TMC_resetstates,
         gpib_interface_clear
  <2>4. CallTypes' BY <1>13 DEF CallTypes, FinishTask, TMC_resetstates,
         gpib_interface_clear, CallOK
  <2>5. LocalTypes' BY <1>13 DEF LocalTypes, FinishTask, TMC_resetstates,
         gpib_interface_clear, CallOK
  <2>6. BusTypes' BY <1>13 DEF BusTypes, FinishTask, TMC_resetstates,
         gpib_interface_clear, Unaddressed, Addressing
  <2> QED BY <2>1, <2>2, <2>3, <2>4, <2>5, <2>6
<1>14. CASE PsmTop
  BY <1>14 DEF PsmTop, FlagTypes, StatusTypes, MessageTypes, CallTypes,
     LocalTypes, BusTypes, HostTypes
<1>15. CASE PsmLoop
  BY <1>15 DEF PsmLoop, FlagTypes, StatusTypes, MessageTypes, CallTypes,
     LocalTypes, BusTypes, HostTypes
<1>16. CASE PsmWrite
  BY <1>16 DEF PsmWrite, FlagTypes, StatusTypes, MessageTypes, CallTypes,
     LocalTypes, BusTypes, HostTypes
<1>17. CASE PsmUntalk
  BY <1>17 DEF PsmUntalk, FlagTypes, StatusTypes, MessageTypes, CallTypes,
     LocalTypes, BusTypes, HostTypes
<1>18. CASE PsmEnd
  <2>1. FlagTypes' BY <1>18 DEF FlagTypes, PsmEnd
  <2>2. StatusTypes' BY <1>18 DEF StatusTypes, PsmEnd
  <2>3. MessageTypes' BY <1>18 DEF MessageTypes, PsmEnd, LocalTypes
  <2>4. CallTypes' BY <1>18 DEF CallTypes, PsmEnd, CallOK
  <2>5. LocalTypes' BY <1>18 DEF LocalTypes, PsmEnd, CallOK
  <2>6. BusTypes' BY <1>18 DEF BusTypes, PsmEnd, Unaddressed, Addressing
  <2>7. HostTypes' BY <1>18 DEF HostTypes, PsmEnd, LocalTypes
  <2> QED BY <2>1, <2>2, <2>3, <2>4, <2>5, <2>6, <2>7
<1>19. CASE PsmReturn
  <2>1. HostTypes' BY <1>19, PsmReturnTypes
  <2>2. FlagTypes' BY <1>19 DEF FlagTypes, PsmReturn
  <2>3. StatusTypes' BY <1>19 DEF StatusTypes, PsmReturn
  <2>4. MessageTypes' BY <1>19 DEF MessageTypes, PsmReturn, LocalTypes
  <2>5. CallTypes' BY <1>19 DEF CallTypes, PsmReturn, CallOK
  <2>6. LocalTypes' BY <1>19 DEF LocalTypes, PsmReturn, CallOK
  <2>7. BusTypes' BY <1>19 DEF BusTypes, PsmReturn, Unaddressed, Addressing
  <2> QED BY <2>1, <2>2, <2>3, <2>4, <2>5, <2>6, <2>7
<1>20. CASE PsmAnswerTop
  <2>1. FlagTypes' BY <1>20, AnswerTypes DEF PsmAnswerTop, PsmAnswerStatus
  <2>2. StatusTypes' BY <1>20, AnswerTypes DEF PsmAnswerTop, PsmAnswerStatus
  <2>3. MessageTypes' BY <1>20 DEF MessageTypes, PsmAnswerTop,
         PsmAnswerStatus, Respond, handle_control_Req_ReadStatusByte,
         SerialPoll, StatusRead, LocalTypes
  <2>4. CallTypes' BY <1>20 DEF CallTypes, PsmAnswerTop, PsmAnswerStatus,
         Respond, handle_control_Req_ReadStatusByte, SerialPoll, StatusRead,
         CallOK
  <2>5. LocalTypes' BY <1>20 DEF LocalTypes, PsmAnswerTop, PsmAnswerStatus,
         Respond, handle_control_Req_ReadStatusByte, SerialPoll, StatusRead,
         CallOK
  <2>6. BusTypes' BY <1>20 DEF BusTypes, PsmAnswerTop, PsmAnswerStatus,
         Respond, handle_control_Req_ReadStatusByte, SerialPoll, StatusRead,
         Unaddressed, Addressing
  <2>7. HostTypes' BY <1>20, AnswerTypes DEF HostTypes, PsmAnswerTop,
         PsmAnswerStatus, Respond, handle_control_Req_ReadStatusByte,
         SerialPoll, StatusRead, LocalTypes
  <2> QED BY <2>1, <2>2, <2>3, <2>4, <2>5, <2>6, <2>7
<1>21. CASE PsmAnswerLoop
  <2>1. FlagTypes' BY <1>21, AnswerTypes DEF PsmAnswerLoop, PsmAnswerStatus
  <2>2. StatusTypes' BY <1>21, AnswerTypes DEF PsmAnswerLoop, PsmAnswerStatus
  <2>3. MessageTypes' BY <1>21 DEF MessageTypes, PsmAnswerLoop,
         PsmAnswerStatus, Respond, handle_control_Req_ReadStatusByte,
         SerialPoll, StatusRead, LocalTypes
  <2>4. CallTypes' BY <1>21 DEF CallTypes, PsmAnswerLoop, PsmAnswerStatus,
         Respond, handle_control_Req_ReadStatusByte, SerialPoll, StatusRead,
         CallOK
  <2>5. LocalTypes' BY <1>21 DEF LocalTypes, PsmAnswerLoop, PsmAnswerStatus,
         Respond, handle_control_Req_ReadStatusByte, SerialPoll, StatusRead,
         CallOK
  <2>6. BusTypes' BY <1>21 DEF BusTypes, PsmAnswerLoop, PsmAnswerStatus,
         Respond, handle_control_Req_ReadStatusByte, SerialPoll, StatusRead,
         Unaddressed, Addressing
  <2>7. HostTypes' BY <1>21, AnswerTypes DEF HostTypes, PsmAnswerLoop,
         PsmAnswerStatus, Respond, handle_control_Req_ReadStatusByte,
         SerialPoll, StatusRead, LocalTypes
  <2> QED BY <2>1, <2>2, <2>3, <2>4, <2>5, <2>6, <2>7
<1>22. CASE PsmAnswerEnd
  <2>1. FlagTypes' BY <1>22, AnswerTypes DEF PsmAnswerEnd, PsmAnswerStatus
  <2>2. StatusTypes' BY <1>22, AnswerTypes DEF PsmAnswerEnd, PsmAnswerStatus
  <2>3. MessageTypes' BY <1>22 DEF MessageTypes, PsmAnswerEnd,
         PsmAnswerStatus, Respond, handle_control_Req_ReadStatusByte,
         SerialPoll, StatusRead, LocalTypes
  <2>4. CallTypes' BY <1>22 DEF CallTypes, PsmAnswerEnd, PsmAnswerStatus,
         Respond, handle_control_Req_ReadStatusByte, SerialPoll, StatusRead,
         CallOK
  <2>5. LocalTypes' BY <1>22 DEF LocalTypes, PsmAnswerEnd, PsmAnswerStatus,
         Respond, handle_control_Req_ReadStatusByte, SerialPoll, StatusRead,
         CallOK
  <2>6. BusTypes' BY <1>22 DEF BusTypes, PsmAnswerEnd, PsmAnswerStatus,
         Respond, handle_control_Req_ReadStatusByte, SerialPoll, StatusRead,
         Unaddressed, Addressing
  <2>7. HostTypes' BY <1>22, AnswerTypes DEF HostTypes, PsmAnswerEnd,
         PsmAnswerStatus, Respond, handle_control_Req_ReadStatusByte,
         SerialPoll, StatusRead, LocalTypes
  <2> QED BY <2>1, <2>2, <2>3, <2>4, <2>5, <2>6, <2>7
<1>23. CASE GnmLoop
  BY <1>23 DEF GnmLoop, FlagTypes, StatusTypes, MessageTypes, CallTypes,
     LocalTypes, BusTypes, HostTypes
<1>24. CASE GnmEnd
  BY <1>24 DEF GnmEnd, FlagTypes, StatusTypes, MessageTypes, CallTypes,
     LocalTypes, BusTypes, HostTypes
<1>25. CASE ReplyIn
  <2>1. MessageTypes' BY <1>25, ReplyInTypes
  <2>2. FlagTypes' BY <1>25 DEF FlagTypes, ReplyIn, TMC_resetstates,
         gpib_interface_clear
  <2>3. StatusTypes' BY <1>25 DEF StatusTypes, ReplyIn, TMC_resetstates,
         gpib_interface_clear
  <2>4. CallTypes' BY <1>25 DEF CallTypes, ReplyIn, TMC_resetstates,
         gpib_interface_clear, CallOK
  <2>5. LocalTypes' BY <1>25 DEF LocalTypes, ReplyIn, TMC_resetstates,
         gpib_interface_clear, CallOK
  <2>6. BusTypes' BY <1>25 DEF BusTypes, ReplyIn, TMC_resetstates,
         gpib_interface_clear, Unaddressed, Addressing
  <2>7. HostTypes' BY <1>25 DEF HostTypes, ReplyIn, TMC_resetstates,
         gpib_interface_clear, LocalTypes
  <2> QED BY <2>1, <2>2, <2>3, <2>4, <2>5, <2>6, <2>7
<1>26. CASE PollTimeout
  <2>1. CallTypes' /\ LocalTypes' /\ BusTypes' BY <1>26, PollTypes
  <2>2. FlagTypes' BY <1>26, RequestTypes DEF FlagTypes, PollTimeout
  <2>3. StatusTypes' BY <1>26, RequestTypes DEF StatusTypes, PollTimeout
  <2>4. MessageTypes' BY <1>26, RequestTypes DEF MessageTypes, PollTimeout
  <2>5. HostTypes' BY <1>26, RequestTypes DEF HostTypes, PollTimeout
  <2> QED BY <2>1, <2>2, <2>3, <2>4, <2>5
<1>27. CASE PollTimeoutReadStatusByte
  <2>1. CallTypes' /\ LocalTypes' /\ BusTypes' BY <1>27, PollStatusTypes
  <2>2. FlagTypes' BY <1>27, StatusNowTypes DEF FlagTypes,
         PollTimeoutReadStatusByte
  <2>3. StatusTypes' BY <1>27, StatusNowTypes DEF StatusTypes,
         PollTimeoutReadStatusByte
  <2>4. MessageTypes' BY <1>27, StatusNowTypes DEF MessageTypes,
         PollTimeoutReadStatusByte
  <2>5. HostTypes' BY <1>27, StatusNowTypes DEF HostTypes,
         PollTimeoutReadStatusByte
  <2> QED BY <2>1, <2>2, <2>3, <2>4, <2>5
<1>28. CASE CommandAccepted
  <2>1. BusTypes' /\ CallTypes' BY <1>28, CommandAcceptedTypes
  <2>2. FlagTypes' BY <1>28 DEF FlagTypes, CommandAccepted
  <2>3. StatusTypes' BY <1>28 DEF StatusTypes, CommandAccepted
  <2>4. MessageTypes' BY <1>28 DEF MessageTypes, CommandAccepted, LocalTypes
  <2>5. LocalTypes' BY <1>28 DEF LocalTypes, CommandAccepted, CallOK
  <2>6. HostTypes' BY <1>28 DEF HostTypes, CommandAccepted, LocalTypes
  <2> QED BY <2>1, <2>2, <2>3, <2>4, <2>5, <2>6
<1>29. CASE DataAccepted
  <2>1. BusTypes' BY <1>29, DataAcceptedTypes
  <2>2. FlagTypes' BY <1>29 DEF FlagTypes, DataAccepted
  <2>3. StatusTypes' BY <1>29 DEF StatusTypes, DataAccepted
  <2>4. MessageTypes' BY <1>29 DEF MessageTypes, DataAccepted, LocalTypes
  <2>5. CallTypes' BY <1>29 DEF CallTypes, DataAccepted, CallOK
  <2>6. LocalTypes' BY <1>29 DEF LocalTypes, DataAccepted, CallOK
  <2>7. HostTypes' BY <1>29 DEF HostTypes, DataAccepted, LocalTypes
  <2> QED BY <2>1, <2>2, <2>3, <2>4, <2>5, <2>6, <2>7
<1>30. CASE DataRead
  BY <1>30 DEF DataRead, CallOK, FlagTypes, StatusTypes, MessageTypes,
     CallTypes, LocalTypes, BusTypes, HostTypes
<1>31. CASE HostSend
  <2>1. FlagTypes' BY <1>31 DEF FlagTypes, HostSend
  <2>2. StatusTypes' BY <1>31 DEF StatusTypes, HostSend
  <2>3. MessageTypes' BY <1>31 DEF MessageTypes, HostSend, LocalTypes
  <2>4. CallTypes' BY <1>31 DEF CallTypes, HostSend, CallOK
  <2>5. LocalTypes' BY <1>31 DEF LocalTypes, HostSend, CallOK
  <2>6. BusTypes' BY <1>31 DEF BusTypes, HostSend, Unaddressed, Addressing
  <2>7. HostTypes' BY <1>31, HostSendTypes
  <2> QED BY <2>1, <2>2, <2>3, <2>4, <2>5, <2>6, <2>7
<1>32. CASE HostContinue
  <2>1. FlagTypes' BY <1>32 DEF FlagTypes, HostContinue
  <2>2. StatusTypes' BY <1>32 DEF StatusTypes, HostContinue
  <2>3. MessageTypes' BY <1>32 DEF MessageTypes, HostContinue, LocalTypes
  <2>4. CallTypes' BY <1>32 DEF CallTypes, HostContinue, CallOK
  <2>5. LocalTypes' BY <1>32 DEF LocalTypes, HostContinue, CallOK
  <2>6. BusTypes' BY <1>32 DEF BusTypes, HostContinue, Unaddressed, Addressing
  <2>7. HostTypes' BY <1>32, HostContinueTypes
  <2> QED BY <2>1, <2>2, <2>3, <2>4, <2>5, <2>6, <2>7
<1>33. CASE HostRequest
  <2>1. FlagTypes' BY <1>33 DEF FlagTypes, HostRequest
  <2>2. StatusTypes' BY <1>33 DEF StatusTypes, HostRequest
  <2>3. MessageTypes' BY <1>33 DEF MessageTypes, HostRequest, LocalTypes
  <2>4. CallTypes' BY <1>33 DEF CallTypes, HostRequest, CallOK
  <2>5. LocalTypes' BY <1>33 DEF LocalTypes, HostRequest, CallOK
  <2>6. BusTypes' BY <1>33 DEF BusTypes, HostRequest, Unaddressed, Addressing
  <2>7. HostTypes' BY <1>33, HostRequestTypes
  <2> QED BY <2>1, <2>2, <2>3, <2>4, <2>5, <2>6, <2>7
<1>34. CASE HostCheck
  <2>1. FlagTypes' BY <1>34 DEF FlagTypes, HostCheck, CheckFor, Initiates,
         Checks, AllRequests
  <2>2. StatusTypes' BY <1>34 DEF StatusTypes, HostCheck, CheckFor, Initiates,
         Checks, AllRequests
  <2>3. MessageTypes' BY <1>34 DEF MessageTypes, HostCheck, CheckFor,
         Initiates, Checks, AllRequests, LocalTypes
  <2>4. CallTypes' BY <1>34 DEF CallTypes, HostCheck, CheckFor, Initiates,
         Checks, AllRequests, CallOK
  <2>5. LocalTypes' BY <1>34 DEF LocalTypes, HostCheck, CheckFor, Initiates,
         Checks, AllRequests, CallOK
  <2>6. BusTypes' BY <1>34 DEF BusTypes, HostCheck, CheckFor, Initiates,
         Checks, AllRequests, Unaddressed, Addressing
  <2>7. HostTypes' BY <1>34 DEF HostTypes, HostCheck, CheckFor, Initiates,
         Checks, AllRequests, LocalTypes, FlagTypes
  <2> QED BY <2>1, <2>2, <2>3, <2>4, <2>5, <2>6, <2>7
<1>35. CASE HostCancel
  BY <1>35 DEF HostCancel, FlagTypes, StatusTypes, MessageTypes, CallTypes,
     LocalTypes, BusTypes, HostTypes
<1>36. CASE InstrumentRaises
  <2>1. FlagTypes' BY <1>36 DEF FlagTypes, InstrumentRaises
  <2>2. StatusTypes' BY <1>36, InstrumentRaisesTypes
  <2>3. MessageTypes' BY <1>36 DEF MessageTypes, InstrumentRaises, LocalTypes
  <2>4. CallTypes' BY <1>36 DEF CallTypes, InstrumentRaises, CallOK
  <2>5. LocalTypes' BY <1>36 DEF LocalTypes, InstrumentRaises, CallOK
  <2>6. BusTypes' BY <1>36 DEF BusTypes, InstrumentRaises, Unaddressed,
         Addressing
  <2>7. HostTypes' BY <1>36 DEF HostTypes, InstrumentRaises, LocalTypes
  <2> QED BY <2>1, <2>2, <2>3, <2>4, <2>5, <2>6, <2>7
<1>37. CASE InstrumentAnswers
  BY <1>37, InstrumentAssumption DEF InstrumentAnswers, FlagTypes,
     StatusTypes, MessageTypes, CallTypes, LocalTypes, BusTypes, HostTypes
<1>38. CASE UNCHANGED vars
  BY <1>38 DEF vars, FlagTypes, StatusTypes, MessageTypes, CallTypes,
     LocalTypes, BusTypes, HostTypes
<1> QED
  BY <1>1, <1>2, <1>3, <1>4, <1>5, <1>6, <1>7, <1>8, <1>9, <1>10,
     <1>11, <1>12, <1>13, <1>14, <1>15, <1>16, <1>17, <1>18, <1>19, <1>20,
     <1>21, <1>22, <1>23, <1>24, <1>25, <1>26, <1>27, <1>28, <1>29, <1>30,
     <1>31, <1>32, <1>33, <1>34, <1>35, <1>36, <1>37, <1>38
  DEF Next, Firmware, Handshakes, Host, Instrument, Waiting, Transfer, Task
=============================================================================
