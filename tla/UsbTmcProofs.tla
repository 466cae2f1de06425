---------------------------- MODULE UsbTmcProofs ----------------------------
(***************************************************************************)
(* Theorems about UsbTmc for every chunk size, message size, host and      *)
(* instrument: type correctness, and that a write message arrives          *)
(* completely at an instrument that listens to all of it, whatever status  *)
(* requests are answered in between (WriteReachesListener and              *)
(* MessageDelivered).                                                      *)
(*                                                                         *)
(* Why Structure is inductive: a status request is only polled on the bus  *)
(* inside a handshake when gpib_write_is_busy is false, and BusyOK says it *)
(* is true in every handshake of a write; each poll between two bytes is   *)
(* followed by make_listener (ListenOK); lastmessage, s_remaining_bytes_   *)
(* receive and TMC_LastMessageComplete agree (RemainingOK), so that the    *)
(* byte count of CountOK closes over packet boundaries; and an abort flag  *)
(* only falls in FinishTask, which leaves nothing to be received.          *)
(***************************************************************************)
EXTENDS UsbTmcTypes

(* The frame tuples again, for the proofs of this module.                  *)
USE DEF abortVars, handleVars, statusVars, messageVars, internalVars, callVars,
        localVars, busVars, eventVars, deliveryVars, hostVars, ctlVars,
        transferVars, hostFrame, InsideTransfer

(* The static initializers satisfy the invariant: nothing is under way.    *)
LEMMA InitInvariant == Init => IInv
<1>1. Init => TypeOK
  <2> SUFFICES ASSUME Init PROVE TypeOK OBVIOUS
  <2>1. FlagTypes BY DEF Init, FlagTypes
  <2>2. StatusTypes BY InstrumentAssumption DEF Init, StatusTypes
  <2>3. MessageTypes BY DEF Init, MessageTypes
  <2>4. CallTypes BY DEF Init, CallTypes, Labels, TaskLabels
  <2>5. LocalTypes BY DEF Init, LocalTypes
  <2>6. BusTypes BY DEF Init, BusTypes, Addressing
  <2>7. <<>> \in Seq(Packets) OBVIOUS
  <2>8. HostTypes BY <2>7 DEF Init, HostTypes
  <2> QED BY <2>1, <2>2, <2>3, <2>4, <2>5, <2>6, <2>8 DEF TypeOK
<1>2. Init => Structure
  BY DEF Init, Structure, CallOK, ShortInternalCommands, RemainingOK, BusyOK,
     TimeoutOK, ListenOK, CountOK, PsmLabels, GnmLabels, Aborting, Site,
     WritingSites, EndingSites
<1> QED BY <1>1, <1>2 DEF IInv

(* A control request never lowers an abort flag.                           *)
LEMMA RequestKeepsAborting ==
  ASSUME TypeOK, FlagRequest \/ NoRequest
  PROVE  Aborting => Aborting'
BY DEF TypeOK, FlagTypes, Aborting, FlagRequest, NoRequest,
       InitiateAbortBulkOut, InitiateAbortBulkIn, InitiateClear,
       CheckAbortBulkOutStatus, CheckAbortBulkInStatus, CheckClearStatus,
       CheckStatus, AcceptAbort, IndicatorPulse, AskTask, RenControl,
       LocalLockout, GoToLocal, DeferReadStatusByte

(* DeviceOut: the first packet of a write starts with all its bytes to     *)
(* come, at make_listener; an internal command is complete.                *)
LEMMA DeviceOutStep == ASSUME IInv, DeviceOut PROVE Structure'
<1> USE DEF Structure, IInv, TypeOK, FlagTypes, StatusTypes, MessageTypes,
        CallTypes, LocalTypes, BusTypes, HostTypes, CallOK,
        ShortInternalCommands, RemainingOK, BusyOK, TimeoutOK, ListenOK,
        CountOK, Labels, TaskLabels, PsmLabels, GnmLabels, BusFns,
        AddressingFns, Unaddressed, Addressing, Aborting, Site, WritingSites,
        EndingSites, MessageEnds, WriteContinues, gpib_interface_clear,
        FlushOutBanks
<1> DEFINE packet == Head(outq)
           curlen == LesserOf(FirstChunk, packet.size)
<1>1. CASE InternalCommand(TMC_LastMessageComplete, packet)
  BY <1>1, PacketFacts, ChunkAssumption
  DEF DeviceOut, Header, ProcessSentMessage, InternalCommand, Goto, LesserOf
<1>2. CASE /\ ~InternalCommand(TMC_LastMessageComplete, packet)
           /\ TMC_LastMessageComplete
  <2>1. pc' = "bus" /\ ret' = "psm_top"
    BY <1>2 DEF DeviceOut, ProcessSentMessage, Call
  <2>2. packet.size \in Nat BY PacketFacts DEF DeviceOut, Header
  <2>3. /\ lastmessage' = (curlen = packet.size)
        /\ s_remaining_bytes_receive' = packet.size - curlen
    BY DEF DeviceOut
  <2>4. lastmessage' <=> s_remaining_bytes_receive' = 0
    BY <2>2, <2>3, LesserFacts, ChunkAssumption
  <2>11. CallOK' BY <1>2, PacketFacts, ChunkAssumption DEF DeviceOut, Header,
       ProcessSentMessage, Call, Goto, LesserOf
  <2>12. ShortInternalCommands' BY <1>2, PacketFacts, ChunkAssumption DEF
       DeviceOut, Header, ProcessSentMessage, Call, Goto, LesserOf
  <2>13. RemainingOK' BY <2>1, <2>4
  <2>14. BusyOK' BY <1>2, PacketFacts, ChunkAssumption DEF DeviceOut, Header,
       ProcessSentMessage, Call, Goto, LesserOf
  <2>15. TimeoutOK' BY <1>2, PacketFacts, ChunkAssumption DEF DeviceOut,
       Header, ProcessSentMessage, Call, Goto, LesserOf
  <2>16. ListenOK' BY <1>2, PacketFacts, ChunkAssumption DEF DeviceOut,
       Header, ProcessSentMessage, Call, Goto, LesserOf
  <2>17. CountOK' BY <1>2, PacketFacts, ChunkAssumption DEF DeviceOut, Header,
       ProcessSentMessage, Call, Goto, LesserOf
  <2> QED BY <2>11, <2>12, <2>13, <2>14, <2>15, <2>16, <2>17
<1>3. CASE ~TMC_LastMessageComplete
  BY <1>3, PacketFacts, ChunkAssumption
  DEF DeviceOut, Header, ProcessSentMessage, InternalCommand, Call, Goto,
      LesserOf
<1> QED BY <1>1, <1>2, <1>3

(* PsmEnd: gpib_write_is_busy becomes ~lastmessage, what BusyOK asks of    *)
(* the places where ProcessSentMessage ends.                               *)
LEMMA PsmEndStep == ASSUME IInv, PsmEnd PROVE Structure'
<1> USE DEF Structure, IInv, TypeOK, FlagTypes, StatusTypes, MessageTypes,
        CallTypes, LocalTypes, BusTypes, HostTypes, CallOK,
        ShortInternalCommands, RemainingOK, BusyOK, TimeoutOK, ListenOK,
        CountOK, Labels, TaskLabels, PsmLabels, GnmLabels, BusFns,
        AddressingFns, Unaddressed, Addressing, Aborting, Site, WritingSites,
        EndingSites, MessageEnds, WriteContinues, gpib_interface_clear,
        FlushOutBanks
<1>1. CallOK' BY DEF PsmEnd, Call, Goto
<1>2. ShortInternalCommands' BY DEF PsmEnd, Call, Goto
<1>3. RemainingOK' BY DEF PsmEnd, Call, Goto
<1>4. BusyOK' BY DEF PsmEnd, Call, Goto
<1>5. TimeoutOK' BY DEF PsmEnd, Call, Goto
<1>6. ListenOK' BY DEF PsmEnd, Call, Goto
<1>7. CountOK' BY DEF PsmEnd, Call, Goto
<1> QED BY <1>1, <1>2, <1>3, <1>4, <1>5, <1>6, <1>7

(* PollTimeout: the handshake is given up only with an abort flag up, and  *)
(* then the invariant asks nothing of the message.                         *)
LEMMA PollStep == ASSUME IInv, PollTimeout PROVE Structure'
<1>1. Aborting => Aborting'
  BY RequestKeepsAborting DEF PollTimeout, IInv
<1>2. pc = "bus" /\ UNCHANGED messageVars /\ UNCHANGED outq BY DEF PollTimeout
<1>3. CASE Aborting' /\ TimedOut
  <2> USE DEF Structure, IInv, TypeOK, FlagTypes, StatusTypes, MessageTypes,
          CallTypes, LocalTypes, BusTypes, HostTypes, CallOK,
          ShortInternalCommands, RemainingOK, BusyOK, TimeoutOK, ListenOK,
          CountOK, Labels, TaskLabels, PsmLabels, GnmLabels, BusFns,
          AddressingFns, Unaddressed, Addressing, Aborting, Site, WritingSites,
          EndingSites, MessageEnds, WriteContinues, gpib_interface_clear,
          FlushOutBanks
  <2>1. CallOK' BY <1>1, <1>2, <1>3 DEF TimedOut, Return, Result
  <2>2. ShortInternalCommands' BY <1>1, <1>2, <1>3 DEF TimedOut, Return,
       Result
  <2>3. RemainingOK' BY <1>1, <1>2, <1>3 DEF TimedOut, Return, Result
  <2>4. BusyOK' BY <1>1, <1>2, <1>3 DEF TimedOut, Return, Result
  <2>5. TimeoutOK' BY <1>1, <1>2, <1>3 DEF TimedOut, Return, Result
  <2>6. ListenOK' BY <1>1, <1>2, <1>3 DEF TimedOut, Return, Result
  <2>7. CountOK' BY <1>1, <1>2, <1>3 DEF TimedOut, Return, Result
  <2> QED BY <2>1, <2>2, <2>3, <2>4, <2>5, <2>6, <2>7
<1>4. CASE ~Aborting' /\ KeepsWaiting /\ UNCHANGED <<byte, busVars>>
  <2> USE DEF Structure, IInv, TypeOK, FlagTypes, StatusTypes, MessageTypes,
          CallTypes, LocalTypes, BusTypes, HostTypes, CallOK,
          ShortInternalCommands, RemainingOK, BusyOK, TimeoutOK, ListenOK,
          CountOK, Labels, TaskLabels, PsmLabels, GnmLabels, BusFns,
          AddressingFns, Unaddressed, Addressing, Aborting, Site, WritingSites,
          EndingSites, MessageEnds, WriteContinues, gpib_interface_clear,
          FlushOutBanks
  <2>1. CallOK' BY <1>1, <1>2, <1>4 DEF KeepsWaiting
  <2>2. ShortInternalCommands' BY <1>1, <1>2, <1>4 DEF KeepsWaiting
  <2>3. RemainingOK' BY <1>1, <1>2, <1>4 DEF KeepsWaiting
  <2>4. BusyOK' BY <1>1, <1>2, <1>4 DEF KeepsWaiting
  <2>5. TimeoutOK' BY <1>1, <1>2, <1>4 DEF KeepsWaiting
  <2>6. ListenOK' BY <1>1, <1>2, <1>4 DEF KeepsWaiting
  <2>7. CountOK' BY <1>1, <1>2, <1>4 DEF KeepsWaiting
  <2> QED BY <2>1, <2>2, <2>3, <2>4, <2>5, <2>6, <2>7
<1> QED BY <1>3, <1>4 DEF PollTimeout, AbortPending, Aborting

(* CommandAccepted: make_listener ends with the instrument's listen        *)
(* address, so it returns with a listener; the other two functions are not *)
(* called where one is needed.                                             *)
LEMMA CommandStep == ASSUME IInv, CommandAccepted PROVE Structure'
<1>1. pc = "bus" /\ fn \in AddressingFns /\ ~Aborting
  BY DEF CommandAccepted
<1>2. addr' = IF byte = "good" THEN Hear(CommandsOf(fn)[k], addr) ELSE addr
  BY DEF CommandAccepted
<1>3. UNCHANGED <<messageVars, outq, rx, rxEoi, msgsize, Length, lastmessage,
                  IsTMCBulkOUTReset, IsTMCBulkINReset>>
  BY DEF CommandAccepted
<1>4. CASE k < Len(CommandsOf(fn))
  <2>1. UNCHANGED <<pc, fn, ret, timedout>> /\ byte' = "good"
    BY <1>4 DEF CommandAccepted
  <2>2. k' = k + 1 /\ k' \in 1..Len(CommandsOf(fn))
    BY <1>4 DEF CommandAccepted, IInv, Structure, CallOK, CommandsOf,
       make_listener,
       make_talker, untalk_unlisten, AddressingFns, TypeOK, CallTypes
  <2>3. CallOK'
    BY <1>1, <1>3, <2>1, <2>2
    DEF IInv, Structure, CallOK, CommandsOf, make_listener, make_talker,
        untalk_unlisten, AddressingFns, Site, PsmLabels
  <2> USE DEF Structure, IInv, TypeOK, FlagTypes, StatusTypes, MessageTypes,
          CallTypes, LocalTypes, BusTypes, HostTypes, CallOK,
          ShortInternalCommands, RemainingOK, BusyOK, TimeoutOK, ListenOK,
          CountOK, Labels, TaskLabels, PsmLabels, GnmLabels, BusFns,
          AddressingFns, Unaddressed, Addressing, Aborting, Site, WritingSites,
          EndingSites, MessageEnds, WriteContinues, gpib_interface_clear,
          FlushOutBanks
  <2>11. CallOK' BY <2>3
  <2>12. ShortInternalCommands' BY <1>1, <1>3, <2>1
  <2>13. RemainingOK' BY <1>1, <1>3, <2>1
  <2>14. BusyOK' BY <1>1, <1>3, <2>1
  <2>15. TimeoutOK' BY <1>1, <1>3, <2>1
  <2>16. ListenOK' BY <1>1, <1>3, <2>1
  <2>17. CountOK' BY <1>1, <1>3, <2>1
  <2> QED BY <2>11, <2>12, <2>13, <2>14, <2>15, <2>16, <2>17
<1>5. CASE ~(k < Len(CommandsOf(fn)))
  <2>1. Return BY <1>5 DEF CommandAccepted
  <2>2. timedout' = IF fn = "untalk_unlisten" THEN timedout ELSE FALSE
    BY <1>5 DEF CommandAccepted, Result
  <2>3. fn = "make_listener" /\ byte = "good" => addr' = "listen"
    <3>1. SUFFICES ASSUME fn = "make_listener", byte = "good"
                   PROVE  addr' = "listen"
      OBVIOUS
    <3>2. k = 4
      BY <1>1, <1>5, <3>1 DEF IInv, Structure, CallOK, CommandsOf,
         make_listener
    <3>3. CommandsOf(fn)[4] = "LAG" BY <3>1 DEF CommandsOf, make_listener
    <3> QED BY <1>2, <3>1, <3>2, <3>3 DEF Hear
  <2> USE DEF Structure, IInv, TypeOK, FlagTypes, StatusTypes, MessageTypes,
          CallTypes, LocalTypes, BusTypes, HostTypes, CallOK,
          ShortInternalCommands, RemainingOK, BusyOK, TimeoutOK, ListenOK,
          CountOK, Labels, TaskLabels, PsmLabels, GnmLabels, BusFns,
          AddressingFns, Unaddressed, Addressing, Aborting, Site, WritingSites,
          EndingSites, MessageEnds, WriteContinues, gpib_interface_clear,
          FlushOutBanks
  <2>11. CallOK' BY <1>1, <1>3, <2>1, <2>2, <2>3 DEF Return
  <2>12. ShortInternalCommands' BY <1>1, <1>3, <2>1, <2>2, <2>3 DEF Return
  <2>13. RemainingOK' BY <1>1, <1>3, <2>1, <2>2, <2>3 DEF Return
  <2>14. BusyOK' BY <1>1, <1>3, <2>1, <2>2, <2>3 DEF Return
  <2>15. TimeoutOK' BY <1>1, <1>3, <2>1, <2>2, <2>3 DEF Return
  <2>16. ListenOK' BY <1>1, <1>3, <2>1, <2>2, <2>3 DEF Return
  <2>17. CountOK' BY <1>1, <1>3, <2>1, <2>2, <2>3 DEF Return
  <2> QED BY <2>11, <2>12, <2>13, <2>14, <2>15, <2>16, <2>17
<1> QED BY <1>4, <1>5

(* DataAccepted: a byte goes from the packet to the listener; EOI goes     *)
(* with the last one of an end-of-message transfer.                        *)
LEMMA DataStep == ASSUME IInv, DataAccepted PROVE Structure'
<1> USE DEF Structure, IInv, TypeOK, FlagTypes, StatusTypes, MessageTypes,
        CallTypes, LocalTypes, BusTypes, HostTypes, CallOK,
        ShortInternalCommands, RemainingOK, BusyOK, TimeoutOK, ListenOK,
        CountOK, Labels, TaskLabels, PsmLabels, GnmLabels, BusFns,
        AddressingFns, Unaddressed, Addressing, Aborting, Site, WritingSites,
        EndingSites, MessageEnds, WriteContinues, gpib_interface_clear,
        FlushOutBanks
<1>1. CASE addr = "listen" /\ byte = "good"
  <2>1. CallOK' BY <1>1 DEF DataAccepted, Return, Result
  <2>2. ShortInternalCommands' BY <1>1 DEF DataAccepted, Return, Result
  <2>3. RemainingOK' BY <1>1 DEF DataAccepted, Return, Result
  <2>4. BusyOK' BY <1>1 DEF DataAccepted, Return, Result
  <2>5. TimeoutOK' BY <1>1 DEF DataAccepted, Return, Result
  <2>6. ListenOK' BY <1>1 DEF DataAccepted, Return, Result
  <2>7. CountOK'
    BY <1>1 DEF DataAccepted, InstrumentHears, EndsMessage, Return, Result
  <2> QED BY <2>1, <2>2, <2>3, <2>4, <2>5, <2>6, <2>7
<1>2. CASE ~(addr = "listen" /\ byte = "good")
  <2>1. CallOK' BY <1>2 DEF DataAccepted, Return, Result
  <2>2. ShortInternalCommands' BY <1>2 DEF DataAccepted, Return, Result
  <2>3. RemainingOK' BY <1>2 DEF DataAccepted, Return, Result
  <2>4. BusyOK' BY <1>2 DEF DataAccepted, Return, Result
  <2>5. TimeoutOK' BY <1>2 DEF DataAccepted, Return, Result
  <2>6. ListenOK' BY <1>2 DEF DataAccepted, Return, Result
  <2>7. CountOK' BY <1>2 DEF DataAccepted, Return, Result
  <2> QED BY <2>1, <2>2, <2>3, <2>4, <2>5, <2>6, <2>7
<1> QED BY <1>1, <1>2

(* FinishTask: an abort leaves nothing to be received and nobody           *)
(* addressed; without one nothing changes.                                 *)
LEMMA FinishStep == ASSUME IInv, FinishTask PROVE Structure'
<1> USE DEF Structure, IInv, TypeOK, FlagTypes, StatusTypes, MessageTypes,
        CallTypes, LocalTypes, BusTypes, HostTypes, CallOK,
        ShortInternalCommands, RemainingOK, BusyOK, TimeoutOK, ListenOK,
        CountOK, Labels, TaskLabels, PsmLabels, GnmLabels, BusFns,
        AddressingFns, Unaddressed, Addressing, Aborting, Site, WritingSites,
        EndingSites, MessageEnds, WriteContinues, gpib_interface_clear,
        FlushOutBanks
<1>1. CASE Aborting
  <2>1. CallOK' BY <1>1 DEF FinishTask, Goto, TMC_resetstates
  <2>2. ShortInternalCommands' BY <1>1 DEF FinishTask, Goto, TMC_resetstates
  <2>3. RemainingOK' BY <1>1 DEF FinishTask, Goto, TMC_resetstates
  <2>4. BusyOK' BY <1>1 DEF FinishTask, Goto, TMC_resetstates
  <2>5. TimeoutOK' BY <1>1 DEF FinishTask, Goto, TMC_resetstates
  <2>6. ListenOK' BY <1>1 DEF FinishTask, Goto, TMC_resetstates
  <2>7. CountOK' BY <1>1 DEF FinishTask, Goto, TMC_resetstates
  <2> QED BY <2>1, <2>2, <2>3, <2>4, <2>5, <2>6, <2>7
<1>2. CASE ~Aborting
  BY <1>2 DEF FinishTask, Goto
<1> QED BY <1>1, <1>2

(* Every step keeps the structure of the transfers, one case per action.   *)
LEMMA StructureStep == ASSUME IInv, [Next]_vars PROVE Structure'
<1> USE DEF Structure, IInv, TypeOK, FlagTypes, StatusTypes, MessageTypes,
        CallTypes, LocalTypes, BusTypes, HostTypes, CallOK,
        ShortInternalCommands, RemainingOK, BusyOK, TimeoutOK, ListenOK,
        CountOK, Labels, TaskLabels, PsmLabels, GnmLabels, BusFns,
        AddressingFns, Unaddressed, Addressing, Aborting, Site, WritingSites,
        EndingSites, MessageEnds, WriteContinues, gpib_interface_clear,
        FlushOutBanks
<1>1. CASE UsbTask
  BY <1>1 DEF UsbTask, FlagRequest, NoRequest, InitiateAbortBulkOut,
     InitiateAbortBulkIn, InitiateClear, CheckAbortBulkOutStatus,
     CheckAbortBulkInStatus, CheckClearStatus, CheckStatus, AcceptAbort,
     IndicatorPulse, AskTask, RenControl, LocalLockout, GoToLocal,
     DeferReadStatusByte, ReadStatusByteNow,
     handle_control_Req_ReadStatusByte, SerialPoll, StatusRead
<1>2. CASE ServiceRequest
  BY <1>2 DEF ServiceRequest, Goto, SerialPoll, StatusRead
<1>3. CASE SelectiveDeviceClear
  BY <1>3 DEF SelectiveDeviceClear, Goto, AddressedCommand
<1>4. CASE SendLocalLockout
  BY <1>4 DEF SendLocalLockout, Goto
<1>5. CASE GotoLocalAndRen
  BY <1>5 DEF GotoLocalAndRen, Goto, TransfersComplete
<1>6. CASE NoHeader
  BY <1>6 DEF NoHeader, Goto
<1>7. CASE UnknownMessage
  BY <1>7 DEF UnknownMessage, Goto, Header
<1>8. CASE Trigger
  BY <1>8, PacketFacts DEF Trigger, Goto, Header, AddressedCommand
<1>9. CASE DeviceOut BY <1>9, DeviceOutStep
<1>10. CASE ReceiveMore
  BY <1>10, PacketFacts, ChunkAssumption DEF ReceiveMore, ProcessSentMessage,
     InternalCommand, Call, Goto, LesserOf
<1>11. CASE DeviceIn
  BY <1>11, PacketFacts, ChunkAssumption DEF DeviceIn, Header, GetNextMessage,
     Call, Goto, LesserOf
<1>12. CASE NotifyStatusByte
  BY <1>12 DEF NotifyStatusByte, Goto
<1>13. CASE FinishTask BY <1>13, FinishStep
<1>14. CASE PsmTop
  BY <1>14 DEF PsmTop, Call, Goto
<1>15. CASE PsmLoop
  BY <1>15 DEF PsmLoop, Call, Goto
<1>16. CASE PsmWrite
  BY <1>16 DEF PsmWrite, Call
<1>17. CASE PsmUntalk
  BY <1>17 DEF PsmUntalk, Call, Goto
<1>18. CASE PsmEnd BY <1>18, PsmEndStep
<1>19. CASE PsmReturn
  BY <1>19, PacketFacts DEF PsmReturn, Goto
<1>20. CASE PsmAnswerTop
  BY <1>20 DEF PsmAnswerTop, PsmAnswerStatus, Call, ReadStatusByteNow,
     handle_control_Req_ReadStatusByte, SerialPoll, StatusRead
<1>21. CASE PsmAnswerLoop
  BY <1>21 DEF PsmAnswerLoop, PsmAnswerStatus, Call, ReadStatusByteNow,
     handle_control_Req_ReadStatusByte, SerialPoll, StatusRead
<1>22. CASE PsmAnswerEnd
  BY <1>22 DEF PsmAnswerEnd, PsmAnswerStatus, Call, Goto, ReadStatusByteNow,
     handle_control_Req_ReadStatusByte, SerialPoll, StatusRead
<1>23. CASE GnmLoop
  BY <1>23 DEF GnmLoop, Call, Goto
<1>24. CASE GnmEnd
  BY <1>24 DEF GnmEnd, Call, Goto
<1>25. CASE ReplyIn
  BY <1>25 DEF ReplyIn, Goto, TMC_resetstates
<1>26. CASE PollTimeout BY <1>26, PollStep
<1>27. CASE PollTimeoutReadStatusByte
  BY <1>27 DEF PollTimeoutReadStatusByte, TimedOut, Return, Result,
     KeepsWaiting, ReadStatusByteNow, handle_control_Req_ReadStatusByte,
     SerialPoll, StatusRead
<1>28. CASE CommandAccepted BY <1>28, CommandStep
<1>29. CASE DataAccepted BY <1>29, DataStep
<1>30. CASE DataRead
  BY <1>30 DEF DataRead, Return, Result
<1>31. CASE HostSend
  BY <1>31 DEF HostSend, MayStartMessage, Packet
<1>32. CASE HostContinue
  BY <1>32, ChunkAssumption DEF HostContinue, LesserOf
<1>33. CASE HostRequest
  BY <1>33 DEF HostRequest
<1>34. CASE HostCheck
  BY <1>34 DEF HostCheck
<1>35. CASE HostCancel
  BY <1>35 DEF HostCancel
<1>36. CASE InstrumentRaises
  BY <1>36 DEF InstrumentRaises
<1>37. CASE InstrumentAnswers
  BY <1>37 DEF InstrumentAnswers
<1>38. CASE UNCHANGED vars BY <1>38 DEF vars
<1> QED
  BY <1>1, <1>2, <1>3, <1>4, <1>5, <1>6, <1>7, <1>8, <1>9, <1>10,
     <1>11, <1>12, <1>13, <1>14, <1>15, <1>16, <1>17, <1>18, <1>19, <1>20,
     <1>21, <1>22, <1>23, <1>24, <1>25, <1>26, <1>27, <1>28, <1>29, <1>30,
     <1>31, <1>32, <1>33, <1>34, <1>35, <1>36, <1>37, <1>38
  DEF Next, Firmware, Handshakes, Host, Instrument, Waiting, Transfer, Task

-----------------------------------------------------------------------------
(* THEOREMS                                                                *)

(* IInv holds at every moment of every behaviour: it is true of the        *)
(* static initializers and every step of the firmware, of the handshakes,  *)
(* of the host and of the instrument keeps it.                             *)
THEOREM Inductive == Spec => []IInv
<1>1. Init => IInv BY InitInvariant
<1>2. IInv /\ [Next]_vars => IInv'
  <2>1. SUFFICES ASSUME IInv, [Next]_vars PROVE IInv' OBVIOUS
  <2>2. TypeOK' BY <2>1, TypeStep DEF IInv, Structure
  <2>3. Structure' BY <2>1, StructureStep
  <2> QED BY <2>2, <2>3 DEF IInv
<1> QED BY <1>1, <1>2, PTL DEF Spec

(* Every variable of the firmware stays in its type: no counter of a       *)
(* transfer (s_remaining_bytes_receive, Length, internal_response) goes    *)
(* below zero, and a GPIB function always returns to a place in the code.  *)
THEOREM TypeCorrect == Spec => []TypeOK
<1>1. IInv => TypeOK BY DEF IInv
<1> QED BY <1>1, Inductive, PTL

(* A data byte on the bus always has a listener and an undisturbed         *)
(* handshake unless an abort is pending: ProcessSentMessage answers status *)
(* requests only where it can address the instrument again.                *)
THEOREM WriteSafe == Spec => []WriteReachesListener
<1>1. IInv => WriteReachesListener
  BY DEF IInv, Structure, WriteReachesListener, ListenOK, BusyOK,
     CallOK, PsmLabels
<1> QED BY <1>1, Inductive, PTL

(* A message that is not aborted arrives completely: when                  *)
(* ProcessSentMessage is done with its last packet the instrument has      *)
(* accepted every byte once, and EOI with the last byte.                   *)
THEOREM Delivered == Spec => []MessageDelivered
<1>1. IInv => MessageDelivered
  BY DEF IInv, Structure, MessageDelivered, RemainingOK, CountOK, Site,
     PsmLabels, EndingSites, TypeOK, MessageTypes, BusTypes
<1> QED BY <1>1, Inductive, PTL

-----------------------------------------------------------------------------
(* Only a status request, a service request and the instrument change the  *)
(* status that is kept anywhere.                                           *)
LEMMA StatusSteps ==
  ASSUME [Next]_vars
  PROVE  \/ UNCHANGED <<stb, srq_statusbyte, told, raised>>
         \/ handle_control_Req_ReadStatusByte /\ UNCHANGED raised
         \/ ServiceRequest \/ InstrumentRaises
<1>1. CASE UsbTask
  BY <1>1
  DEF UsbTask, ReadStatusByteNow, FlagRequest, NoRequest, InitiateAbortBulkOut,
      InitiateAbortBulkIn, InitiateClear, CheckAbortBulkOutStatus,
      CheckAbortBulkInStatus, CheckClearStatus, CheckStatus, AcceptAbort,
      IndicatorPulse, AskTask, RenControl, LocalLockout, GoToLocal,
      DeferReadStatusByte
<1>2. CASE ServiceRequest
  BY <1>2
<1>3. CASE SelectiveDeviceClear BY <1>3 DEF SelectiveDeviceClear
<1>4. CASE SendLocalLockout BY <1>4 DEF SendLocalLockout
<1>5. CASE GotoLocalAndRen BY <1>5 DEF GotoLocalAndRen
<1>6. CASE NoHeader BY <1>6 DEF NoHeader
<1>7. CASE UnknownMessage
  BY <1>7 DEF UnknownMessage, Header
<1>8. CASE Trigger
  BY <1>8 DEF Trigger, Header
<1>9. CASE DeviceOut BY <1>9 DEF DeviceOut
<1>10. CASE ReceiveMore BY <1>10 DEF ReceiveMore
<1>11. CASE DeviceIn BY <1>11 DEF DeviceIn
<1>12. CASE NotifyStatusByte BY <1>12 DEF NotifyStatusByte
<1>13. CASE FinishTask BY <1>13 DEF FinishTask
<1>14. CASE PsmTop BY <1>14 DEF PsmTop
<1>15. CASE PsmLoop BY <1>15 DEF PsmLoop
<1>16. CASE PsmWrite BY <1>16 DEF PsmWrite
<1>17. CASE PsmUntalk BY <1>17 DEF PsmUntalk
<1>18. CASE PsmEnd BY <1>18 DEF PsmEnd
<1>19. CASE PsmReturn BY <1>19 DEF PsmReturn
<1>20. CASE PsmAnswerTop
  BY <1>20 DEF PsmAnswerTop, PsmAnswerStatus
<1>21. CASE PsmAnswerLoop
  BY <1>21 DEF PsmAnswerLoop, PsmAnswerStatus
<1>22. CASE PsmAnswerEnd
  BY <1>22 DEF PsmAnswerEnd, PsmAnswerStatus
<1>23. CASE GnmLoop BY <1>23 DEF GnmLoop
<1>24. CASE GnmEnd BY <1>24 DEF GnmEnd
<1>25. CASE ReplyIn BY <1>25 DEF ReplyIn
<1>26. CASE PollTimeout
  BY <1>26
  DEF PollTimeout, FlagRequest, NoRequest, InitiateAbortBulkOut,
      InitiateAbortBulkIn, InitiateClear, CheckAbortBulkOutStatus,
      CheckAbortBulkInStatus, CheckClearStatus, CheckStatus, AcceptAbort,
      IndicatorPulse, AskTask, RenControl, LocalLockout, GoToLocal,
      DeferReadStatusByte
<1>27. CASE PollTimeoutReadStatusByte
  BY <1>27 DEF PollTimeoutReadStatusByte, ReadStatusByteNow
<1>28. CASE CommandAccepted BY <1>28 DEF CommandAccepted
<1>29. CASE DataAccepted BY <1>29 DEF DataAccepted
<1>30. CASE DataRead BY <1>30 DEF DataRead
<1>31. CASE HostSend BY <1>31 DEF HostSend
<1>32. CASE HostContinue BY <1>32 DEF HostContinue
<1>33. CASE HostRequest BY <1>33 DEF HostRequest
<1>34. CASE HostCheck BY <1>34 DEF HostCheck
<1>35. CASE HostCancel BY <1>35 DEF HostCancel
<1>36. CASE InstrumentRaises
  BY <1>36
<1>37. CASE InstrumentAnswers BY <1>37 DEF InstrumentAnswers
<1>38. CASE UNCHANGED vars BY <1>38 DEF vars
<1> QED
  BY <1>1, <1>2, <1>3, <1>4, <1>5, <1>6, <1>7, <1>8, <1>9, <1>10,
     <1>11, <1>12, <1>13, <1>14, <1>15, <1>16, <1>17, <1>18, <1>19, <1>20,
     <1>21, <1>22, <1>23, <1>24, <1>25, <1>26, <1>27, <1>28, <1>29, <1>30,
     <1>31, <1>32, <1>33, <1>34, <1>35, <1>36, <1>37, <1>38
  DEF Next, Firmware, Handshakes, Host, Instrument, Waiting, Transfer, Task

(* No status byte is lost: what a serial poll takes from the instrument is *)
(* kept in srq_statusbyte until a status request is answered with it.      *)
THEOREM StatusKept == Spec => []NoStatusLost
<1>1. Init => NoStatusLost BY DEF Init, NoStatusLost
<1>2. TypeOK /\ NoStatusLost /\ [Next]_vars => NoStatusLost'
  <2> SUFFICES ASSUME TypeOK, NoStatusLost, [Next]_vars PROVE NoStatusLost'
    OBVIOUS
  <2>1. CASE UNCHANGED <<stb, srq_statusbyte, told, raised>>
    BY <2>1 DEF NoStatusLost
  <2>2. CASE handle_control_Req_ReadStatusByte /\ UNCHANGED raised
    BY <2>2 DEF handle_control_Req_ReadStatusByte, SerialPoll, StatusRead, Respond,
       NoStatusLost
  <2>3. CASE ServiceRequest
    BY <2>3 DEF ServiceRequest, SerialPoll, StatusRead, NoStatusLost
  <2>4. CASE InstrumentRaises
    BY <2>4 DEF InstrumentRaises, NoStatusLost, TypeOK, StatusTypes
  <2> QED BY <2>1, <2>2, <2>3, <2>4, StatusSteps
<1> QED BY <1>1, <1>2, TypeCorrect, PTL DEF Spec

(* Only the end of TMC_Task lowers the abort flags.                        *)
LEMMA OnlyFinishEndsAborts ==
  ASSUME TypeOK, [Next]_vars, ~FinishTask
  PROVE  Aborting => Aborting'
<1> USE DEF Aborting
<1>1. CASE UsbTask
  BY <1>1, RequestKeepsAborting DEF UsbTask, ReadStatusByteNow
<1>2. CASE ServiceRequest BY <1>2 DEF ServiceRequest
<1>3. CASE SelectiveDeviceClear BY <1>3 DEF SelectiveDeviceClear
<1>4. CASE SendLocalLockout BY <1>4 DEF SendLocalLockout
<1>5. CASE GotoLocalAndRen BY <1>5 DEF GotoLocalAndRen
<1>6. CASE NoHeader BY <1>6 DEF NoHeader
<1>7. CASE UnknownMessage
  BY <1>7 DEF UnknownMessage, Header
<1>8. CASE Trigger
  BY <1>8 DEF Trigger, Header
<1>9. CASE DeviceOut BY <1>9 DEF DeviceOut
<1>10. CASE ReceiveMore BY <1>10 DEF ReceiveMore
<1>11. CASE DeviceIn BY <1>11 DEF DeviceIn
<1>12. CASE NotifyStatusByte BY <1>12 DEF NotifyStatusByte
<1>13. CASE FinishTask
  BY <1>13
<1>14. CASE PsmTop BY <1>14 DEF PsmTop
<1>15. CASE PsmLoop BY <1>15 DEF PsmLoop
<1>16. CASE PsmWrite BY <1>16 DEF PsmWrite
<1>17. CASE PsmUntalk BY <1>17 DEF PsmUntalk
<1>18. CASE PsmEnd BY <1>18 DEF PsmEnd
<1>19. CASE PsmReturn BY <1>19 DEF PsmReturn
<1>20. CASE PsmAnswerTop
  BY <1>20 DEF PsmAnswerTop, PsmAnswerStatus
<1>21. CASE PsmAnswerLoop
  BY <1>21 DEF PsmAnswerLoop, PsmAnswerStatus
<1>22. CASE PsmAnswerEnd
  BY <1>22 DEF PsmAnswerEnd, PsmAnswerStatus
<1>23. CASE GnmLoop BY <1>23 DEF GnmLoop
<1>24. CASE GnmEnd BY <1>24 DEF GnmEnd
<1>25. CASE ReplyIn BY <1>25 DEF ReplyIn
<1>26. CASE PollTimeout
  BY <1>26, RequestKeepsAborting DEF PollTimeout
<1>27. CASE PollTimeoutReadStatusByte
  BY <1>27 DEF PollTimeoutReadStatusByte, ReadStatusByteNow
<1>28. CASE CommandAccepted BY <1>28 DEF CommandAccepted
<1>29. CASE DataAccepted BY <1>29 DEF DataAccepted
<1>30. CASE DataRead BY <1>30 DEF DataRead
<1>31. CASE HostSend BY <1>31 DEF HostSend
<1>32. CASE HostContinue BY <1>32 DEF HostContinue
<1>33. CASE HostRequest BY <1>33 DEF HostRequest
<1>34. CASE HostCheck BY <1>34 DEF HostCheck
<1>35. CASE HostCancel BY <1>35 DEF HostCancel
<1>36. CASE InstrumentRaises BY <1>36 DEF InstrumentRaises
<1>37. CASE InstrumentAnswers BY <1>37 DEF InstrumentAnswers
<1>38. CASE UNCHANGED vars BY <1>38 DEF vars
<1> QED
  BY <1>1, <1>2, <1>3, <1>4, <1>5, <1>6, <1>7, <1>8, <1>9, <1>10,
     <1>11, <1>12, <1>13, <1>14, <1>15, <1>16, <1>17, <1>18, <1>19, <1>20,
     <1>21, <1>22, <1>23, <1>24, <1>25, <1>26, <1>27, <1>28, <1>29, <1>30,
     <1>31, <1>32, <1>33, <1>34, <1>35, <1>36, <1>37, <1>38
  DEF Next, Firmware, Handshakes, Host, Instrument, Waiting, Transfer, Task

(* When the abort flags fall, both banks of the OUT endpoint are empty, no *)
(* part of a message is expected and the instrument is unaddressed.        *)
THEOREM AbortsFlush == Spec => AbortFlushes
<1> DEFINE A == Aborting /\ ~Aborting' =>
             /\ outq' = <<>> /\ s_remaining_bytes_receive' = 0
             /\ addr' = "idle"
             /\ TMC_LastMessageComplete' /\ TMC_InLastMessageComplete'
             /\ ~handleSDC'
<1>1. TypeOK /\ [Next]_vars => [A]_vars
  <2> SUFFICES ASSUME TypeOK, [Next]_vars, Aborting, ~Aborting' PROVE A OBVIOUS
  <2>1. FinishTask BY OnlyFinishEndsAborts
  <2> QED
    BY <2>1 DEF FinishTask, TMC_resetstates, FlushOutBanks, gpib_interface_clear,
       Unaddressed
<1> QED BY <1>1, TypeCorrect, PTL DEF Spec, AbortFlushes

-----------------------------------------------------------------------------
(* THE PROMISE TO THE INSTRUMENT                                           *)

(* Nothing of the message changes: a stutter of TmcDelivery, or an abort   *)
(* that begins between two bytes.                                          *)
LEMMA MessageRests ==
  ASSUME UNCHANGED <<msgsize, TMC_eom, rx, rxEoi>>, Open' <=> Open,
         Aborting => Aborting'
  PROVE  [Delivery!Next]_(Delivery!vars)
<1>1. CASE Aborting' <=> Aborting
  BY <1>1 DEF Delivery!vars
<1>2. CASE ~Aborting /\ Aborting'
  BY <1>2 DEF Delivery!Next, Delivery!BeginAbort, Delivery!message
<1> QED BY <1>1, <1>2

(* The next byte of the message, with or without an abort that begins.     *)
LEMMA Takes ==
  ASSUME IInv, HeardOK, pc = "bus", fn = "writedat", addr = "listen",
         InstrumentHears, UNCHANGED <<msgsize, TMC_eom>>, Open' <=> Open,
         Aborting => Aborting'
  PROVE  Delivery!Next
<1>1. ret = "psm_loop" /\ Length > 0
  BY DEF IInv, Structure, CallOK, AddressingFns
<1>2. Site = "psm_loop" /\ Open
  BY <1>1 DEF Site, Open, PsmLabels
<1>3. rx + Length + s_remaining_bytes_receive = msgsize
  BY <1>2 DEF HeardOK
<1>4. lastmessage <=> s_remaining_bytes_receive = 0
  BY <1>2 DEF IInv, Structure, RemainingOK, PsmLabels
<1>5. rx \in Nat /\ Length \in Nat /\ s_remaining_bytes_receive \in Nat
      /\ msgsize \in Nat
  BY DEF IInv, TypeOK, MessageTypes, LocalTypes, BusTypes
<1>6. rx < msgsize /\ (rx + 1 = msgsize <=> Length = 1 /\ lastmessage)
  BY <1>1, <1>3, <1>4, <1>5
<1>7. Delivery!TakeByte
  BY <1>2, <1>6 DEF Delivery!TakeByte, InstrumentHears, EndsMessage
<1>8. CASE Aborting' <=> Aborting
  BY <1>7, <1>8 DEF Delivery!Next, Delivery!Accept
<1>9. CASE ~Aborting /\ Aborting'
  BY <1>7, <1>9 DEF Delivery!Next, Delivery!BeginAbort
<1> QED BY <1>8, <1>9

(* While an abort is pending nobody addresses the instrument: one that     *)
(* listens afterwards has been listening.                                  *)
LEMMA HeardStep ==
  ASSUME IInv, HeardOK, [Next]_vars, Structure' PROVE HeardOK'
<1>1. CASE ~Aborting'
  BY <1>1 DEF HeardOK, Structure, CountOK, Site, WritingSites, PsmLabels
<1>2. CASE Aborting' /\ addr' = "listen"
  <2> USE <1>2 DEF HeardOK, IInv, Structure, TypeOK, MessageTypes, LocalTypes,
          BusTypes, CallOK, Site, WritingSites, PsmLabels, Aborting,
          Unaddressed, AddressingFns
  <2>1. CASE UsbTask
    <3>1. UNCHANGED <<rx, msgsize, s_remaining_bytes_receive>> /\ pc' \in {"srq", "more"}
      BY <2>1 DEF UsbTask
    <3>2. addr = "listen"
      BY <2>1 DEF UsbTask, ReadStatusByteNow, handle_control_Req_ReadStatusByte, SerialPoll
    <3> QED BY <2>1, <3>1, <3>2 DEF UsbTask
  <2>2. CASE ServiceRequest \/ SelectiveDeviceClear \/ SendLocalLockout
             \/ GotoLocalAndRen \/ NoHeader \/ UnknownMessage \/ Trigger
             \/ NotifyStatusByte \/ GnmLoop \/ GnmEnd \/ ReplyIn
    <3>1. Site' \in {"sdc", "llo", "gtl", "hdr", "rstb", "reset", "gnm_loop",
                    "gnm_end", "in_reply"}
      BY <2>2 DEF ServiceRequest, SelectiveDeviceClear, SendLocalLockout,
         GotoLocalAndRen, NoHeader, UnknownMessage, Trigger, NotifyStatusByte,
         GnmLoop, GnmEnd, ReplyIn, Goto, Call
    <3> QED BY <3>1
  <2>3. CASE DeviceOut
    <3> DEFINE packet == Head(outq)
               curlen == LesserOf(FirstChunk, packet.size)
    <3>1. CASE InternalCommand(TMC_LastMessageComplete, packet)
      <4>1. Site' = "psm_end"
        BY <2>3, <3>1 DEF DeviceOut, ProcessSentMessage, Goto
      <4> QED BY <4>1
    <3>2. CASE ~InternalCommand(TMC_LastMessageComplete, packet)
      <4>1. packet.size \in Nat BY <2>3, PacketFacts DEF DeviceOut, Header
      <4>2. curlen \in Nat BY <4>1, LesserFacts, ChunkAssumption
      <4>3. /\ rx' = 0 /\ Length' = curlen /\ msgsize' = packet.size
            /\ s_remaining_bytes_receive' = packet.size - curlen
        BY <2>3, <3>2 DEF DeviceOut, ProcessSentMessage
      <4>4. rx' + Length' + s_remaining_bytes_receive' = msgsize'
        BY <4>1, <4>2, <4>3
      <4>5. Site' \notin {"usb", "more"}
        BY <2>3, <3>2 DEF DeviceOut, ProcessSentMessage, Goto, Call
      <4> QED BY <4>4, <4>5
    <3> QED BY <3>1, <3>2
  <2>4. CASE ReceiveMore
    <3>1. CASE outq = <<>>
      <4>1. Site' = "rstb" BY <2>4, <3>1 DEF ReceiveMore, Goto
      <4> QED BY <4>1
    <3>2. CASE outq # <<>>
      <4> DEFINE left == s_remaining_bytes_receive
                 curlen == LesserOf(Chunk, left)
      <4>1. left \in Nat /\ left > 0 /\ pc = "more" /\ addr = "listen"
        BY <2>4 DEF ReceiveMore, RemainingOK
      <4>2. curlen \in Nat BY <4>1, LesserFacts, ChunkAssumption
      <4>3. rx + left = msgsize BY <4>1
      <4>4. /\ rx' = rx /\ Length' = curlen /\ msgsize' = msgsize
            /\ s_remaining_bytes_receive' = left - curlen
            /\ pc' = "psm_top"
        BY <2>4, <3>2 DEF ReceiveMore, ProcessSentMessage, InternalCommand, Goto
      <4>5. rx' + Length' + s_remaining_bytes_receive' = msgsize'
        BY <4>1, <4>2, <4>3, <4>4
      <4> QED BY <4>4, <4>5
    <3> QED BY <3>1, <3>2
  <2>5. CASE DeviceIn
    BY <2>5 DEF DeviceIn, Header, GetNextMessage, Goto, Call
  <2>6. CASE FinishTask
    BY <2>6 DEF FinishTask
  <2>7. CASE PsmTop \/ PsmLoop \/ PsmWrite \/ PsmUntalk
    BY <2>7 DEF PsmTop, PsmLoop, PsmWrite, PsmUntalk, Goto, Call
  <2>8. CASE PsmEnd \/ PsmReturn
    <3>1. Site' \in {"poll_end", "psm_ret", "rstb"}
      BY <2>8 DEF PsmEnd, PsmReturn, Goto, Call
    <3> QED BY <3>1
  <2>9. CASE PsmAnswerTop \/ PsmAnswerLoop \/ PsmAnswerEnd
             \/ PollTimeoutReadStatusByte
    BY <2>9 DEF PsmAnswerTop, PsmAnswerLoop, PsmAnswerEnd, PsmAnswerStatus,
       PollTimeoutReadStatusByte, ReadStatusByteNow,
       handle_control_Req_ReadStatusByte, SerialPoll
  <2>10. CASE PollTimeout
    BY <2>10 DEF PollTimeout, AbortPending, TimedOut
  <2>11. CASE CommandAccepted
    BY <2>11 DEF CommandAccepted
  <2>12. CASE DataAccepted
    <3>1. ret = "psm_loop" /\ Length > 0 /\ byte = "good" /\ addr = "listen"
      BY <2>12 DEF DataAccepted, BusyOK
    <3> QED BY <2>12, <3>1 DEF DataAccepted, InstrumentHears, Return
  <2>13. CASE DataRead
    BY <2>13 DEF DataRead, Return
  <2>14. CASE HostSend \/ HostContinue \/ HostRequest \/ HostCheck \/ HostCancel
              \/ InstrumentRaises \/ InstrumentAnswers
    <3>1. UNCHANGED <<addr, pc, ret, rx, msgsize, Length, s_remaining_bytes_receive>>
      BY <2>14 DEF HostSend, HostContinue, HostRequest, HostCheck,
         HostCancel, InstrumentRaises, InstrumentAnswers
    <3> QED BY <3>1
  <2>15. CASE UNCHANGED vars BY <2>15 DEF vars
  <2> QED
    BY <2>1, <2>2, <2>3, <2>4, <2>5, <2>6, <2>7, <2>8, <2>9, <2>10, <2>11, <2>12,
       <2>13, <2>14, <2>15
    DEF Next, Firmware, Handshakes, Host, Instrument, Waiting, Transfer, Task
<1> QED BY <1>1, <1>2 DEF HeardOK

(* Every step is one of TmcDelivery or leaves the message alone.           *)
LEMMA DeliveryStep ==
  ASSUME IInv, HeardOK, [Next]_vars, TypeOK'
  PROVE  [Delivery!Next]_(Delivery!vars)
<1> DEFINE message == <<msgsize, TMC_eom, rx, rxEoi>>
<1> USE DEF IInv, Structure
<1>1. ~FinishTask => (Aborting => Aborting')
  BY OnlyFinishEndsAborts
<1>2. CASE UsbTask
  <2>1. UNCHANGED message /\ (Open' <=> Open)
    BY <1>2 DEF UsbTask, Open, Site, PsmLabels
  <2>2. ~FinishTask BY <1>2 DEF UsbTask, FinishTask
  <2> QED BY <1>1, <2>1, <2>2, MessageRests
<1>3. CASE ServiceRequest \/ SelectiveDeviceClear \/ SendLocalLockout
           \/ GotoLocalAndRen \/ NoHeader \/ UnknownMessage \/ Trigger
           \/ NotifyStatusByte \/ GnmLoop \/ GnmEnd
  <2>1. /\ UNCHANGED message /\ UNCHANGED s_remaining_bytes_receive
        /\ UNCHANGED <<IsTMCBulkINReset, IsTMCBulkOUTReset>>
        /\ Site \notin PsmLabels /\ Site' \notin PsmLabels
    BY <1>3 DEF ServiceRequest, SelectiveDeviceClear, SendLocalLockout,
       GotoLocalAndRen, NoHeader, UnknownMessage, Trigger, Header,
       NotifyStatusByte, GnmLoop, GnmEnd, Goto, Call, Site, PsmLabels
  <2> QED BY <2>1, MessageRests DEF Open, Aborting
<1>4. CASE DeviceIn \/ ReplyIn
  <2>1. /\ UNCHANGED message /\ UNCHANGED <<IsTMCBulkINReset, IsTMCBulkOUTReset>>
        /\ s_remaining_bytes_receive = 0 /\ s_remaining_bytes_receive' = 0
        /\ Site \notin PsmLabels /\ Site' \notin PsmLabels
    BY <1>4 DEF DeviceIn, Header, ReplyIn, TMC_resetstates, GetNextMessage, Goto,
       Call, Site, PsmLabels, RemainingOK
  <2> QED BY <2>1, MessageRests DEF Open, Aborting
<1>5. CASE DeviceOut
  <2>1. ~Open
    BY <1>5 DEF DeviceOut, Header, Open, Site, PsmLabels, RemainingOK
  <2>2. Open'
    BY <1>5 DEF DeviceOut, ProcessSentMessage, Goto, Call, Open, Site, PsmLabels
  <2>3. rx' = 0 /\ rxEoi' = FALSE /\ (Aborting' <=> Aborting)
    BY <1>5 DEF DeviceOut, Aborting
  <2>4. msgsize' \in Nat /\ TMC_eom' \in BOOLEAN
    BY DEF TypeOK, BusTypes, MessageTypes
  <2> QED
    BY <2>1, <2>2, <2>3, <2>4 DEF Delivery!Next, Delivery!Begin
<1>6. CASE ReceiveMore
  <2>1. /\ UNCHANGED message /\ UNCHANGED <<IsTMCBulkINReset, IsTMCBulkOUTReset>>
        /\ Open
    BY <1>6 DEF ReceiveMore, Open, Site, RemainingOK
  <2>2. Open'
    BY <1>6 DEF ReceiveMore, ProcessSentMessage, InternalCommand, Goto, Open,
       Site, PsmLabels, RemainingOK
  <2> QED BY <2>1, <2>2, MessageRests DEF Aborting
<1>7. CASE FinishTask
  <2>1. UNCHANGED message /\ ~Aborting' /\ pc = "reset" /\ pc' = "usb"
    BY <1>7 DEF FinishTask, Goto, Aborting
  <2>2. CASE Aborting
    <3>1. ~Open'
      BY <1>7, <2>1, <2>2 DEF FinishTask, TMC_resetstates, Open, Site, PsmLabels
    <3> QED
      BY <2>1, <2>2, <3>1 DEF Delivery!Next, Delivery!EndAbort, Delivery!message
  <2>3. CASE ~Aborting
    <3>1. Open' <=> Open
      BY <1>7, <2>1, <2>3 DEF FinishTask, Open, Site, PsmLabels
    <3> QED BY <2>1, <2>3, <3>1, MessageRests
  <2> QED BY <2>2, <2>3
<1>8. CASE PsmReturn
  <2>1. /\ UNCHANGED message /\ (Aborting' <=> Aborting) /\ Open
        /\ UNCHANGED s_remaining_bytes_receive /\ pc = "psm_ret" /\ pc' = "rstb"
    BY <1>8 DEF PsmReturn, Goto, Aborting, Open, Site, PsmLabels
  <2>2. CASE Open'
    BY <2>1, <2>2, MessageRests
  <2>3. CASE ~Open'
    <3>1. s_remaining_bytes_receive = 0
      BY <2>1, <2>3 DEF Open, TypeOK, MessageTypes
    <3>2. rx = msgsize \/ Aborting
      BY <2>1, <3>1 DEF CountOK, Site, EndingSites, TypeOK, BusTypes
    <3>3. UNCHANGED Aborting BY <1>8 DEF PsmReturn, Aborting
    <3> QED
      BY <2>1, <2>3, <3>2, <3>3 DEF Delivery!Next, Delivery!Close, Delivery!message
  <2> QED BY <2>2, <2>3
<1>9. CASE PsmTop \/ PsmLoop \/ PsmWrite \/ PsmUntalk \/ PsmEnd
           \/ PsmAnswerTop \/ PsmAnswerLoop \/ PsmAnswerEnd
  <2>1. /\ UNCHANGED message
        /\ UNCHANGED <<IsTMCBulkINReset, IsTMCBulkOUTReset>>
        /\ Site \in PsmLabels /\ Site' \in PsmLabels
    BY <1>9 DEF PsmTop, PsmLoop, PsmWrite, PsmUntalk, PsmEnd, PsmAnswerTop,
       PsmAnswerLoop, PsmAnswerEnd, PsmAnswerStatus, Goto, Call, Site, PsmLabels
  <2> QED BY <2>1, MessageRests DEF Open, Aborting
<1>10. CASE Waiting
  <2>1. /\ UNCHANGED <<msgsize, TMC_eom, s_remaining_bytes_receive>> /\ pc = "bus"
        /\ ~FinishTask
    BY <1>10 DEF Waiting, PollTimeout, PollTimeoutReadStatusByte, TimedOut,
       KeepsWaiting, FinishTask
  <2>2. TimedOut \/ KeepsWaiting
    BY <1>10 DEF Waiting, PollTimeout, PollTimeoutReadStatusByte
  <2>3. Site' = Site
    BY <2>1, <2>2 DEF TimedOut, KeepsWaiting, Return, Site, CallOK
  <2>4. Open' <=> Open
    BY <2>1, <2>3 DEF Open
  <2>5. CASE UNCHANGED <<rx, rxEoi>>
    BY <1>1, <2>1, <2>4, <2>5, MessageRests
  <2>6. CASE fn = "writedat" /\ addr = "listen" /\ InstrumentHears
    BY <1>1, <2>1, <2>4, <2>6, Takes
  <2> QED BY <2>2, <2>5, <2>6 DEF TimedOut, KeepsWaiting
<1>11. CASE Handshakes
  <2>1. /\ UNCHANGED <<msgsize, TMC_eom, s_remaining_bytes_receive>> /\ pc = "bus"
        /\ UNCHANGED <<IsTMCBulkINReset, IsTMCBulkOUTReset>>
    BY <1>11 DEF Handshakes, CommandAccepted, DataAccepted, DataRead
  <2>2. Site' = Site
    BY <1>11, <2>1 DEF Handshakes, CommandAccepted, DataAccepted, DataRead, Return,
       Site, CallOK
  <2>3. (Open' <=> Open) /\ (Aborting' <=> Aborting)
    BY <2>1, <2>2 DEF Open, Aborting
  <2>4. \/ UNCHANGED <<rx, rxEoi>>
        \/ fn = "writedat" /\ addr = "listen" /\ InstrumentHears
    BY <1>11 DEF Handshakes, CommandAccepted, DataAccepted, DataRead
  <2> QED BY <2>1, <2>3, <2>4, MessageRests, Takes
<1>12. CASE Host \/ Instrument \/ UNCHANGED vars
  <2>1. UNCHANGED <<message, pc, ret, s_remaining_bytes_receive, IsTMCBulkINReset,
                    IsTMCBulkOUTReset>>
    BY <1>12 DEF Host, HostSend, HostContinue, HostRequest, HostCheck, HostCancel,
       Instrument, InstrumentRaises, InstrumentAnswers, vars
  <2> QED BY <2>1, MessageRests DEF Open, Site, Aborting
<1> QED
  BY <1>2, <1>3, <1>4, <1>5, <1>6, <1>7, <1>8, <1>9, <1>10, <1>11, <1>12
  DEF Next, Firmware, Transfer, Task

(* UsbTmc implements TmcDelivery: for all packet and message sizes and     *)
(* every host, the instrument gets the bytes of one message at a time,     *)
(* each once, and EOI with the last byte only; packets, status requests    *)
(* answered between two bytes and internal commands do not show, and an    *)
(* abort can cut a message short but never makes it look complete.         *)
THEOREM Delivers == Spec => DeliverySpec
<1>1. Init => HeardOK /\ Delivery!Init
  BY DEF Init, HeardOK, Delivery!Init, Open, Site, PsmLabels, Aborting
<1>2. IInv /\ IInv' /\ HeardOK /\ [Next]_vars => HeardOK'
  BY HeardStep DEF IInv
<1>3. Spec => []HeardOK
  BY <1>1, <1>2, Inductive, PTL DEF Spec
<1>4. IInv /\ IInv' /\ HeardOK /\ [Next]_vars => [Delivery!Next]_(Delivery!vars)
  BY DeliveryStep DEF IInv
<1> QED BY <1>1, <1>3, <1>4, Inductive, PTL DEF Spec, DeliverySpec, Delivery!Spec
=============================================================================
