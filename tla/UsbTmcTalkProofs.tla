--------------------------- MODULE UsbTmcTalkProofs ---------------------------
(***************************************************************************)
(* How the instrument is addressed: the proofs of EndpointInv, AddressInv  *)
(* and TalkerInv, and of BusMatchesTransfers, LocalAfterWrites and         *)
(* ReadKeepsTalker from them; then ClearReachesInstrument for the hosts    *)
(* that clear outside reads.                                               *)
(***************************************************************************)
EXTENDS UsbTmcSyncProofs

USE DEF abortVars, handleVars, statusVars, messageVars, internalVars, callVars,
        localVars, busVars, eventVars, deliveryVars, hostVars, ctlVars,
        transferVars, hostFrame, InsideTransfer

(* The packets behind the head, by their places in the endpoint.           *)
LEMMA Behind ==
  ASSUME NEW q \in Seq(Packets), q # <<>>
  PROVE  /\ 1 \in 1..Len(q) /\ Head(q) = q[1]
         /\ Len(q) = 1 => Tail(q) = <<>>
         /\ \A i \in 1..Len(Tail(q)) :
              /\ i + 1 \in 1..Len(q) /\ Tail(q)[i] = q[i + 1]
              /\ i + 1 = Len(q) => i = Len(Tail(q))
<1>1. 1 \in 1..Len(q) /\ Head(q) = q[1] OBVIOUS
<1>2. Len(q) = 1 => Tail(q) = <<>>
  <2>1. \A s \in Seq(Packets) : Len(s) = 0 => s = <<>> OBVIOUS
  <2>2. Tail(q) \in Seq(Packets) /\ (Len(q) = 1 => Len(Tail(q)) = 0) OBVIOUS
  <2> QED BY <2>1, <2>2, Zenon
<1>3. \A i \in 1..Len(Tail(q)) : i + 1 \in 1..Len(q) OBVIOUS
<1>4. \A i \in 1..Len(Tail(q)) : Tail(q)[i] = q[i + 1] OBVIOUS
<1>5. \A i \in 1..Len(Tail(q)) : i + 1 = Len(q) => i = Len(Tail(q)) OBVIOUS
<1> QED BY <1>1, <1>2, <1>3, <1>4, <1>5, Zenon

(* A read request at the head of the endpoint is the only packet, any      *)
(* other is followed by packets in the same order.                         *)
LEMMA AloneFacts ==
  ASSUME TypeOK, EndpointInv, outq # <<>>, ~Aborting
  PROVE  /\ Head(outq).kind = "IN" => Tail(outq) = <<>> /\ (hin \/ Revoked)
         /\ Head(outq).kind # "IN" => TMC_InLastMessageComplete
         /\ \A i \in 1..Len(Tail(outq)) :
              /\ Tail(outq)[i].kind = "IN" =>
                   i = Len(Tail(outq)) /\ (hin \/ Revoked)
              /\ Tail(outq)[i].kind # "IN" => TMC_InLastMessageComplete
<1>1. /\ \A i \in 1..Len(outq) :
           outq[i].kind = "IN" => i = Len(outq) /\ (hin \/ Revoked)
      /\ \A i \in 1..Len(outq) : outq[i].kind # "IN" => TMC_InLastMessageComplete
  BY DEF EndpointInv, ReadAlone, WriteAfterRead
<1>2. /\ 1 \in 1..Len(outq) /\ Head(outq) = outq[1]
      /\ Len(outq) = 1 => Tail(outq) = <<>>
      /\ \A i \in 1..Len(Tail(outq)) :
           /\ i + 1 \in 1..Len(outq) /\ Tail(outq)[i] = outq[i + 1]
           /\ i + 1 = Len(outq) => i = Len(Tail(outq))
  BY Behind DEF TypeOK, HostTypes
<1>3. /\ Head(outq).kind = "IN" => Tail(outq) = <<>> /\ (hin \/ Revoked)
      /\ Head(outq).kind # "IN" => TMC_InLastMessageComplete
  BY <1>1, <1>2, Zenon
<1>4. ASSUME NEW i \in 1..Len(Tail(outq))
      PROVE  /\ Tail(outq)[i].kind = "IN" =>
                  i = Len(Tail(outq)) /\ (hin \/ Revoked)
             /\ Tail(outq)[i].kind # "IN" => TMC_InLastMessageComplete
  BY <1>1, <1>2, Zenon
<1> QED BY <1>3, <1>4

-----------------------------------------------------------------------------
(* WHICH MESSAGES ARE UNDER WAY TOGETHER                                   *)

(* A step that moves no packet and begins no transfer.                     *)
LEMMA EndpointFrame ==
  ASSUME EndpointInv, UNCHANGED <<hleft, hin, hmore, outq>>,
         UNCHANGED <<s_remaining_bytes_receive, TMC_InLastMessageComplete>>,
         Aborting => Aborting', Revoked => Revoked',
         Site' \in ReadSites => Site \in ReadSites,
         Site' \in PsmLabels => Site \in PsmLabels
  PROVE  EndpointInv'
<1>1. OneTransfer' BY DEF EndpointInv, OneTransfer
<1>2. CASE Aborting' BY <1>1, <1>2 DEF EndpointInv, ReadAlone, WriteAfterRead
<1>3. CASE ~Aborting'
  <2>1. ReadAlone' BY <1>3 DEF EndpointInv, ReadAlone
  <2>2. WriteAfterRead' BY <1>3 DEF EndpointInv, WriteAfterRead
  <2> QED BY <1>1, <2>1, <2>2 DEF EndpointInv
<1> QED BY <1>2, <1>3

(* USB_USBTask handles a request.                                          *)
LEMMA EndpointRequest ==
  ASSUME TypeOK, SplitInv, EndpointInv,
         FlagRequest \/ NoRequest \/ ReadStatusByteNow,
         UNCHANGED <<hleft, hin, hmore, outq>>,
         UNCHANGED <<s_remaining_bytes_receive, TMC_InLastMessageComplete>>,
         Site' = Site \/ Site' \in BetweenSites
  PROVE  EndpointInv'
<1>1. /\ Aborting => Aborting'
      /\ Revoked /\ ~Revoked' => Aborting' \/ RequestInProgress # "none"
  BY RequestEffect
<1>2. /\ Site' \in ReadSites => Site \in ReadSites
      /\ Site' \in PsmLabels => Site \in PsmLabels
  BY DEF BetweenSites, ReadSites, TaskLabels, PsmLabels, GnmLabels
<1>3. CASE Revoked => Revoked' BY <1>1, <1>2, <1>3, EndpointFrame
<1>4. CASE Revoked /\ ~Revoked'
  <2>1. OneTransfer' BY DEF EndpointInv, OneTransfer
  <2>2. CASE Aborting' BY <2>1, <2>2 DEF EndpointInv, ReadAlone, WriteAfterRead
  <2>3. CASE ~Aborting'
    <3>1. /\ outq' = <<>> /\ s_remaining_bytes_receive' = 0
          /\ TMC_InLastMessageComplete' /\ hleft' = 0
          /\ Site \in TaskLabels \ {"in_reply"}
      BY <1>1, <1>4, <2>3 DEF SplitInv, HostQuiet, Flushed
    <3>2. Site' \notin ReadSites /\ Site' \notin PsmLabels
      BY <1>2, <3>1 DEF ReadSites, TaskLabels, PsmLabels, GnmLabels
    <3>3. Len(<<>>) = 0 /\ \A i \in 1..0 : FALSE OBVIOUS
    <3>4. ReadAlone' BY <3>1, <3>2, <3>3 DEF ReadAlone
    <3>5. WriteAfterRead' BY <3>1, <3>2, <3>3 DEF WriteAfterRead
    <3> QED BY <2>1, <3>4, <3>5 DEF EndpointInv
  <2> QED BY <2>2, <2>3
<1> QED BY <1>3, <1>4

(* TMC_Task takes the packet at the head.                                  *)
LEMMA EndpointTake ==
  ASSUME IInv, EndpointInv, outq # <<>>, outq' = Tail(outq),
         UNCHANGED <<abortVars, ctl, hleft, hin, hmore>>,
         UNCHANGED <<s_remaining_bytes_receive, TMC_InLastMessageComplete>>,
         Site' \in ReadSites => pc = "hdr" /\ Head(outq).kind = "IN",
         Site' \notin PsmLabels
  PROVE  EndpointInv'
<1> USE DEF IInv
<1>1. OneTransfer' BY DEF EndpointInv, OneTransfer
<1>2. CASE Aborting
  <2>1. Aborting' BY <1>2 DEF Aborting
  <2> QED BY <1>1, <2>1 DEF EndpointInv, ReadAlone, WriteAfterRead
<1>3. CASE ~Aborting
  <2>1. /\ Head(outq).kind = "IN" => Tail(outq) = <<>> /\ (hin \/ Revoked)
        /\ \A i \in 1..Len(Tail(outq)) :
             /\ Tail(outq)[i].kind = "IN" =>
                  i = Len(Tail(outq)) /\ (hin \/ Revoked)
             /\ Tail(outq)[i].kind # "IN" => TMC_InLastMessageComplete
    BY <1>3, AloneFacts
  <2>2. Revoked' <=> Revoked BY DEF Revoked
  <2>3. ReadAlone' BY <1>3, <2>1, <2>2 DEF EndpointInv, ReadAlone
  <2>4. WriteAfterRead' BY <1>3, <2>1 DEF EndpointInv, WriteAfterRead
  <2> QED BY <1>1, <2>3, <2>4 DEF EndpointInv
<1> QED BY <1>2, <1>3

(* A packet of a write is begun; it stays in its bank.                     *)
LEMMA EndpointBegin ==
  ASSUME IInv, EndpointInv, DeviceOut \/ ReceiveMore PROVE EndpointInv'
<1> USE DEF IInv, Structure
<1>1. UNCHANGED <<abortVars, ctl, hleft, hin, hmore, outq, TMC_InLastMessageComplete>>
  BY DEF DeviceOut, ReceiveMore
<1>2. OneTransfer' BY <1>1 DEF EndpointInv, OneTransfer
<1>3. Site' \notin ReadSites
  BY DEF DeviceOut, ReceiveMore, ProcessSentMessage, Call, Goto, Site, ReadSites,
     GnmLabels
<1>4. ReadAlone'
  BY <1>1, <1>3 DEF EndpointInv, ReadAlone, Aborting, Revoked
<1>5. ASSUME ~Aborting, s_remaining_bytes_receive' > 0 \/ Site' \in PsmLabels
      PROVE  TMC_InLastMessageComplete
  <2>1. CASE DeviceOut
    <3>1. outq # <<>> /\ Head(outq).kind # "IN" BY <2>1 DEF DeviceOut, Header
    <3> QED BY <1>5, <3>1, AloneFacts
  <2>2. CASE ReceiveMore
    <3>1. Site = "more" BY <2>2 DEF ReceiveMore, Site
    <3>2. s_remaining_bytes_receive > 0 BY <3>1 DEF RemainingOK
    <3> QED BY <1>5, <3>2 DEF EndpointInv, WriteAfterRead
  <2> QED BY <2>1, <2>2
<1>6. WriteAfterRead'
  BY <1>1, <1>5 DEF EndpointInv, WriteAfterRead, Aborting
<1> QED BY <1>2, <1>4, <1>6 DEF EndpointInv

(* The host appends a packet.                                              *)
LEMMA EndpointSend ==
  ASSUME IInv, SplitInv, EndpointInv, HostSend, "interrupt" \notin Habits
  PROVE  EndpointInv'
<1> USE DEF IInv
<1>1. PICK p \in [kind : Kinds, tag : Nat, size : Sizes, eom : BOOLEAN, bang : BOOLEAN] :
        /\ outq' = Append(outq, p)
        /\ p.kind = "IN" \/ ~hmore
        /\ hleft' > 0 => p.kind = "OUT"
        /\ hin' = (p.kind = "IN")
        /\ hmore' = (hmore /\ p.kind = "IN")
  <2>1. PICK kind \in Kinds, size \in Sizes, eom \in BOOLEAN, bang \in BOOLEAN :
          /\ kind = "IN" \/ ~hmore
          /\ outq' = Append(outq, Packet(kind, size, eom, bang))
          /\ hleft' = IF kind = "OUT" THEN size - LesserOf(FirstChunk, size) ELSE 0
          /\ hin' = (kind = "IN")
          /\ hmore' = (hmore /\ kind = "IN")
    BY DEF HostSend
  <2>2. htag + 1 \in Nat BY DEF TypeOK, HostTypes
  <2>3. Packet(kind, size, eom, bang) \in
          [kind : Kinds, tag : Nat, size : Sizes, eom : BOOLEAN, bang : BOOLEAN]
    BY <2>2 DEF Packet
  <2>4. Packet(kind, size, eom, bang).kind = kind BY DEF Packet
  <2>5. hleft' > 0 => kind = "OUT" BY <2>1
  <2> QED BY <2>1, <2>3, <2>4, <2>5
<1>2. /\ UNCHANGED <<hostFrame, ctl>> /\ ~hin /\ ~Revoked /\ hleft = 0
  BY DEF HostSend, MayStartMessage, Revoked
<1>3. OneTransfer' BY <1>1 DEF OneTransfer
<1>4. CASE Aborting
  <2>1. Aborting' BY <1>2, <1>4 DEF Aborting
  <2> QED BY <1>3, <2>1 DEF EndpointInv, ReadAlone, WriteAfterRead
<1>5. CASE ~Aborting
  <2>1. /\ outq \in Seq(Packets) /\ Len(outq) \in Nat
        /\ Len(Append(outq, p)) = Len(outq) + 1
        /\ Append(outq, p)[Len(outq) + 1] = p
        /\ \A i \in 1..Len(outq) : Append(outq, p)[i] = outq[i]
    BY DEF TypeOK, HostTypes
  <2>2. Site \notin ReadSites /\ Site' = Site
    BY <1>2, <1>5 DEF EndpointInv, ReadAlone, Site
  <2>3. \A i \in 1..Len(outq) : outq[i].kind # "IN"
    BY <1>2, <1>5 DEF EndpointInv, ReadAlone
  <2>4. TMC_InLastMessageComplete \/ hmore
    BY <1>2, <1>5 DEF EndpointInv, ReadAlone
  <2>5. TMC_InLastMessageComplete \/ hmore' BY <1>1, <2>4
  <2>6. ASSUME NEW i \in 1..Len(outq') PROVE
          /\ outq'[i].kind = "IN" => i = Len(outq') /\ hin'
          /\ outq'[i].kind # "IN" => TMC_InLastMessageComplete
    <3>1. CASE i \in 1..Len(outq)
      <4>1. outq'[i].kind # "IN" /\ outq[i].kind # "IN" BY <1>1, <2>1, <2>3, <3>1
      <4> QED BY <1>5, <3>1, <4>1 DEF EndpointInv, WriteAfterRead
    <3>2. CASE i = Len(outq) + 1
      <4>1. outq'[i] = p /\ i = Len(outq') BY <1>1, <2>1, <3>2
      <4> QED BY <1>1, <2>4, <4>1
    <3> QED BY <1>1, <2>1, <3>1, <3>2
  <2>7. ReadAlone' BY <1>2, <2>2, <2>5, <2>6 DEF ReadAlone
  <2>8. ASSUME \/ s_remaining_bytes_receive > 0 \/ Site \in PsmLabels
               \/ hleft' > 0
        PROVE  TMC_InLastMessageComplete
    <3>1. CASE s_remaining_bytes_receive > 0 \/ Site \in PsmLabels
      BY <1>5, <3>1 DEF EndpointInv, WriteAfterRead
    <3>2. CASE hleft' > 0 BY <1>1, <2>4, <3>2
    <3> QED BY <2>8, <3>1, <3>2
  <2>9. WriteAfterRead' BY <1>2, <2>2, <2>6, <2>8 DEF WriteAfterRead
  <2> QED BY <1>3, <2>7, <2>9 DEF EndpointInv
<1> QED BY <1>4, <1>5

LEMMA EndpointContinue ==
  ASSUME IInv, SplitInv, EndpointInv, HostContinue PROVE EndpointInv'
<1> USE DEF IInv
<1> DEFINE p == [kind |-> "DATA", tag |-> htag, size |-> LesserOf(Chunk, hleft),
                 eom |-> FALSE, bang |-> FALSE]
<1>1. /\ UNCHANGED <<hostFrame, ctl, hin, hmore>> /\ hleft > 0
      /\ outq' = Append(outq, p)
  BY DEF HostContinue
<1>2. p.kind = "DATA" OBVIOUS
<1> HIDE DEF p
<1>3. ~hin /\ ~Revoked
  BY <1>1 DEF EndpointInv, OneTransfer, SplitInv, HostQuiet
<1>4. OneTransfer' BY <1>1, <1>3 DEF OneTransfer
<1>5. CASE Aborting
  <2>1. Aborting' BY <1>1, <1>5 DEF Aborting
  <2> QED BY <1>4, <2>1 DEF EndpointInv, ReadAlone, WriteAfterRead
<1>6. CASE ~Aborting
  <2>1. /\ Len(outq) \in Nat /\ Len(Append(outq, p)) = Len(outq) + 1
        /\ Append(outq, p)[Len(outq) + 1] = p
        /\ \A i \in 1..Len(outq) : Append(outq, p)[i] = outq[i]
    BY DEF TypeOK, HostTypes
  <2>2. Site \notin ReadSites /\ Site' = Site /\ TMC_InLastMessageComplete
    BY <1>1, <1>3, <1>6 DEF EndpointInv, ReadAlone, WriteAfterRead, Site
  <2>3. \A i \in 1..Len(outq) : outq[i].kind # "IN"
    BY <1>3, <1>6 DEF EndpointInv, ReadAlone
  <2>4. ASSUME NEW i \in 1..Len(outq') PROVE outq'[i].kind # "IN"
    <3>1. CASE i \in 1..Len(outq) BY <1>1, <2>1, <2>3, <3>1
    <3>2. CASE i = Len(outq) + 1 BY <1>1, <1>2, <2>1, <3>2
    <3> QED BY <1>1, <2>1, <3>1, <3>2
  <2>5. ReadAlone' BY <1>1, <2>2, <2>4 DEF ReadAlone
  <2>6. WriteAfterRead' BY <1>1, <2>2 DEF WriteAfterRead
  <2> QED BY <1>4, <2>5, <2>6 DEF EndpointInv
<1> QED BY <1>5, <1>6

LEMMA EndpointHostRequest ==
  ASSUME EndpointInv, HostRequest PROVE EndpointInv'
<1>1. /\ UNCHANGED <<hostFrame, outq>> /\ ~Revoked
      /\ \/ Revoked' /\ hleft' = 0
         \/ UNCHANGED <<hleft, hin, hmore>>
  BY DEF HostRequest, Revoked, Initiates
<1>2. Site' = Site /\ (Aborting' <=> Aborting) BY <1>1 DEF Site, Aborting
<1>3. CASE UNCHANGED <<hleft, hin, hmore>>
  BY <1>1, <1>2, <1>3, EndpointFrame
<1>4. CASE Revoked' /\ hleft' = 0
  <2>1. OneTransfer' BY <1>4 DEF OneTransfer
  <2>2. ReadAlone'
    BY <1>1, <1>2, <1>4 DEF EndpointInv, ReadAlone
  <2>3. WriteAfterRead' BY <1>1, <1>2, <1>4 DEF EndpointInv, WriteAfterRead
  <2> QED BY <2>1, <2>2, <2>3 DEF EndpointInv
<1> QED BY <1>1, <1>3, <1>4

(* A response goes out: the endpoint is empty, the host owes nothing.      *)
LEMMA EndpointReply ==
  ASSUME IInv, SplitInv, EndpointInv, ReplyIn PROVE EndpointInv'
<1> USE DEF IInv, Structure
<1>1. /\ pc = "in_reply" /\ pc' = "rstb" /\ UNCHANGED <<abortVars, ctl, hleft, outq>>
      /\ hin' => hin
  BY DEF ReplyIn, Goto
<1>2. Site \in ReadSites /\ Site' \notin ReadSites /\ Site' \notin PsmLabels
  BY <1>1 DEF Site, ReadSites, GnmLabels, PsmLabels
<1>3. OneTransfer' BY <1>1 DEF EndpointInv, OneTransfer
<1>4. CASE Aborting
  <2>1. Aborting' BY <1>1, <1>4 DEF Aborting
  <2> QED BY <1>3, <2>1 DEF EndpointInv, ReadAlone, WriteAfterRead
<1>5. CASE ~Aborting
  <2>1. outq = <<>> /\ (hin \/ Revoked)
    BY <1>2, <1>5 DEF EndpointInv, ReadAlone
  <2>2. hleft = 0
    BY <2>1 DEF EndpointInv, OneTransfer, SplitInv, HostQuiet, TypeOK, HostTypes
  <2>3. s_remaining_bytes_receive = 0
    BY <1>1 DEF RemainingOK, Site
  <2>4. /\ TMC_InLastMessageComplete' = lastmessage
        /\ hmore' = (hin /\ ~lastmessage)
        /\ UNCHANGED s_remaining_bytes_receive
    BY <1>5 DEF ReplyIn, Aborting
  <2>5. \A i \in 1..Len(<<>>) : FALSE OBVIOUS
  <2>6. ReadAlone'
    BY <1>1, <1>2, <2>1, <2>4, <2>5 DEF ReadAlone, Revoked, TypeOK, LocalTypes
  <2>7. WriteAfterRead'
    BY <1>1, <1>2, <2>1, <2>2, <2>3, <2>4, <2>5 DEF WriteAfterRead
  <2> QED BY <1>3, <2>6, <2>7 DEF EndpointInv
<1> QED BY <1>4, <1>5

(* An abort empties the endpoint and ends every message.                   *)
LEMMA EndpointFinish ==
  ASSUME IInv, SplitInv, EndpointInv, FinishTask PROVE EndpointInv'
<1> USE DEF IInv, Structure
<1>1. /\ pc = "reset" /\ pc' = "usb" /\ UNCHANGED <<ctl, hleft, hin, hmore>>
  BY DEF FinishTask, Goto
<1>2. Site' \notin ReadSites /\ Site' \notin PsmLabels
  BY <1>1 DEF Site, ReadSites, GnmLabels, PsmLabels
<1>3. CASE Aborting
  <2>1. outq' = <<>> /\ TMC_InLastMessageComplete'
    BY <1>3 DEF FinishTask, FlushOutBanks, TMC_resetstates
  <2>2. \A i \in 1..Len(<<>>) : FALSE OBVIOUS
  <2>3. OneTransfer' BY <1>1 DEF EndpointInv, OneTransfer
  <2>4. ReadAlone' BY <1>2, <2>1, <2>2 DEF ReadAlone
  <2>5. WriteAfterRead' BY <2>1 DEF WriteAfterRead
  <2> QED BY <2>3, <2>4, <2>5 DEF EndpointInv
<1>4. CASE ~Aborting
  <2>1. UNCHANGED <<outq, s_remaining_bytes_receive, TMC_InLastMessageComplete>>
    BY <1>4 DEF FinishTask
  <2> QED BY <1>1, <1>2, <1>4, <2>1, EndpointFrame DEF Revoked
<1> QED BY <1>3, <1>4

LEMMA EndpointStep ==
  ASSUME IInv, SplitInv, EndpointInv, [Next]_vars, "interrupt" \notin Habits
  PROVE  EndpointInv'
<1> USE DEF IInv, Structure
<1> DEFINE Same == /\ UNCHANGED <<hleft, hin, hmore, outq>>
                   /\ UNCHANGED <<s_remaining_bytes_receive,
                                  TMC_InLastMessageComplete>>
           Kept == /\ Same
                   /\ UNCHANGED abortVars
                   /\ Revoked => Revoked'
                   /\ Site' \in ReadSites => Site \in ReadSites
                   /\ Site' \in PsmLabels => Site \in PsmLabels
<1>1. Kept => EndpointInv' BY EndpointFrame DEF Aborting
<1>2. CASE UsbTask \/ Waiting
  <2>1. Same /\ (FlagRequest \/ NoRequest \/ ReadStatusByteNow)
    BY <1>2 DEF UsbTask, Waiting, PollTimeout, PollTimeoutReadStatusByte
  <2>2. Site' = Site \/ Site' \in BetweenSites
    BY <1>2 DEF UsbTask, Waiting, PollTimeout, PollTimeoutReadStatusByte, TimedOut,
       KeepsWaiting, Return, Site, CallOK, BetweenSites, TaskLabels
  <2> QED BY <2>1, <2>2, EndpointRequest
<1> USE DEF Site, ReadSites, PsmLabels, GnmLabels, Revoked
<1>3. CASE \/ ServiceRequest \/ SelectiveDeviceClear \/ SendLocalLockout
           \/ GotoLocalAndRen \/ NoHeader \/ NotifyStatusByte
  <2>1. Kept
    BY <1>3 DEF ServiceRequest, SelectiveDeviceClear, SendLocalLockout,
       GotoLocalAndRen, NoHeader, NotifyStatusByte, Goto
  <2> QED BY <1>1, <2>1
<1>4. CASE PsmTop \/ PsmLoop \/ PsmWrite \/ PsmUntalk \/ PsmEnd \/ GnmLoop \/ GnmEnd
  <2>1. Kept
    BY <1>4 DEF PsmTop, PsmLoop, PsmWrite, PsmUntalk, PsmEnd, GnmLoop, GnmEnd, Goto,
       Call
  <2> QED BY <1>1, <2>1
<1>5. CASE PsmAnswerTop \/ PsmAnswerLoop \/ PsmAnswerEnd
  <2>1. Kept
    BY <1>5 DEF PsmAnswerTop, PsmAnswerLoop, PsmAnswerEnd, PsmAnswerStatus, Goto,
       Call, handle_control_Req_ReadStatusByte, Initiates
  <2> QED BY <1>1, <2>1
<1>6. CASE Handshakes
  <2>1. Same /\ UNCHANGED <<abortVars, ctl>>
    BY <1>6 DEF Handshakes, CommandAccepted, DataAccepted, DataRead
  <2>2. Site' = Site
    BY <1>6 DEF Handshakes, CommandAccepted, DataAccepted, DataRead, Return, CallOK
  <2> QED BY <1>1, <2>1, <2>2
<1>7. CASE DeviceOut \/ ReceiveMore BY <1>7, EndpointBegin
<1>8. CASE Trigger \/ DeviceIn \/ PsmReturn
  <2>1. /\ outq # <<>> /\ outq' = Tail(outq)
        /\ UNCHANGED <<abortVars, ctl, hleft, hin, hmore>>
        /\ UNCHANGED <<s_remaining_bytes_receive, TMC_InLastMessageComplete>>
    BY <1>8 DEF Trigger, DeviceIn, PsmReturn, Header, CallOK
  <2>2. Site' \in ReadSites => pc = "hdr" /\ Head(outq).kind = "IN"
    BY <1>8 DEF Trigger, DeviceIn, PsmReturn, Header, Goto
  <2>3. Site' \notin PsmLabels
    BY <1>8 DEF Trigger, DeviceIn, PsmReturn, GetNextMessage, Call, Goto
  <2> QED BY <2>1, <2>2, <2>3, EndpointTake
<1>9. CASE UnknownMessage
  <2>1. /\ outq' = <<>> /\ UNCHANGED <<abortVars, ctl, hleft, hin, hmore>> /\ pc' = "rstb"
        /\ UNCHANGED <<s_remaining_bytes_receive, TMC_InLastMessageComplete>>
    BY <1>9 DEF UnknownMessage, Goto
  <2>2. \A i \in 1..Len(<<>>) : FALSE OBVIOUS
  <2>3. OneTransfer' BY <2>1 DEF EndpointInv, OneTransfer
  <2>4. ReadAlone' BY <2>1, <2>2 DEF EndpointInv, ReadAlone, Aborting
  <2>5. WriteAfterRead' BY <2>1, <2>2 DEF EndpointInv, WriteAfterRead, Aborting
  <2> QED BY <2>3, <2>4, <2>5 DEF EndpointInv
<1>10. CASE ReplyIn BY <1>10, EndpointReply
<1>11. CASE FinishTask BY <1>11, EndpointFinish
<1>12. CASE HostSend BY <1>12, EndpointSend
<1>13. CASE HostContinue BY <1>13, EndpointContinue
<1>14. CASE HostRequest BY <1>14, EndpointHostRequest
<1>15. CASE HostCheck \/ HostCancel
  <2>1. Same /\ UNCHANGED <<abortVars, pc, ret>> /\ ~Revoked
    BY <1>15 DEF HostCheck, HostCancel, Initiates
  <2> QED BY <1>1, <2>1
<1>16. CASE Instrument \/ UNCHANGED vars
  <2>1. Kept BY <1>16 DEF Instrument, InstrumentRaises, InstrumentAnswers, vars
  <2> QED BY <1>1, <2>1
<1> QED
  BY <1>2, <1>3, <1>4, <1>5, <1>6, <1>7, <1>8, <1>9, <1>10, <1>11, <1>12, <1>13,
     <1>14, <1>15, <1>16, Zenon
  DEF Next, Firmware, Transfer, Task, Host

(* With a host that begins no message before it has read the whole         *)
(* response: a read request is always the last packet, and no message      *)
(* follows it before its response is complete.                             *)
THEOREM OneAtATime == ASSUME "interrupt" \notin Habits PROVE Spec => []EndpointInv
<1>1. Init => EndpointInv
  <2> SUFFICES ASSUME Init PROVE EndpointInv OBVIOUS
  <2>1. \A i \in 1..Len(<<>>) : FALSE OBVIOUS
  <2>2. ReadAlone BY <2>1 DEF Init, ReadAlone, Site, ReadSites, GnmLabels
  <2> QED BY <2>2 DEF Init, EndpointInv, OneTransfer, WriteAfterRead
<1>2. IInv /\ SplitInv /\ EndpointInv /\ [Next]_vars => EndpointInv'
  BY EndpointStep
<1>3. Spec => []IInv BY Inductive
<1>4. Spec => []SplitInv BY SplitQuiet
<1> QED BY <1>1, <1>2, <1>3, <1>4, PTL DEF Spec

-----------------------------------------------------------------------------
(* HOW THE INSTRUMENT IS ADDRESSED                                         *)

(* What the commands of the addressing functions do to the instrument.     *)
LEMMA CommandFacts ==
  /\ Len(CommandsOf("untalk_unlisten")) = 2 /\ Len(CommandsOf("make_talker")) = 3
  /\ Len(CommandsOf("make_listener")) = 4
  /\ CommandsOf("untalk_unlisten")[1] = "UNL" /\ CommandsOf("untalk_unlisten")[2] = "UNT"
  /\ CommandsOf("make_talker")[1] = "UNL" /\ CommandsOf("make_talker")[2] = "LAG0"
  /\ CommandsOf("make_talker")[3] = "TAG"
BY DEF CommandsOf, untalk_unlisten, make_talker, make_listener

LEMMA HearFacts ==
  ASSUME NEW a \in Addressing
  PROVE  /\ Hear("UNL", a) = IF a = "listen" THEN "idle" ELSE a
         /\ Hear("UNT", a) = IF a = "talk" THEN "idle" ELSE a
         /\ Hear("LAG0", a) = a /\ Hear("TAG", a) = "talk"
BY DEF Hear, Addressing

(* A step that leaves alone all that AddressInv speaks of.                 *)
LEMMA AddressFrame ==
  ASSUME AddressInv, UNCHANGED <<abortVars, pc, callVars, addr, timedout, lastmessage>>,
         UNCHANGED <<s_remaining_bytes_receive, TMC_InLastMessageComplete>>,
         UNCHANGED internal_response
  PROVE  AddressInv'
BY DEF AddressInv, RoundsBeginClean, ReadTimeoutOK, PolledIdle, AddressedOK, BetweenOK,
       WriteEndOK, ReadOK, Aborting, Site

(* USB_USBTask in main(), and the round up to the endpoints.               *)
LEMMA AddressRound ==
  ASSUME IInv, AddressInv,
         \/ UsbTask \/ ServiceRequest \/ SelectiveDeviceClear \/ SendLocalLockout
         \/ GotoLocalAndRen
  PROVE  AddressInv'
<1> USE DEF IInv, Structure
<1>1. /\ pc \in RoundSites \cup {"usb"}
      /\ pc' \in RoundSites \/ pc' = "more"
      /\ pc' # "usb" /\ pc' # "bus"
      /\ addr' = addr \/ addr' = "idle"
      /\ UNCHANGED <<s_remaining_bytes_receive, TMC_InLastMessageComplete>>
      /\ UNCHANGED internal_response
      /\ pc' = "more" => s_remaining_bytes_receive # 0
  BY DEF UsbTask, ServiceRequest, SelectiveDeviceClear, SendLocalLockout,
     GotoLocalAndRen, Goto, RoundSites, SerialPoll, AddressedCommand, Unaddressed,
     ReadStatusByteNow, handle_control_Req_ReadStatusByte
<1>2. BetweenOK
  BY <1>1 DEF AddressInv, RoundsBeginClean, AddressedOK
<1>3. pc \in BetweenSites BY <1>1 DEF RoundSites, BetweenSites, TaskLabels
<1>4. BetweenOK' BY <1>1, <1>2, <1>3 DEF BetweenOK
<1>5. pc' \notin {"bus", "usb", "psm_end", "psm_ret"} /\ pc' \notin ReadSites
  BY <1>1 DEF RoundSites, ReadSites, GnmLabels
<1>6. WriteEndOK' /\ ReadOK' /\ ReadTimeoutOK' /\ PolledIdle' /\ RoundsBeginClean'
  BY <1>5 DEF WriteEndOK, ReadOK, ReadTimeoutOK, PolledIdle, RoundsBeginClean, Site,
     ReadSites
<1> QED BY <1>4, <1>6 DEF AddressInv, AddressedOK

(* A handshake goes on waiting, or runs into an abort flag.                *)
LEMMA AddressWait ==
  ASSUME IInv, AddressInv, Waiting PROVE AddressInv'
<1> USE DEF IInv, Structure
<1>1. /\ pc = "bus" /\ UNCHANGED <<messageVars, internal_response>>
      /\ FlagRequest \/ NoRequest \/ ReadStatusByteNow
  BY DEF Waiting, PollTimeout, PollTimeoutReadStatusByte
<1>2. Aborting => Aborting' BY <1>1, RequestEffect
<1>3. CASE Aborting' /\ TimedOut
  <2>1. pc' = ret /\ pc' \in PsmLabels \cup ReadSites
    BY <1>1, <1>3 DEF TimedOut, Return, CallOK, PsmLabels, ReadSites, GnmLabels
  <2>2. pc' \notin RoundSites /\ pc' # "usb" /\ pc' # "bus"
    BY <2>1 DEF PsmLabels, ReadSites, GnmLabels, RoundSites
  <2> QED BY <1>3, <2>2 DEF AddressInv, RoundsBeginClean, ReadTimeoutOK, PolledIdle,
             AddressedOK
<1>4. CASE KeepsWaiting /\ (addr' = "idle" \/ UNCHANGED <<addr, byte>>)
  <2>1. UNCHANGED <<pc, fn, k, ret, timedout, lastmessage>> BY <1>4 DEF KeepsWaiting
  <2>2. RoundsBeginClean' BY <1>1, <2>1 DEF RoundsBeginClean
  <2>3. ReadTimeoutOK' BY <1>2, <2>1 DEF AddressInv, ReadTimeoutOK, Site
  <2>4. PolledIdle' BY <1>2, <1>4, <2>1 DEF AddressInv, PolledIdle
  <2>5. pc' \notin RoundSites /\ pc' \notin BetweenSites
        /\ pc' \notin {"psm_end", "psm_ret", "in_reply"}
    BY <1>1, <2>1 DEF RoundSites, BetweenSites, TaskLabels
  <2>6. ASSUME ~Aborting' PROVE BetweenOK' /\ WriteEndOK' /\ ReadOK'
    <3>1. WriteEndOK /\ ReadOK BY <1>2, <2>6 DEF AddressInv, AddressedOK
    <3>2. BetweenOK' BY <2>5 DEF BetweenOK
    <3>3. WriteEndOK' BY <1>4, <2>1, <2>5, <3>1 DEF WriteEndOK
    <3>4. ReadOK' BY <1>1, <1>4, <2>1, <2>5, <3>1 DEF ReadOK, Site
    <3> QED BY <3>2, <3>3, <3>4
  <2> QED BY <2>2, <2>3, <2>4, <2>5, <2>6 DEF AddressInv, AddressedOK
<1>5. CASE PollTimeout
  BY <1>3, <1>4, <1>5 DEF PollTimeout, AbortPending, Aborting
<1>6. CASE PollTimeoutReadStatusByte
  <2>1. addr' = "idle" /\ (Aborting' <=> Aborting)
    BY <1>6 DEF PollTimeoutReadStatusByte, ReadStatusByteNow, SerialPoll, Unaddressed,
       handle_control_Req_ReadStatusByte, Aborting
  <2> QED BY <1>3, <1>4, <1>6, <2>1 DEF PollTimeoutReadStatusByte
<1> QED BY <1>5, <1>6 DEF Waiting

(* The instrument accepts a command byte.                                  *)
LEMMA AddressCommand ==
  ASSUME IInv, AddressInv, CommandAccepted PROVE AddressInv'
<1> USE DEF IInv, Structure
<1>1. /\ pc = "bus" /\ ~Aborting /\ ~Aborting' /\ fn \in AddressingFns
      /\ addr' = IF byte = "good" THEN Hear(CommandsOf(fn)[k], addr) ELSE addr
      /\ UNCHANGED <<messageVars, internal_response, lastmessage>>
  BY DEF CommandAccepted, Aborting
<1>2. /\ WriteEndOK /\ ReadOK /\ (byte # "good" => addr = "idle")
      /\ ~(Site \in GnmLabels /\ timedout)
  BY <1>1 DEF AddressInv, AddressedOK, PolledIdle, ReadTimeoutOK
<1>3. addr \in Addressing BY DEF TypeOK, BusTypes
<1>4. CASE k < Len(CommandsOf(fn))
  <2>1. pc' = "bus" /\ k' = k + 1 /\ UNCHANGED <<fn, ret, timedout>> /\ byte' = "good"
    BY <1>1, <1>4 DEF CommandAccepted
  <2>2. RoundsBeginClean' /\ ReadTimeoutOK' /\ PolledIdle' /\ BetweenOK'
    BY <1>1, <1>2, <2>1 DEF RoundsBeginClean, ReadTimeoutOK, PolledIdle, BetweenOK,
       Site, BetweenSites, TaskLabels
  <2>3. WriteEndOK'
    <3>1. SUFFICES ASSUME ret = "psm_end" PROVE addr' # "talk" /\ (k' = 2 => addr' = "idle")
      BY <2>1 DEF WriteEndOK
    <3>2. fn = "untalk_unlisten" /\ k \in 1..2 BY <1>1, <3>1 DEF CallOK
    <3>3. k < 2 BY <1>4, <3>2, CommandFacts
    <3>4. fn = "untalk_unlisten" /\ k = 1 /\ byte = "good"
      BY <1>1, <3>1, <3>2, <3>3 DEF BusyOK, PsmLabels
    <3>5. addr' = IF addr = "listen" THEN "idle" ELSE addr
      BY <1>1, <1>3, <3>4, CommandFacts, HearFacts
    <3>6. addr # "talk" BY <1>1, <1>2, <3>1 DEF WriteEndOK
    <3> QED BY <1>3, <3>5, <3>6 DEF Addressing
  <2>4. ReadOK'
    <3>1. SUFFICES ASSUME ret \in ReadSites PROVE addr' # "listen"
      BY <1>1, <1>2, <2>1 DEF ReadOK, Site
    <3>2. addr # "listen" BY <1>1, <1>2, <3>1 DEF ReadOK, Site
    <3>3. \/ fn = "make_talker" /\ k \in 1..3
          \/ fn = "untalk_unlisten" /\ k \in 1..2
      BY <1>1, <3>1 DEF CallOK, ReadSites, GnmLabels, AddressingFns
    <3>4. fn = "make_talker" => k < 3 BY <1>4, CommandFacts
    <3>5. fn = "untalk_unlisten" => k < 2 BY <1>4, CommandFacts
    <3>6. \/ fn = "make_talker" /\ (k = 1 \/ k = 2)
          \/ fn = "untalk_unlisten" /\ k = 1
      BY <3>3, <3>4, <3>5
    <3>7. CommandsOf(fn)[k] \in {"UNL", "LAG0"} BY <3>6, CommandFacts
    <3> QED BY <1>1, <1>3, <3>2, <3>7, HearFacts
  <2> QED BY <2>2, <2>3, <2>4 DEF AddressInv, AddressedOK
<1>5. CASE ~(k < Len(CommandsOf(fn)))
  <2>1. /\ pc' = ret /\ byte' = "good"
        /\ timedout' = IF fn = "untalk_unlisten" THEN timedout ELSE FALSE
    BY <1>1, <1>5 DEF CommandAccepted, Return, Result
  <2>2. \/ /\ fn = "make_listener" /\ ret \in {"psm_top", "psm_loop", "psm_dat", "psm_ret"}
           /\ ret = "psm_ret" => ~lastmessage
        \/ fn = "make_talker" /\ k \in 1..3 /\ ret = "gnm_loop"
        \/ /\ fn = "untalk_unlisten" /\ k \in 1..2
           /\ ret \in {"poll_top", "poll_loop", "poll_end", "psm_end", "in_reply"}
    BY <1>1 DEF CallOK, BusyOK, EndingSites, AddressingFns
  <2>3. fn = "make_talker" => ~(k < 3) BY <1>5, CommandFacts
  <2>4. fn = "untalk_unlisten" => ~(k < 2) BY <1>5, CommandFacts
  <2>5. \/ /\ fn = "make_listener" /\ ret \in {"psm_top", "psm_loop", "psm_dat", "psm_ret"}
           /\ ret = "psm_ret" => ~lastmessage
        \/ fn = "make_talker" /\ k = 3 /\ ret = "gnm_loop"
        \/ /\ fn = "untalk_unlisten" /\ k = 2
           /\ ret \in {"poll_top", "poll_loop", "poll_end", "psm_end", "in_reply"}
    BY <2>2, <2>3, <2>4
  <2>6. Site' = ret /\ Site = ret BY <1>1, <2>1, <2>5 DEF Site
  <2>7. /\ pc' # "usb" /\ pc' # "bus" /\ pc' \notin RoundSites
        /\ pc' \notin BetweenSites
    BY <2>1, <2>5 DEF RoundSites, BetweenSites, TaskLabels
  <2>8. RoundsBeginClean' /\ PolledIdle' /\ BetweenOK'
    BY <2>7 DEF RoundsBeginClean, PolledIdle, BetweenOK
  <2>9. ReadTimeoutOK' BY <2>1, <2>5, <2>6 DEF ReadTimeoutOK, GnmLabels
  <2>10. CASE fn = "make_listener"
    <3>1. WriteEndOK' BY <1>1, <2>1, <2>5, <2>7, <2>10 DEF WriteEndOK
    <3>2. ReadOK' BY <2>1, <2>5, <2>6, <2>7, <2>10 DEF ReadOK, ReadSites, GnmLabels
    <3> QED BY <2>8, <2>9, <3>1, <3>2 DEF AddressInv, AddressedOK
  <2>11. CASE fn = "make_talker"
    <3>1. addr' \in {"talk", "idle"}
      BY <1>1, <1>2, <1>3, <2>5, <2>11, CommandFacts, HearFacts
    <3>2. internal_response = 0 BY <1>2, <2>5, <2>6, <2>11 DEF ReadOK, GnmLabels
    <3>3. WriteEndOK' BY <2>1, <2>5, <2>7, <2>11 DEF WriteEndOK
    <3>4. ReadOK'
      BY <1>1, <2>1, <2>5, <2>7, <2>11, <3>1, <3>2 DEF ReadOK
    <3> QED BY <2>8, <2>9, <3>3, <3>4 DEF AddressInv, AddressedOK
  <2>12. CASE fn = "untalk_unlisten"
    <3>1. ret \in {"psm_end", "in_reply"} => addr' = "idle"
      <4>1. SUFFICES ASSUME ret \in {"psm_end", "in_reply"} PROVE addr' = "idle"
        OBVIOUS
      <4>2. addr # "listen"
        BY <1>1, <1>2, <2>5, <2>6, <2>12, <4>1 DEF WriteEndOK, ReadOK, ReadSites
      <4>3. byte = "good" => addr' = IF addr = "talk" THEN "idle" ELSE addr
        BY <1>1, <1>3, <2>5, <2>12, CommandFacts, HearFacts
      <4> QED BY <1>1, <1>2, <1>3, <4>2, <4>3 DEF Addressing
    <3>2. WriteEndOK' BY <2>1, <2>5, <2>7, <2>12, <3>1 DEF WriteEndOK
    <3>3. ReadOK'
      BY <2>1, <2>5, <2>6, <2>7, <2>12, <3>1 DEF ReadOK, ReadSites, GnmLabels
    <3> QED BY <2>8, <2>9, <3>2, <3>3 DEF AddressInv, AddressedOK
  <2> QED BY <2>5, <2>10, <2>11, <2>12
<1> QED BY <1>4, <1>5

(* A data byte is accepted or read.                                        *)
LEMMA AddressData ==
  ASSUME IInv, AddressInv, DataAccepted \/ DataRead PROVE AddressInv'
<1> USE DEF IInv, Structure
<1>1. /\ pc = "bus" /\ pc' = ret /\ timedout' = FALSE
      /\ UNCHANGED <<abortVars, addr, messageVars, internal_response>>
      /\ ret = "psm_loop" \/ ret = "gnm_loop"
  BY DEF DataAccepted, DataRead, Return, Result, CallOK, AddressingFns
<1>2. /\ Site' = Site /\ Site = ret /\ pc' # "usb" /\ pc' # "bus"
      /\ pc' \notin RoundSites \cup BetweenSites \cup {"psm_end", "psm_ret", "in_reply"}
  BY <1>1 DEF Site, RoundSites, BetweenSites, TaskLabels
<1>3. ~Aborting => ReadOK BY DEF AddressInv, AddressedOK
<1>4. ~Aborting => ReadOK' BY <1>1, <1>2, <1>3 DEF ReadOK
<1>5. RoundsBeginClean' /\ ReadTimeoutOK' /\ PolledIdle' /\ BetweenOK' /\ WriteEndOK'
  BY <1>1, <1>2 DEF RoundsBeginClean, ReadTimeoutOK, PolledIdle, BetweenOK, WriteEndOK
<1> QED BY <1>1, <1>2, <1>4, <1>5 DEF AddressInv, AddressedOK, Aborting

(* ProcessSentMessage.                                                     *)
LEMMA AddressPsm ==
  ASSUME IInv, AddressInv,
         \/ PsmTop \/ PsmLoop \/ PsmWrite \/ PsmUntalk \/ PsmEnd
         \/ PsmAnswerTop \/ PsmAnswerLoop \/ PsmAnswerEnd \/ PsmReturn
  PROVE  AddressInv'
<1> USE DEF IInv, Structure
<1>1. /\ UNCHANGED <<abortVars, internal_response, lastmessage>>
      /\ UNCHANGED <<s_remaining_bytes_receive, TMC_InLastMessageComplete>>
      /\ addr' = addr \/ addr' = "idle"
      /\ pc' = "bus" => byte' = "good" /\ ret' \in PsmLabels
      /\ pc' \in PsmLabels \cup {"bus", "rstb"}
  BY DEF PsmTop, PsmLoop, PsmWrite, PsmUntalk, PsmEnd, PsmAnswerTop, PsmAnswerLoop,
     PsmAnswerEnd, PsmAnswerStatus, PsmReturn, Goto, Call, SerialPoll, Unaddressed,
     handle_control_Req_ReadStatusByte, PsmLabels
<1>2. /\ pc' # "usb" /\ pc' \notin RoundSites /\ pc' # "in_reply"
      /\ Site' \notin ReadSites
  BY <1>1 DEF RoundSites, Site, ReadSites, GnmLabels, PsmLabels
<1>3. RoundsBeginClean' /\ ReadTimeoutOK' /\ PolledIdle' /\ ReadOK'
  BY <1>1, <1>2 DEF RoundsBeginClean, ReadTimeoutOK, PolledIdle, ReadOK, ReadSites,
     PsmLabels, Site
<1>4. ASSUME ~Aborting PROVE BetweenOK' /\ WriteEndOK'
  <2>1. BetweenOK /\ WriteEndOK BY <1>4 DEF AddressInv, AddressedOK
  <2>2. BetweenOK'
    <3>1. SUFFICES ASSUME pc' \in BetweenSites, s_remaining_bytes_receive = 0
                   PROVE addr' = "idle"
      BY <1>1 DEF BetweenOK
    <3>2. pc' = "rstb" BY <1>1, <3>1 DEF BetweenSites, TaskLabels, PsmLabels
    <3>3. PsmReturn
      BY <3>2 DEF PsmTop, PsmLoop, PsmWrite, PsmUntalk, PsmEnd, PsmAnswerTop,
         PsmAnswerLoop, PsmAnswerEnd, PsmAnswerStatus, Goto, Call
    <3>4. pc = "psm_ret" /\ UNCHANGED addr BY <3>3 DEF PsmReturn
    <3>5. lastmessage BY <3>1, <3>4 DEF RemainingOK, Site, PsmLabels
    <3> QED BY <2>1, <3>4, <3>5 DEF WriteEndOK
  <2>3. CASE PsmTop \/ PsmLoop \/ PsmWrite \/ PsmAnswerTop \/ PsmAnswerLoop \/ PsmReturn
    BY <2>2, <2>3 DEF PsmTop, PsmLoop, PsmWrite, PsmAnswerTop, PsmAnswerLoop,
       PsmAnswerStatus, PsmReturn, Goto, Call, WriteEndOK
  <2>4. CASE PsmUntalk
    <3>1. pc = "psm_done" /\ UNCHANGED <<addr, lastmessage>> /\ addr = "listen"
      BY <1>4, <2>4 DEF PsmUntalk, ListenOK
    <3>2. ~timedout BY <1>4, <3>1 DEF TimeoutOK, Site, PsmLabels
    <3>3. IF lastmessage THEN pc' = "bus" /\ k' = 1 ELSE pc' = "psm_end"
      BY <2>4, <3>2 DEF PsmUntalk, MessageEnds, Call, Goto
    <3> QED BY <2>2, <3>1, <3>3 DEF WriteEndOK
  <2>5. CASE PsmEnd
    <3>1. /\ pc = "psm_end" /\ UNCHANGED <<addr, lastmessage>>
          /\ pc' = "bus" => ret' = "poll_end"
      BY <2>5 DEF PsmEnd, Call, Goto
    <3> QED BY <2>1, <2>2, <3>1 DEF WriteEndOK
  <2>6. CASE PsmAnswerEnd
    <3>1. addr' = "idle"
      BY <2>6 DEF PsmAnswerEnd, PsmAnswerStatus, handle_control_Req_ReadStatusByte,
         SerialPoll, Unaddressed
    <3> QED BY <2>2, <3>1 DEF WriteEndOK
  <2> QED BY <2>2, <2>3, <2>4, <2>5, <2>6
<1> QED BY <1>1, <1>2, <1>3, <1>4 DEF AddressInv, AddressedOK, Aborting

(* TMC_Task finds no packet, or one that is neither a write nor a read.    *)
LEMMA AddressOther ==
  ASSUME IInv, AddressInv,
         NoHeader \/ UnknownMessage \/ Trigger \/ NotifyStatusByte
  PROVE  AddressInv'
<1>1. /\ UNCHANGED <<abortVars, internal_response, TMC_InLastMessageComplete>>
      /\ UNCHANGED s_remaining_bytes_receive
      /\ addr' = addr \/ addr' = "idle"
      /\ pc \in BetweenSites /\ pc' \in {"rstb", "reset"}
  BY DEF NoHeader, UnknownMessage, Trigger, NotifyStatusByte, Header, Goto,
     AddressedCommand, Unaddressed, BetweenSites, TaskLabels
<1>2. /\ pc' \notin {"usb", "bus", "psm_end", "psm_ret"} /\ pc' \notin RoundSites
      /\ Site' \notin ReadSites /\ Site' \notin GnmLabels /\ pc' # "in_reply"
  BY <1>1 DEF Site, ReadSites, GnmLabels, RoundSites
<1>3. RoundsBeginClean' /\ ReadTimeoutOK' /\ PolledIdle' /\ WriteEndOK' /\ ReadOK'
  BY <1>2 DEF RoundsBeginClean, ReadTimeoutOK, PolledIdle, WriteEndOK, ReadOK
<1>4. ~Aborting => BetweenOK BY DEF AddressInv, AddressedOK
<1>5. ~Aborting' => BetweenOK' BY <1>1, <1>4 DEF BetweenOK, Aborting
<1> QED BY <1>2, <1>3, <1>5 DEF AddressInv, AddressedOK

(* A packet of a write: only an internal command is done without the bus.  *)
LEMMA AddressBegin ==
  ASSUME IInv, EndpointInv, AddressInv, DeviceOut \/ ReceiveMore PROVE AddressInv'
<1> USE DEF IInv, Structure
<1>1. /\ UNCHANGED <<abortVars, addr, TMC_InLastMessageComplete>>
      /\ \/ pc' = "bus" /\ ret' = "psm_top" /\ byte' = "good"
         \/ pc' = "psm_top"
         \/ pc' = "psm_end" /\ DeviceOut
         \/ pc' = "rstb" /\ pc = "more"
            /\ UNCHANGED <<s_remaining_bytes_receive, internal_response>>
  BY DEF DeviceOut, ReceiveMore, ProcessSentMessage, InternalCommand, Call, Goto
<1>2. /\ pc' \notin RoundSites /\ pc' # "usb" /\ pc' # "in_reply"
      /\ Site' \notin ReadSites /\ Site' \notin GnmLabels
      /\ pc' = "bus" => ret' = "psm_top" /\ byte' = "good"
      /\ pc' # "psm_ret"
  BY <1>1 DEF Site, ReadSites, GnmLabels, RoundSites
<1>3. RoundsBeginClean' /\ ReadTimeoutOK' /\ PolledIdle' /\ ReadOK'
  BY <1>2 DEF RoundsBeginClean, ReadTimeoutOK, PolledIdle, ReadOK, ReadSites, GnmLabels
<1>4. ASSUME ~Aborting, pc' = "psm_end" PROVE addr' = "idle"
  <2>1. pc = "hdr" /\ outq # <<>> /\ Head(outq).kind # "IN"
    BY <1>1, <1>4 DEF DeviceOut, Header
  <2>2. TMC_InLastMessageComplete BY <1>4, <2>1, AloneFacts
  <2>3. s_remaining_bytes_receive = 0 BY <2>1 DEF RemainingOK, Site
  <2>4. BetweenOK BY <1>4 DEF AddressInv, AddressedOK
  <2> QED BY <1>1, <2>1, <2>2, <2>3, <2>4 DEF BetweenOK, BetweenSites, TaskLabels
<1>5. ~Aborting => WriteEndOK' BY <1>1, <1>2, <1>4 DEF WriteEndOK
<1>6. ASSUME ~Aborting PROVE BetweenOK'
  <2>1. CASE pc' = "rstb"
    <3>1. Site = "more" BY <1>1, <2>1 DEF Site
    <3>2. s_remaining_bytes_receive' > 0 BY <1>1, <2>1, <3>1 DEF RemainingOK
    <3> QED BY <3>2 DEF BetweenOK
  <2>2. CASE pc' # "rstb"
    BY <1>1, <2>2 DEF BetweenOK, BetweenSites, TaskLabels
  <2> QED BY <2>1, <2>2
<1> QED BY <1>1, <1>2, <1>3, <1>5, <1>6 DEF AddressInv, AddressedOK, Aborting

(* A read request: from the adapter's own response, or from the instrument.*)
LEMMA AddressIn == ASSUME IInv, AddressInv, DeviceIn PROVE AddressInv'
<1> USE DEF IInv, Structure
<1>1. pc = "hdr" /\ UNCHANGED <<abortVars, addr>> BY DEF DeviceIn, Header
<1>2. s_remaining_bytes_receive = 0 BY <1>1 DEF RemainingOK, Site
<1>3. /\ addr # "listen"
      /\ internal_response > 0 => addr = "idle"
  BY <1>1, <1>2 DEF AddressInv, AddressedOK, BetweenOK, RoundSites, BetweenSites,
     TaskLabels
<1>4. CASE internal_response > 0
  <2>1. pc' = "in_reply" BY <1>4 DEF DeviceIn, Goto
  <2> QED
    BY <1>1, <1>3, <1>4, <2>1 DEF AddressInv, RoundsBeginClean, ReadTimeoutOK,
       PolledIdle, AddressedOK, BetweenOK, WriteEndOK, ReadOK, Site, BetweenSites,
       ReadSites, GnmLabels, RoundSites
<1>5. CASE ~(internal_response > 0)
  <2>1. /\ pc' = "gnm_loop" \/ (pc' = "bus" /\ ret' = "gnm_loop" /\ byte' = "good")
        /\ timedout' = FALSE /\ UNCHANGED internal_response
    BY <1>5 DEF DeviceIn, GetNextMessage, Call, Goto
  <2>2. internal_response = 0 BY <1>5 DEF TypeOK, MessageTypes
  <2> QED
    BY <1>1, <1>3, <2>1, <2>2 DEF AddressInv, RoundsBeginClean, ReadTimeoutOK,
       PolledIdle, AddressedOK, BetweenOK, WriteEndOK, ReadOK, Site, BetweenSites,
       TaskLabels, ReadSites, GnmLabels, RoundSites
<1> QED BY <1>4, <1>5

(* GetNextMessage releases the instrument after its last byte.             *)
LEMMA AddressGnm == ASSUME IInv, AddressInv, GnmLoop \/ GnmEnd PROVE AddressInv'
<1> USE DEF IInv, Structure
<1>1. pc \in GnmLabels /\ Site \in GnmLabels /\ Site \in ReadSites
      /\ UNCHANGED <<abortVars, addr, timedout, internal_response>>
  BY DEF GnmLoop, GnmEnd, Site, GnmLabels, ReadSites
<1>2. ~Aborting => addr # "listen" /\ internal_response = 0 /\ ~timedout
  BY <1>1 DEF AddressInv, AddressedOK, ReadOK, ReadTimeoutOK
<1>3. \/ pc' = "gnm_end"
      \/ pc' = "bus" /\ ret' = "gnm_loop" /\ byte' = "good"
      \/ pc' = "bus" /\ ret' = "in_reply" /\ byte' = "good" /\ lastmessage'
      \/ pc' = "in_reply" /\ (lastmessage' => timedout)
  BY DEF GnmLoop, GnmEnd, MessageEnds, Call, Goto, TypeOK, LocalTypes
<1>4. Aborting' <=> Aborting BY <1>1 DEF Aborting
<1>5. /\ pc' # "usb" /\ pc' \notin RoundSites \cup BetweenSites
      /\ pc' # "psm_end" /\ pc' # "psm_ret" /\ (pc' = "bus" => byte' = "good")
      /\ pc' = "bus" => ret' # "psm_end"
  BY <1>3 DEF RoundSites, BetweenSites, TaskLabels
<1>6. RoundsBeginClean' /\ PolledIdle' /\ BetweenOK' /\ WriteEndOK'
  BY <1>5 DEF RoundsBeginClean, PolledIdle, BetweenOK, WriteEndOK
<1>7. ReadTimeoutOK' BY <1>1, <1>2, <1>4 DEF ReadTimeoutOK
<1>8. ~Aborting => ReadOK'
  BY <1>1, <1>2, <1>3 DEF ReadOK, TypeOK, MessageTypes
<1> QED BY <1>4, <1>5, <1>6, <1>7, <1>8 DEF AddressInv, AddressedOK

(* The response goes out, and the end of TMC_Task.                         *)
LEMMA AddressReply == ASSUME IInv, AddressInv, ReplyIn PROVE AddressInv'
<1> USE DEF IInv, Structure
<1>1. pc = "in_reply" /\ pc' = "rstb" /\ UNCHANGED abortVars
  BY DEF ReplyIn, Goto
<1>2. RoundsBeginClean' /\ ReadTimeoutOK' /\ PolledIdle' /\ WriteEndOK' /\ ReadOK'
  BY <1>1 DEF RoundsBeginClean, ReadTimeoutOK, PolledIdle, WriteEndOK, ReadOK, Site,
     ReadSites, GnmLabels
<1>3. ASSUME ~Aborting PROVE BetweenOK'
  <2>1. /\ TMC_InLastMessageComplete' = lastmessage
        /\ UNCHANGED <<addr, internal_response>>
    BY <1>3 DEF ReplyIn, Aborting
  <2>2. /\ addr # "listen"
        /\ lastmessage \/ internal_response > 0 => addr = "idle"
    BY <1>1, <1>3 DEF AddressInv, AddressedOK, ReadOK, Site, ReadSites
  <2> QED BY <2>1, <2>2 DEF BetweenOK
<1>4. pc' \notin RoundSites BY <1>1 DEF RoundSites
<1> QED BY <1>1, <1>2, <1>3, <1>4 DEF AddressInv, AddressedOK, Aborting

LEMMA AddressFinish == ASSUME IInv, AddressInv, FinishTask PROVE AddressInv'
<1>1. pc = "reset" /\ pc' = "usb" /\ ~Aborting' BY DEF FinishTask, Goto, Aborting
<1>2. /\ RoundsBeginClean' /\ ReadTimeoutOK' /\ PolledIdle' /\ WriteEndOK'
      /\ ReadOK'
  BY <1>1 DEF RoundsBeginClean, ReadTimeoutOK, PolledIdle, WriteEndOK, ReadOK, Site,
     ReadSites, GnmLabels
<1>3. BetweenOK'
  <2>1. CASE Aborting
    BY <2>1 DEF FinishTask, TMC_resetstates, gpib_interface_clear, Unaddressed, BetweenOK
  <2>2. CASE ~Aborting
    <3>1. BetweenOK BY <2>2 DEF AddressInv, AddressedOK
    <3> QED BY <1>1, <2>2, <3>1 DEF FinishTask, BetweenOK, BetweenSites, TaskLabels
  <2> QED BY <2>1, <2>2
<1> QED BY <1>2, <1>3 DEF AddressInv, AddressedOK

LEMMA AddressStep ==
  ASSUME IInv, EndpointInv, AddressInv, [Next]_vars PROVE AddressInv'
<1>1. CASE \/ UsbTask \/ ServiceRequest \/ SelectiveDeviceClear
           \/ SendLocalLockout \/ GotoLocalAndRen
  BY <1>1, AddressRound
<1>2. CASE Waiting BY <1>2, AddressWait
<1>3. CASE CommandAccepted BY <1>3, AddressCommand
<1>4. CASE DataAccepted \/ DataRead BY <1>4, AddressData
<1>5. CASE \/ PsmTop \/ PsmLoop \/ PsmWrite \/ PsmUntalk \/ PsmEnd
           \/ PsmAnswerTop \/ PsmAnswerLoop \/ PsmAnswerEnd \/ PsmReturn
  BY <1>5, AddressPsm
<1>6. CASE NoHeader \/ UnknownMessage \/ Trigger \/ NotifyStatusByte
  BY <1>6, AddressOther
<1>7. CASE DeviceOut \/ ReceiveMore BY <1>7, AddressBegin
<1>8. CASE DeviceIn BY <1>8, AddressIn
<1>9. CASE GnmLoop \/ GnmEnd BY <1>9, AddressGnm
<1>10. CASE ReplyIn BY <1>10, AddressReply
<1>11. CASE FinishTask BY <1>11, AddressFinish
<1>12. CASE Host \/ Instrument \/ UNCHANGED vars
  <2>1. /\ UNCHANGED <<abortVars, pc, callVars, addr, timedout, lastmessage>>
        /\ UNCHANGED <<s_remaining_bytes_receive, TMC_InLastMessageComplete>>
        /\ UNCHANGED internal_response
    BY <1>12 DEF Host, HostSend, HostContinue, HostRequest, HostCheck, HostCancel,
       Instrument, InstrumentRaises, InstrumentAnswers, vars
  <2> QED BY <2>1, AddressFrame
<1> QED
  BY <1>1, <1>2, <1>3, <1>4, <1>5, <1>6, <1>7, <1>8, <1>9, <1>10, <1>11, <1>12,
     Zenon
  DEF Next, Firmware, Handshakes, Transfer, Task

(* How the instrument is addressed at each place, with a host that does    *)
(* not interrupt a response.                                               *)
THEOREM Addressed == ASSUME "interrupt" \notin Habits PROVE Spec => []AddressInv
<1>1. Init => AddressInv
  BY DEF Init, AddressInv, RoundsBeginClean, ReadTimeoutOK, PolledIdle, AddressedOK,
     BetweenOK, WriteEndOK, ReadOK, Aborting, Site, ReadSites, GnmLabels
<1>2. IInv /\ EndpointInv /\ AddressInv /\ [Next]_vars => AddressInv'
  BY AddressStep
<1>3. Spec => []IInv BY Inductive
<1>4. Spec => []EndpointInv BY OneAtATime
<1> QED BY <1>1, <1>2, <1>3, <1>4, PTL DEF Spec

(* Between two rounds of the main loop the instrument listens while a      *)
(* message is unfinished, and is unaddressed when nothing is.              *)
THEOREM BusMatches ==
  ASSUME "interrupt" \notin Habits PROVE Spec => []BusMatchesTransfers
<1>1. IInv /\ AddressInv => BusMatchesTransfers
  <2> SUFFICES ASSUME IInv, AddressInv PROVE BusMatchesTransfers OBVIOUS
  <2>1. ASSUME pc = "usb", ~Aborting, s_remaining_bytes_receive > 0
        PROVE  addr = "listen"
    BY <2>1 DEF IInv, Structure, ListenOK, PsmLabels
  <2>2. ASSUME pc = "usb", ~Aborting, s_remaining_bytes_receive = 0,
               TMC_InLastMessageComplete
        PROVE  addr = "idle"
    BY <2>2 DEF AddressInv, AddressedOK, BetweenOK, BetweenSites, TaskLabels
  <2> QED BY <2>1, <2>2 DEF BusMatchesTransfers
<1>2. Spec => []IInv BY Inductive
<1>3. Spec => []AddressInv BY Addressed
<1> QED BY <1>1, <1>2, <1>3, PTL

(* Go to local waits for every message sent before it and for a quiet bus. *)
THEOREM LocalLast == ASSUME "interrupt" \notin Habits PROVE Spec => LocalAfterWrites
<1> DEFINE Falls == pc = "gtl" /\ handleGoToLocal /\ ~handleGoToLocal'
           Quiet == /\ addr = "idle" /\ s_remaining_bytes_receive = 0
                    /\ \A i \in 1..Len(outq) : outq[i].tag > reqTag
<1>1. IInv /\ AddressInv /\ [Next]_vars => [Falls => Quiet]_vars
  <2> SUFFICES ASSUME IInv, AddressInv, [Next]_vars, Falls PROVE Quiet OBVIOUS
  <2> USE DEF IInv, Structure
  <2>1. GotoLocalAndRen
    <3>1. CASE Task
      BY <3>1 DEF Task, UsbTask, ServiceRequest, SelectiveDeviceClear,
         SendLocalLockout, NoHeader, UnknownMessage, Trigger, DeviceOut, DeviceIn,
         Header, ReceiveMore, NotifyStatusByte, FinishTask
    <3>2. CASE Transfer
      BY <3>2 DEF Transfer, PsmTop, PsmLoop, PsmWrite, PsmUntalk, PsmEnd, PsmReturn,
         PsmAnswerTop, PsmAnswerLoop, PsmAnswerEnd, PsmAnswerStatus, GnmLoop, GnmEnd,
         ReplyIn
    <3>3. CASE Waiting \/ Handshakes
      BY <3>3 DEF Waiting, PollTimeout, PollTimeoutReadStatusByte, Handshakes,
         CommandAccepted, DataAccepted, DataRead
    <3>4. CASE Host \/ Instrument \/ UNCHANGED vars
      BY <3>4 DEF Host, HostSend, HostContinue, HostRequest, HostCheck, HostCancel,
         Instrument, InstrumentRaises, InstrumentAnswers, vars
    <3> QED BY <3>1, <3>2, <3>3, <3>4 DEF Next, Firmware
  <2>2. TMC_InLastMessageComplete /\ outq = <<>>
    BY <2>1 DEF GotoLocalAndRen, TransfersComplete
  <2>3. s_remaining_bytes_receive = 0 BY DEF RemainingOK, Site
  <2>4. addr = "idle"
    BY <2>2, <2>3 DEF AddressInv, AddressedOK, BetweenOK, RoundSites, BetweenSites,
       TaskLabels
  <2>5. \A i \in 1..Len(<<>>) : FALSE OBVIOUS
  <2> QED BY <2>2, <2>3, <2>4, <2>5
<1>2. Spec => []IInv BY Inductive
<1>3. Spec => []AddressInv BY Addressed
<1> QED BY <1>1, <1>2, <1>3, PTL DEF Spec, LocalAfterWrites

-----------------------------------------------------------------------------
(* THE TALKER                                                              *)

(* A host that is not curious polls no status during a read; a lockout is  *)
(* one the host asks for; a device clear is part of an abort.              *)
LEMMA RequestFlags ==
  ASSUME IInv, NoPoll, Lockouts, ClearAborts, [Next]_vars, "curious" \notin Habits
  PROVE  NoPoll' /\ Lockouts' /\ ClearAborts'
<1> USE DEF IInv, NoPoll, Lockouts, ClearAborts
<1> DEFINE Kept == /\ ctl' = ctl \/ ctl' \notin {"ReadStatusByte", "LocalLockout"}
                   /\ hin' => hin
                   /\ hmore' => hin \/ hmore
                   /\ handleLocalLockout' => handleLocalLockout
                   /\ handleSDC' => handleSDC
                   /\ Aborting => Aborting'
<1>1. Kept => NoPoll' /\ Lockouts' /\ ClearAborts' OBVIOUS
<1>2. CASE UsbTask \/ Waiting
  <2>1. /\ FlagRequest \/ NoRequest \/ ReadStatusByteNow
        /\ UNCHANGED <<hin, hmore>>
    BY <1>2 DEF UsbTask, Waiting, PollTimeout, PollTimeoutReadStatusByte
  <2>2. /\ ctl' = ctl \/ ctl' \notin {"ReadStatusByte", "LocalLockout"}
        /\ handleLocalLockout' => handleLocalLockout \/ ctl = "LocalLockout"
        /\ handleSDC' => handleSDC \/ Aborting'
    BY <2>1 DEF FlagRequest, NoRequest, InitiateAbortBulkOut, InitiateAbortBulkIn,
       InitiateClear, CheckAbortBulkOutStatus, CheckAbortBulkInStatus,
       CheckClearStatus, CheckStatus, IndicatorPulse, AskTask, RenControl,
       LocalLockout, GoToLocal, DeferReadStatusByte, Replied, Aborting,
       ReadStatusByteNow, handle_control_Req_ReadStatusByte
  <2>3. Aborting => Aborting' BY <2>1, RequestEffect
  <2> QED BY <2>1, <2>2, <2>3
<1>3. CASE Transfer
  <2>1. UNCHANGED abortVars /\ (UNCHANGED ctl \/ ctl' = "none")
    BY <1>3 DEF Transfer, PsmTop, PsmLoop, PsmWrite, PsmUntalk, PsmEnd, PsmReturn,
       PsmAnswerTop, PsmAnswerLoop, PsmAnswerEnd, PsmAnswerStatus, GnmLoop, GnmEnd,
       ReplyIn, TMC_resetstates, handle_control_Req_ReadStatusByte
  <2>2. /\ (hin' => hin) /\ (hmore' => hin \/ hmore)
        /\ UNCHANGED handleLocalLockout \/ handleLocalLockout' = FALSE
        /\ UNCHANGED handleSDC \/ handleSDC' = FALSE
    BY <1>3 DEF Transfer, PsmTop, PsmLoop, PsmWrite, PsmUntalk, PsmEnd, PsmReturn,
       PsmAnswerTop, PsmAnswerLoop, PsmAnswerEnd, PsmAnswerStatus, GnmLoop, GnmEnd,
       ReplyIn, TMC_resetstates, handle_control_Req_ReadStatusByte
  <2>3. Kept BY <2>1, <2>2 DEF Aborting
  <2> QED BY <1>1, <2>3
<1>4. CASE Task /\ ~UsbTask /\ ~FinishTask
  <2>1. UNCHANGED <<abortVars, ctl, hin, hmore>>
    BY <1>4 DEF Task, ServiceRequest, SelectiveDeviceClear, SendLocalLockout,
       GotoLocalAndRen, NoHeader, UnknownMessage, Trigger, DeviceOut, DeviceIn,
       ReceiveMore, NotifyStatusByte
  <2>2. /\ UNCHANGED handleLocalLockout \/ handleLocalLockout' = FALSE
        /\ UNCHANGED handleSDC \/ handleSDC' = FALSE
    BY <1>4 DEF Task, ServiceRequest, SelectiveDeviceClear, SendLocalLockout,
       GotoLocalAndRen, NoHeader, UnknownMessage, Trigger, DeviceOut, DeviceIn,
       ReceiveMore, NotifyStatusByte
  <2>3. Kept BY <2>1, <2>2 DEF Aborting
  <2> QED BY <1>1, <2>3
<1>5. CASE FinishTask
  <2>1. /\ UNCHANGED <<ctl, hin, hmore>>
        /\ handleLocalLockout' => handleLocalLockout
        /\ ~handleSDC'
    BY <1>5 DEF FinishTask, TMC_resetstates
  <2> QED BY <2>1
<1>6. CASE Handshakes \/ Instrument \/ UNCHANGED vars
  <2>1. UNCHANGED <<abortVars, ctl, hin, hmore, handleLocalLockout, handleSDC>>
    BY <1>6 DEF Handshakes, CommandAccepted, DataAccepted, DataRead, Instrument,
       InstrumentRaises, InstrumentAnswers, vars
  <2>2. Kept BY <2>1 DEF Aborting
  <2> QED BY <1>1, <2>2
<1>7. CASE HostSend
  <2>1. /\ UNCHANGED <<ctl, handleLocalLockout, handleSDC, abortVars>>
        /\ ctl = "ReadStatusByte" => ~hin' /\ ~hmore'
    BY <1>7 DEF HostSend
  <2> QED BY <2>1 DEF Aborting
<1>8. CASE HostContinue \/ HostCancel
  <2>1. Kept BY <1>8 DEF HostContinue, HostCancel, Aborting
  <2> QED BY <1>1, <2>1
<1>9. CASE HostRequest
  <2>1. /\ UNCHANGED <<handleLocalLockout, handleSDC, abortVars>> /\ ctl' \in Requests
        /\ ctl' = "ReadStatusByte" => ~hin' /\ ~hmore'
    BY <1>9 DEF HostRequest, Initiates
  <2> QED BY <2>1 DEF Aborting
<1>10. CASE HostCheck
  <2>1. ctl' \in Checks
    BY <1>10 DEF HostCheck, CheckFor, Checks, TypeOK, FlagTypes, Initiates
  <2>2. Kept BY <1>10, <2>1 DEF HostCheck, Aborting, Checks
  <2> QED BY <1>1, <2>2
<1> QED
  BY <1>2, <1>3, <1>4, <1>5, <1>6, <1>7, <1>8, <1>9, <1>10
  DEF Next, Firmware, Task, Host

(* No status request of such a host is answered while a response is        *)
(* unfinished.                                                             *)
LEMMA PollsBetweenReads ==
  ASSUME EndpointInv, NoPoll, ~Aborting, ReadStatusByteNow
  PROVE  TMC_InLastMessageComplete /\ Site \notin ReadSites
<1>1. ctl = "ReadStatusByte" BY DEF ReadStatusByteNow
<1>2. ~hin /\ ~hmore /\ ~Revoked BY <1>1 DEF NoPoll, Revoked, Initiates
<1> QED BY <1>2 DEF EndpointInv, ReadAlone

(* The main loop up to the endpoints, and the packets that are no read.    *)
LEMMA TalkRound ==
  ASSUME IInv, EndpointInv, AddressInv, TalkerInv,
         \/ UsbTask \/ ServiceRequest \/ SelectiveDeviceClear \/ SendLocalLockout
         \/ GotoLocalAndRen \/ NoHeader \/ UnknownMessage \/ Trigger
         \/ NotifyStatusByte \/ DeviceOut \/ ReceiveMore
  PROVE  TalkOK'
<1> USE DEF IInv, TalkerInv
<1>1. /\ pc \in BetweenSites
      /\ pc' \in BetweenSites \cup PsmLabels \/ (pc' = "bus" /\ fn' = "make_listener"
                                                 /\ ret' = "psm_top")
      /\ UNCHANGED TMC_InLastMessageComplete
  BY DEF UsbTask, ServiceRequest, SelectiveDeviceClear, SendLocalLockout,
     GotoLocalAndRen, NoHeader, UnknownMessage, Trigger, NotifyStatusByte, DeviceOut,
     ReceiveMore, Header, ProcessSentMessage, Call, Goto, BetweenSites, TaskLabels,
     PsmLabels
<1>2. UnpolledRead' /\ Talking'
  BY <1>1 DEF UnpolledRead, Talking, BetweenSites, TaskLabels, PsmLabels, ReadSites,
     GnmLabels
<1>3. Aborting => Aborting'
  <2>1. CASE UsbTask
    <3>1. FlagRequest \/ NoRequest \/ ReadStatusByteNow BY <2>1 DEF UsbTask
    <3> QED BY <3>1, RequestEffect
  <2>2. CASE ~UsbTask
    BY <2>2 DEF ServiceRequest, SelectiveDeviceClear, SendLocalLockout,
       GotoLocalAndRen, NoHeader, UnknownMessage, Trigger, NotifyStatusByte,
       DeviceOut, ReceiveMore, Aborting
  <2> QED BY <2>1, <2>2
<1>4. ASSUME ~Aborting, Undisturbed, ~TMC_InLastMessageComplete
      PROVE  UNCHANGED <<addr, internal_response>>
  <2>1. CASE UsbTask
    <3>1. ~ReadStatusByteNow BY <1>4, PollsBetweenReads
    <3> QED BY <2>1, <3>1 DEF UsbTask
  <2>2. CASE ServiceRequest
    <3>1. MaxEvents = 0 /\ stb \subseteq 1..MaxEvents
      BY <1>4 DEF Undisturbed, TypeOK, StatusTypes
    <3>2. stb = {} BY <3>1
    <3> QED BY <2>2, <3>2 DEF ServiceRequest
  <2>3. CASE SelectiveDeviceClear
    BY <1>4, <2>3 DEF SelectiveDeviceClear, ClearAborts
  <2>4. CASE SendLocalLockout
    BY <1>4, <2>4 DEF SendLocalLockout, Lockouts, Undisturbed
  <2>5. CASE GotoLocalAndRen
    BY <1>4, <2>5 DEF GotoLocalAndRen, TransfersComplete
  <2>6. CASE NoHeader \/ NotifyStatusByte
    BY <2>6 DEF NoHeader, NotifyStatusByte
  <2>7. CASE UnknownMessage \/ Trigger \/ DeviceOut
    <3>1. outq # <<>> /\ Head(outq).kind # "IN"
      BY <2>7 DEF UnknownMessage, Trigger, DeviceOut, Header
    <3> QED BY <1>4, <3>1, AloneFacts
  <2>8. CASE ReceiveMore
    <3>1. Site = "more" BY <2>8 DEF ReceiveMore, Site
    <3>2. s_remaining_bytes_receive > 0 BY <3>1 DEF Structure, RemainingOK
    <3> QED BY <1>4, <3>2 DEF EndpointInv, WriteAfterRead
  <2> QED BY <2>1, <2>2, <2>3, <2>4, <2>5, <2>6, <2>7, <2>8
<1>5. ~Aborting /\ Undisturbed => StillTalking'
  <2>1. pc' # "in_reply"
    BY <1>1 DEF BetweenSites, PsmLabels, TaskLabels
  <2>2. ~Aborting /\ Undisturbed => StillTalking BY DEF TalkOK
  <2> QED BY <1>1, <1>4, <2>1, <2>2 DEF StillTalking
<1> QED BY <1>2, <1>3, <1>5 DEF TalkOK, Undisturbed

(* The handshakes: make_talker ends with the instrument's talk address.    *)
LEMMA TalkBus ==
  ASSUME IInv, EndpointInv, AddressInv, TalkerInv, Waiting \/ Handshakes PROVE TalkOK'
<1> USE DEF IInv, TalkerInv
<1>1. /\ pc = "bus" /\ UNCHANGED <<messageVars, internal_response>>
      /\ ret \in PsmLabels \cup ReadSites
  BY DEF Waiting, PollTimeout, PollTimeoutReadStatusByte, Handshakes, CommandAccepted,
     DataAccepted, DataRead, Structure, CallOK, PsmLabels, ReadSites, GnmLabels
<1>2. CASE Waiting
  <2>1. FlagRequest \/ NoRequest \/ ReadStatusByteNow
    BY <1>2 DEF Waiting, PollTimeout, PollTimeoutReadStatusByte
  <2>2. Aborting => Aborting' BY <2>1, RequestEffect
  <2>3. SUFFICES ASSUME ~Aborting' PROVE TalkOK' BY DEF TalkOK
  <2>4. KeepsWaiting
    BY <1>2, <2>2, <2>3 DEF Waiting, PollTimeout, PollTimeoutReadStatusByte,
       AbortPending, Aborting
  <2>5. UNCHANGED <<pc, fn, ret>> BY <2>4 DEF KeepsWaiting
  <2>6. ret \in ReadSites => UNCHANGED <<addr, byte>>
    <3>1. CASE PollTimeout
      BY <2>3, <3>1 DEF PollTimeout, AbortPending, Aborting
    <3>2. CASE PollTimeoutReadStatusByte
      <4>1. Site \notin ReadSites
        BY <2>2, <2>3, <3>2, PollsBetweenReads DEF PollTimeoutReadStatusByte
      <4> QED BY <1>1, <4>1 DEF Site
    <3> QED BY <1>2, <3>1, <3>2 DEF Waiting
  <2>7. fn = "readdat" => ret \in ReadSites
    BY <1>1 DEF Structure, CallOK, ReadSites, GnmLabels
  <2>8. UnpolledRead' BY <2>2, <2>3, <2>5, <2>6 DEF TalkOK, UnpolledRead
  <2>9. TMC_InLastMessageComplete \/ Undisturbed => Talking'
    BY <1>1, <2>2, <2>3, <2>5, <2>6, <2>7 DEF TalkOK, Talking
  <2>10. StillTalking'
    BY <1>1, <2>5 DEF StillTalking, BetweenSites, TaskLabels
  <2> QED BY <1>1, <2>8, <2>9, <2>10 DEF TalkOK, Undisturbed
<1>3. CASE CommandAccepted
  <2>1. ~Aborting /\ (fn \in AddressingFns) /\ (Aborting' <=> Aborting)
        /\ UNCHANGED lastmessage
    BY <1>3 DEF CommandAccepted, Aborting
  <2>2. UnpolledRead /\ ReadOK
    BY <2>1 DEF TalkOK, AddressInv, AddressedOK
  <2>3. CASE k < Len(CommandsOf(fn))
    <3>1. pc' = "bus" /\ byte' = "good" /\ fn' # "readdat"
      BY <1>3, <2>1, <2>3 DEF CommandAccepted, AddressingFns
    <3> QED BY <3>1 DEF TalkOK, UnpolledRead, Talking, StillTalking, BetweenSites,
               TaskLabels
  <2>4. CASE ~(k < Len(CommandsOf(fn)))
    <3>1. /\ pc' = ret
          /\ addr' = IF byte = "good" THEN Hear(CommandsOf(fn)[k], addr) ELSE addr
      BY <1>3, <2>4 DEF CommandAccepted, Return
    <3>2. pc' \notin BetweenSites /\ pc' # "bus"
      BY <1>1, <3>1 DEF PsmLabels, ReadSites, GnmLabels, BetweenSites, TaskLabels
    <3>3. ret = "in_reply" => lastmessage BY <1>1, <2>2 DEF ReadOK
    <3>4. ASSUME ret \in GnmLabels PROVE addr' = "talk"
      <4>1. fn = "make_talker" /\ k \in 1..3
        BY <1>1, <2>1, <3>4 DEF Structure, CallOK, GnmLabels, AddressingFns
      <4>2. ~(k < 3) BY <2>4, <4>1, CommandFacts
      <4>3. k = 3 BY <4>1, <4>2
      <4>4. byte = "good" BY <1>1, <2>2, <3>4 DEF UnpolledRead, ReadSites
      <4>5. addr \in Addressing BY DEF TypeOK, BusTypes
      <4> QED BY <3>1, <4>1, <4>3, <4>4, <4>5, CommandFacts, HearFacts
    <3>5. UnpolledRead' BY <3>2 DEF UnpolledRead
    <3>6. Talking' BY <3>1, <3>2, <3>4 DEF Talking, GnmLabels
    <3>7. StillTalking' BY <2>1, <3>1, <3>2, <3>3 DEF StillTalking
    <3> QED BY <3>5, <3>6, <3>7 DEF TalkOK
  <2> QED BY <2>3, <2>4
<1>4. CASE DataAccepted
  <2>1. pc' = "psm_loop"
    BY <1>4 DEF DataAccepted, Return, Structure, CallOK, AddressingFns
  <2> QED BY <2>1 DEF TalkOK, UnpolledRead, Talking, StillTalking, BetweenSites,
             TaskLabels
<1>5. CASE DataRead
  <2>1. pc' = "gnm_loop" /\ addr' = "talk"
    BY <1>5 DEF DataRead, Return, Structure, CallOK, AddressingFns
  <2> QED BY <2>1 DEF TalkOK, UnpolledRead, Talking, StillTalking, BetweenSites,
             TaskLabels
<1> QED BY <1>2, <1>3, <1>4, <1>5 DEF Handshakes

(* ProcessSentMessage runs while no response is unfinished.                *)
LEMMA TalkPsm ==
  ASSUME IInv, EndpointInv,
         \/ PsmTop \/ PsmLoop \/ PsmWrite \/ PsmUntalk \/ PsmEnd
         \/ PsmAnswerTop \/ PsmAnswerLoop \/ PsmAnswerEnd \/ PsmReturn
  PROVE  TalkOK'
<1>1. /\ Site \in PsmLabels /\ UNCHANGED <<abortVars, TMC_InLastMessageComplete>>
      /\ \/ pc' \in PsmLabels
         \/ pc' = "rstb"
         \/ pc' = "bus" /\ ret' \in PsmLabels /\ fn' # "readdat"
  BY DEF PsmTop, PsmLoop, PsmWrite, PsmUntalk, PsmEnd, PsmAnswerTop, PsmAnswerLoop,
     PsmAnswerEnd, PsmAnswerStatus, PsmReturn, Goto, Call, Site, PsmLabels
<1>2. ~Aborting => TMC_InLastMessageComplete
  BY <1>1 DEF EndpointInv, WriteAfterRead
<1>3. UnpolledRead' /\ Talking'
  BY <1>1 DEF UnpolledRead, Talking, PsmLabels, ReadSites, GnmLabels
<1>4. ~Aborting => StillTalking'
  BY <1>1, <1>2 DEF StillTalking, PsmLabels, BetweenSites, TaskLabels
<1> QED BY <1>1, <1>3, <1>4 DEF TalkOK, Aborting

(* A read request, GetNextMessage and the response.                        *)
LEMMA TalkRead ==
  ASSUME IInv, AddressInv, TalkerInv, DeviceIn \/ GnmLoop \/ GnmEnd \/ ReplyIn
  PROVE  TalkOK'
<1> USE DEF IInv, TalkerInv
<1>1. UNCHANGED abortVars BY DEF DeviceIn, GnmLoop, GnmEnd, ReplyIn
<1>2. SUFFICES ASSUME ~Aborting, ~Aborting' PROVE TalkOK'
  BY <1>1 DEF TalkOK, Aborting
<1>3. /\ TMC_InLastMessageComplete \/ Undisturbed => Talking
      /\ Undisturbed => StillTalking
  BY <1>2 DEF TalkOK
<1>4. Undisturbed' <=> Undisturbed BY DEF Undisturbed
<1>5. CASE DeviceIn /\ internal_response > 0
  <2>1. /\ pc' = "in_reply"
        /\ internal_response' = internal_response
                                 - LesserOf(internal_response, Head(outq).size)
        /\ lastmessage' = (LesserOf(internal_response, Head(outq).size)
                            = internal_response)
    BY <1>5 DEF DeviceIn, Goto
  <2>2. outq # <<>> /\ HostTypes /\ internal_response \in Nat
    BY <1>5 DEF DeviceIn, Header, TypeOK, MessageTypes
  <2>3. Head(outq).size \in Nat BY <2>2, PacketFacts
  <2>4. \A a, b \in Nat : a - LesserOf(a, b) = 0 => LesserOf(a, b) = a
    BY DEF LesserOf
  <2>5. internal_response' = 0 => lastmessage'
    <3>1. ASSUME internal_response' = 0
          PROVE  LesserOf(internal_response, Head(outq).size) = internal_response
      BY <2>1, <2>2, <2>3, <2>4, <3>1
    <3> QED BY <2>1, <3>1
  <2> QED BY <2>1, <2>5 DEF TalkOK, UnpolledRead, Talking, StillTalking, BetweenSites
<1>6. CASE DeviceIn /\ ~(internal_response > 0)
  <2>1. pc = "hdr" /\ UNCHANGED <<addr, TMC_InLastMessageComplete>>
    BY <1>6 DEF DeviceIn, Header
  <2>2. IF TMC_InLastMessageComplete
          THEN pc' = "bus" /\ fn' = "make_talker" /\ byte' = "good"
          ELSE pc' = "gnm_loop"
    BY <1>6 DEF DeviceIn, GetNextMessage, Call, Goto
  <2>3. internal_response = 0 BY <1>6 DEF TypeOK, MessageTypes
  <2>4. Undisturbed /\ ~TMC_InLastMessageComplete => addr = "talk"
    BY <1>3, <2>1, <2>3 DEF StillTalking, BetweenSites, TaskLabels
  <2> QED BY <1>4, <2>1, <2>2, <2>4 DEF TalkOK, UnpolledRead, Talking, StillTalking,
             BetweenSites, TaskLabels
<1>7. CASE GnmLoop
  <2>1. /\ pc = "gnm_loop" /\ UNCHANGED <<addr, TMC_InLastMessageComplete>>
        /\ pc' = "gnm_end" \/ (pc' = "bus" /\ byte' = "good")
    BY <1>7 DEF GnmLoop, Call, Goto
  <2> QED BY <1>3, <1>4, <2>1 DEF TalkOK, UnpolledRead, Talking, StillTalking,
             BetweenSites, TaskLabels
<1>8. CASE GnmEnd
  <2>1. /\ pc = "gnm_end" /\ UNCHANGED <<addr, TMC_InLastMessageComplete>>
        /\ \/ pc' = "bus" /\ byte' = "good" /\ fn' # "readdat"
           \/ pc' = "in_reply"
    BY <1>8 DEF GnmEnd, MessageEnds, Call, Goto
  <2>2. ~timedout
    BY <1>2, <2>1 DEF AddressInv, ReadTimeoutOK, Site, GnmLabels
  <2>3. lastmessage' = (lastmessage \/ timedout) BY <1>8 DEF GnmEnd
  <2>4. Undisturbed /\ ~lastmessage' => addr = "talk"
    BY <1>3, <2>1, <2>3 DEF Talking
  <2> QED BY <1>4, <2>1, <2>4 DEF TalkOK, UnpolledRead, Talking, StillTalking,
             BetweenSites, TaskLabels
<1>9. CASE ReplyIn
  <2>1. /\ pc = "in_reply" /\ pc' = "rstb" /\ TMC_InLastMessageComplete' = lastmessage
        /\ UNCHANGED <<addr, internal_response>>
    BY <1>2, <1>9 DEF ReplyIn, Goto, Aborting
  <2> QED BY <1>3, <1>4, <2>1 DEF TalkOK, UnpolledRead, Talking, StillTalking
<1> QED BY <1>5, <1>6, <1>7, <1>8, <1>9

LEMMA TalkStep ==
  ASSUME IInv, EndpointInv, AddressInv, TalkerInv, [Next]_vars, "curious" \notin Habits
  PROVE  TalkerInv'
<1>1. NoPoll' /\ Lockouts' /\ ClearAborts' BY RequestFlags DEF TalkerInv
<1>2. CASE \/ UsbTask \/ ServiceRequest \/ SelectiveDeviceClear \/ SendLocalLockout
           \/ GotoLocalAndRen \/ NoHeader \/ UnknownMessage \/ Trigger
           \/ NotifyStatusByte \/ DeviceOut \/ ReceiveMore
  BY <1>1, <1>2, TalkRound DEF TalkerInv
<1>3. CASE Waiting \/ Handshakes BY <1>1, <1>3, TalkBus DEF TalkerInv
<1>4. CASE \/ PsmTop \/ PsmLoop \/ PsmWrite \/ PsmUntalk \/ PsmEnd
           \/ PsmAnswerTop \/ PsmAnswerLoop \/ PsmAnswerEnd \/ PsmReturn
  BY <1>1, <1>4, TalkPsm DEF TalkerInv
<1>5. CASE DeviceIn \/ GnmLoop \/ GnmEnd \/ ReplyIn
  BY <1>1, <1>5, TalkRead DEF TalkerInv
<1>6. CASE FinishTask
  <2>1. pc = "reset" /\ pc' = "usb" BY <1>6 DEF FinishTask, Goto
  <2>2. UnpolledRead' /\ Talking' BY <2>1 DEF UnpolledRead, Talking
  <2>3. StillTalking' \/ ~Undisturbed
    <3>1. CASE Aborting
      BY <1>6, <2>1, <3>1 DEF FinishTask, TMC_resetstates, StillTalking
    <3>2. CASE ~Aborting
      BY <1>6, <2>1, <3>2 DEF FinishTask, TalkerInv, TalkOK, StillTalking,
         BetweenSites, TaskLabels
    <3> QED BY <3>1, <3>2
  <2> QED BY <1>1, <2>2, <2>3 DEF TalkerInv, TalkOK, Undisturbed
<1>7. CASE Host \/ Instrument \/ UNCHANGED vars
  <2>1. /\ UNCHANGED <<abortVars, pc, callVars, addr, lastmessage>>
        /\ UNCHANGED <<TMC_InLastMessageComplete, internal_response>>
    BY <1>7 DEF Host, HostSend, HostContinue, HostRequest, HostCheck, HostCancel,
       Instrument, InstrumentRaises, InstrumentAnswers, vars
  <2> QED BY <1>1, <2>1 DEF TalkerInv, TalkOK, UnpolledRead, Talking, StillTalking,
             Undisturbed, Aborting
<1> QED
  BY <1>2, <1>3, <1>4, <1>5, <1>6, <1>7, Zenon
  DEF Next, Firmware, Transfer, Task

(* Where the instrument talks, with a host that neither interrupts a       *)
(* response nor polls the status during one.                               *)
THEOREM TalksOn ==
  ASSUME "interrupt" \notin Habits, "curious" \notin Habits
  PROVE  Spec => []TalkerInv
<1>1. Init => TalkerInv
  BY DEF Init, TalkerInv, NoPoll, Lockouts, ClearAborts, TalkOK, UnpolledRead,
     Talking, StillTalking
<1>2. IInv /\ EndpointInv /\ AddressInv /\ TalkerInv /\ [Next]_vars => TalkerInv'
  BY TalkStep
<1>3. Spec => []IInv BY Inductive
<1>4. Spec => []EndpointInv BY OneAtATime
<1>5. Spec => []AddressInv BY Addressed
<1> QED BY <1>1, <1>2, <1>3, <1>4, <1>5, PTL DEF Spec

(* Every byte of the first read request of a response comes from an        *)
(* instrument that is the talker.                                          *)
THEOREM FirstReadTalker ==
  ASSUME "interrupt" \notin Habits, "curious" \notin Habits
  PROVE  Spec => []FirstReadKeepsTalker
<1>1. TalkerInv => FirstReadKeepsTalker
  BY DEF TalkerInv, TalkOK, Talking, FirstReadKeepsTalker
<1>2. Spec => []TalkerInv BY TalksOn
<1> QED BY <1>1, <1>2, PTL

(* The same of every read request when no service request is raised and no *)
(* lockout is asked for between them: the two things that take the bus     *)
(* while a response is unfinished.                                         *)
THEOREM ReadTalker ==
  ASSUME "interrupt" \notin Habits, "curious" \notin Habits, Undisturbed
  PROVE  Spec => []ReadKeepsTalker
<1>1. TalkerInv => ReadKeepsTalker
  BY DEF TalkerInv, TalkOK, Talking, ReadKeepsTalker
<1>2. Spec => []TalkerInv BY TalksOn
<1> QED BY <1>1, <1>2, PTL

-----------------------------------------------------------------------------
(* CLEARING                                                                *)

(* Asking for a clear: with every answer read, the endpoint holds no read  *)
(* request and TMC_Task answers none.                                      *)
LEMMA ClearAsked ==
  ASSUME EndpointInv, HostRequest, CarefulClear, ctl' = "InitiateClear"
  PROVE  NothingToRead'
<1>1. /\ ~hin /\ ~Aborting /\ ~Revoked /\ UNCHANGED <<hostFrame, outq>>
  BY DEF CarefulClear, HostRequest, Revoked, Initiates
<1>2. NothingToRead BY <1>1 DEF EndpointInv, ReadAlone, NothingToRead
<1> QED BY <1>1, <1>2 DEF NothingToRead, Site

(* While a clear is pending no read request reaches the endpoint and none  *)
(* is begun.                                                               *)
LEMMA NothingNew ==
  ASSUME IInv, ClearInv, [Next]_vars, ClearPending
  PROVE  NothingToRead'
<1> USE DEF IInv
<1>1. NothingToRead BY DEF ClearInv
<1> DEFINE Kept == /\ outq' = outq
                   /\ Site' \in ReadSites => Site \in ReadSites
<1>2. Kept => NothingToRead' BY <1>1 DEF NothingToRead
<1>3. CASE UsbTask \/ Waiting
  <2>1. UNCHANGED outq
    BY <1>3 DEF UsbTask, Waiting, PollTimeout, PollTimeoutReadStatusByte
  <2>2. Site' = Site \/ Site' \in BetweenSites
    BY <1>3 DEF UsbTask, Waiting, PollTimeout, PollTimeoutReadStatusByte, TimedOut,
       KeepsWaiting, Return, Site, Structure, CallOK, BetweenSites, TaskLabels
  <2> QED BY <1>2, <2>1, <2>2 DEF BetweenSites, ReadSites, TaskLabels, GnmLabels
<1>4. CASE Transfer /\ ~PsmReturn
  <2>1. UNCHANGED outq
    BY <1>4 DEF Transfer, PsmTop, PsmLoop, PsmWrite, PsmUntalk, PsmEnd, PsmAnswerTop,
       PsmAnswerLoop, PsmAnswerEnd, PsmAnswerStatus, GnmLoop, GnmEnd, ReplyIn
  <2>2. Site' \in ReadSites => Site \in ReadSites
    BY <1>4 DEF Transfer, PsmTop, PsmLoop, PsmWrite, PsmUntalk, PsmEnd, PsmAnswerTop,
       PsmAnswerLoop, PsmAnswerEnd, PsmAnswerStatus, GnmLoop, GnmEnd, ReplyIn, Goto,
       Call, Site, ReadSites, GnmLabels
  <2> QED BY <1>2, <2>1, <2>2
<1>5. CASE \/ ServiceRequest \/ SelectiveDeviceClear \/ SendLocalLockout
           \/ GotoLocalAndRen \/ NoHeader \/ DeviceOut \/ ReceiveMore
           \/ NotifyStatusByte
  <2>1. UNCHANGED outq
    BY <1>5 DEF ServiceRequest, SelectiveDeviceClear, SendLocalLockout,
       GotoLocalAndRen, NoHeader, DeviceOut, ReceiveMore, NotifyStatusByte
  <2>2. Site' \notin ReadSites
    BY <1>5 DEF ServiceRequest, SelectiveDeviceClear, SendLocalLockout,
       GotoLocalAndRen, NoHeader, DeviceOut, ReceiveMore, NotifyStatusByte,
       ProcessSentMessage, Goto, Call, Site, ReadSites, GnmLabels
  <2> QED BY <1>2, <2>1, <2>2
<1>6. CASE Trigger \/ PsmReturn
  <2>1. outq # <<>> /\ outq' = Tail(outq)
    BY <1>6 DEF Trigger, PsmReturn, Header, Structure, CallOK, Site, PsmLabels
  <2>2. Site' \notin ReadSites
    BY <1>6 DEF Trigger, PsmReturn, Goto, Site, ReadSites, GnmLabels
  <2>3. \A i \in 1..Len(Tail(outq)) :
          i + 1 \in 1..Len(outq) /\ Tail(outq)[i] = outq[i + 1]
    BY <2>1, Behind DEF TypeOK, HostTypes
  <2> QED BY <1>1, <2>1, <2>2, <2>3 DEF NothingToRead
<1>7. ~DeviceIn
  <2>1. outq # <<>> => 1 \in 1..Len(outq) /\ Head(outq) = outq[1]
    BY Behind DEF TypeOK, HostTypes
  <2> QED BY <1>1, <2>1 DEF NothingToRead, DeviceIn, Header
<1>8. CASE UnknownMessage \/ FinishTask
  <2>1. outq' = <<>> \/ UNCHANGED outq
    BY <1>8 DEF UnknownMessage, FinishTask, FlushOutBanks
  <2>2. Site' \notin ReadSites
    BY <1>8 DEF UnknownMessage, FinishTask, Goto, Site, ReadSites, GnmLabels
  <2>3. \A i \in 1..Len(<<>>) : FALSE OBVIOUS
  <2> QED BY <1>1, <2>1, <2>2, <2>3 DEF NothingToRead
<1>9. CASE Handshakes
  <2>1. UNCHANGED outq
    BY <1>9 DEF Handshakes, CommandAccepted, DataAccepted, DataRead
  <2>2. Site' = Site
    BY <1>9 DEF Handshakes, CommandAccepted, DataAccepted, DataRead, Return, Site,
       Structure, CallOK
  <2> QED BY <1>2, <2>1, <2>2
<1>10. ~HostSend
  BY DEF HostSend, MayStartMessage, ClearPending, ClearInv, SplitClear, Initiates
<1>11. CASE HostContinue
  <2> DEFINE p == [kind |-> "DATA", tag |-> htag, size |-> LesserOf(Chunk, hleft),
                   eom |-> FALSE, bang |-> FALSE]
  <2>1. UNCHANGED <<pc, ret>> /\ outq' = Append(outq, p)
    BY <1>11 DEF HostContinue
  <2>2. p.kind # "IN" OBVIOUS
  <2> HIDE DEF p
  <2>3. /\ Len(Append(outq, p)) = Len(outq) + 1 /\ Len(outq) \in Nat
        /\ Append(outq, p)[Len(outq) + 1] = p
        /\ \A i \in 1..Len(outq) : Append(outq, p)[i] = outq[i]
    BY DEF TypeOK, HostTypes
  <2>4. ASSUME NEW i \in 1..Len(outq') PROVE outq'[i].kind # "IN"
    <3>1. CASE i \in 1..Len(outq) BY <1>1, <2>1, <2>3, <3>1 DEF NothingToRead
    <3>2. CASE i = Len(outq) + 1 BY <2>1, <2>2, <2>3, <3>2
    <3> QED BY <2>1, <2>3, <3>1, <3>2
  <2> QED BY <1>1, <2>1, <2>4 DEF NothingToRead, Site
<1>12. CASE HostRequest \/ HostCheck \/ HostCancel \/ Instrument \/ UNCHANGED vars
  <2>1. UNCHANGED <<pc, ret, outq>>
    BY <1>12 DEF HostRequest, HostCheck, HostCancel, Instrument, InstrumentRaises,
       InstrumentAnswers, vars
  <2> QED BY <1>2, <2>1 DEF Site
<1> QED
  BY <1>3, <1>4, <1>5, <1>6, <1>7, <1>8, <1>9, <1>10, <1>11, <1>12, Zenon
  DEF Next, Firmware, Task, Host

(* The flag of a clear stays with its split request, and both with an      *)
(* abort flag.                                                             *)
LEMMA ClearFlags ==
  ASSUME IInv, ClearInv, [Next]_vars
  PROVE  /\ ClearAborts' /\ SplitClear'
         /\ ClearPending' => ClearPending \/ (HostRequest /\ ctl' = "InitiateClear")
<1> USE DEF IInv, ClearInv, ClearAborts, SplitClear, ClearPending
<1>1. CASE UsbTask \/ Waiting
  <2>1. FlagRequest \/ NoRequest \/ ReadStatusByteNow
    BY <1>1 DEF UsbTask, Waiting, PollTimeout, PollTimeoutReadStatusByte
  <2>2. CASE InitiateClear
    BY <2>2 DEF InitiateClear, Replied, Aborting
  <2>3. CASE ~InitiateClear
    <3>1. UNCHANGED handleSDC /\ (ctl' = ctl \/ ctl' \in {"none", "deferred"})
      BY <2>1, <2>3 DEF FlagRequest, NoRequest, InitiateAbortBulkOut,
         InitiateAbortBulkIn, CheckAbortBulkOutStatus, CheckAbortBulkInStatus,
         CheckClearStatus, CheckStatus, IndicatorPulse, AskTask, RenControl,
         LocalLockout, GoToLocal, DeferReadStatusByte, Replied, ReadStatusByteNow,
         handle_control_Req_ReadStatusByte
    <3>2. Aborting => Aborting' BY <2>1, RequestEffect
    <3>3. RequestInProgress = "InitiateClear" /\ Aborting => UNCHANGED RequestInProgress
      BY <2>1, <2>3 DEF FlagRequest, NoRequest, InitiateAbortBulkOut,
         InitiateAbortBulkIn, AcceptAbort, CheckAbortBulkOutStatus,
         CheckAbortBulkInStatus, CheckClearStatus, CheckStatus, IndicatorPulse,
         AskTask, DeferReadStatusByte, ReadStatusByteNow
    <3> QED BY <3>1, <3>2, <3>3
  <2> QED BY <2>2, <2>3
<1>2. CASE Transfer
  BY <1>2 DEF Transfer, PsmTop, PsmLoop, PsmWrite, PsmUntalk, PsmEnd, PsmReturn,
     PsmAnswerTop, PsmAnswerLoop, PsmAnswerEnd, PsmAnswerStatus, GnmLoop, GnmEnd,
     ReplyIn, TMC_resetstates, handle_control_Req_ReadStatusByte, Aborting
<1>3. CASE FinishTask
  <2>1. UNCHANGED <<RequestInProgress, ctl>> /\ ~handleSDC'
    BY <1>3 DEF FinishTask, TMC_resetstates
  <2> QED BY <2>1
<1>4. CASE (Task /\ ~UsbTask /\ ~FinishTask) \/ Handshakes \/ Instrument \/ UNCHANGED vars
  <2>1. UNCHANGED <<abortVars, ctl>>
    BY <1>4 DEF Task, ServiceRequest, SelectiveDeviceClear, SendLocalLockout,
       GotoLocalAndRen, NoHeader, UnknownMessage, Trigger, DeviceOut, DeviceIn,
       ReceiveMore, NotifyStatusByte, Handshakes, CommandAccepted, DataAccepted,
       DataRead, Instrument, InstrumentRaises, InstrumentAnswers, vars
  <2>2. UNCHANGED handleSDC \/ handleSDC' = FALSE
    BY <1>4 DEF Task, ServiceRequest, SelectiveDeviceClear, SendLocalLockout,
       GotoLocalAndRen, NoHeader, UnknownMessage, Trigger, DeviceOut, DeviceIn,
       ReceiveMore, NotifyStatusByte, Handshakes, CommandAccepted, DataAccepted,
       DataRead, Instrument, InstrumentRaises, InstrumentAnswers, vars
  <2> QED BY <2>1, <2>2 DEF Aborting
<1>5. CASE Host
  <2>1. UNCHANGED <<abortVars, handleSDC>>
    BY <1>5 DEF Host, HostSend, HostContinue, HostRequest, HostCheck, HostCancel
  <2>2. HostRequest \/ UNCHANGED ctl \/ ctl' # "InitiateClear"
    BY <1>5 DEF Host, HostSend, HostContinue, HostCheck, HostCancel, CheckFor, Checks,
       TypeOK, FlagTypes, Initiates
  <2> QED BY <2>1, <2>2 DEF Aborting
<1> QED BY <1>1, <1>2, <1>3, <1>4, <1>5, Zenon DEF Next, Firmware

LEMMA ClearStep ==
  ASSUME IInv, EndpointInv, ClearInv, [Next]_vars, [CarefulClear]_vars
  PROVE  ClearInv'
<1>1. /\ ClearAborts' /\ SplitClear'
      /\ ClearPending' => ClearPending \/ (HostRequest /\ ctl' = "InitiateClear")
  BY ClearFlags
<1>2. CASE ClearPending BY <1>1, <1>2, NothingNew DEF ClearInv
<1>3. CASE HostRequest /\ ctl' = "InitiateClear" /\ CarefulClear
  BY <1>1, <1>3, ClearAsked DEF ClearInv
<1>4. CASE UNCHANGED vars
  <2>1. ClearPending' <=> ClearPending BY <1>4 DEF vars, ClearPending
  <2> QED BY <1>1, <1>2, <2>1 DEF ClearInv
<1> QED BY <1>1, <1>2, <1>3, <1>4 DEF ClearInv

(* The device clear that the host asks for reaches the instrument, for     *)
(* every host that asks when its reads are answered and no abort is under  *)
(* way; bug_clear_in_read shows one that does not wait.                    *)
THEOREM CarefulClears ==
  ASSUME "interrupt" \notin Habits
  PROVE  Spec /\ [][CarefulClear]_vars => ClearReachesInstrument
<1> DEFINE Lost == handleSDC /\ ~handleSDC'
<1>1. Init => ClearInv
  BY DEF Init, ClearInv, ClearAborts, SplitClear, ClearPending
<1>2. IInv /\ EndpointInv /\ ClearInv /\ [Next]_vars /\ [CarefulClear]_vars => ClearInv'
  BY ClearStep
<1>3. IInv /\ ClearInv /\ [Next]_vars => [Lost => pc \in {"sdc", "reset"}]_vars
  <2> SUFFICES ASSUME IInv, ClearInv, [Next]_vars, Lost
               PROVE  pc \in {"sdc", "reset"}
    OBVIOUS
  <2>1. ~ReplyIn
    BY DEF ClearInv, ClearPending, NothingToRead, Site, ReadSites, ReplyIn
  <2>2. CASE Transfer
    BY <2>1, <2>2 DEF Transfer, PsmTop, PsmLoop, PsmWrite, PsmUntalk, PsmEnd,
       PsmReturn, PsmAnswerTop, PsmAnswerLoop, PsmAnswerEnd, PsmAnswerStatus,
       GnmLoop, GnmEnd
  <2>3. CASE Task
    <3>1. CASE UsbTask
      BY <3>1 DEF UsbTask, FlagRequest, NoRequest, ReadStatusByteNow,
         InitiateAbortBulkOut, InitiateAbortBulkIn, InitiateClear,
         CheckAbortBulkOutStatus, CheckAbortBulkInStatus, CheckClearStatus,
         CheckStatus, IndicatorPulse, AskTask, DeferReadStatusByte
    <3>2. CASE ~UsbTask
      BY <2>3, <3>2 DEF Task, ServiceRequest, SelectiveDeviceClear,
         SendLocalLockout, GotoLocalAndRen, NoHeader, UnknownMessage, Trigger,
         DeviceOut, DeviceIn, ReceiveMore, NotifyStatusByte, FinishTask
    <3> QED BY <3>1, <3>2
  <2>4. CASE Waiting
    BY <2>4 DEF Waiting, PollTimeout, PollTimeoutReadStatusByte, FlagRequest,
       NoRequest, ReadStatusByteNow, InitiateAbortBulkOut, InitiateAbortBulkIn,
       InitiateClear, CheckAbortBulkOutStatus, CheckAbortBulkInStatus,
       CheckClearStatus, CheckStatus, IndicatorPulse, AskTask, DeferReadStatusByte
  <2>5. CASE Handshakes
    BY <2>5 DEF Handshakes, CommandAccepted, DataAccepted, DataRead
  <2>6. CASE Host \/ Instrument \/ UNCHANGED vars
    BY <2>6 DEF Host, HostSend, HostContinue, HostRequest, HostCheck, HostCancel,
       Instrument, InstrumentRaises, InstrumentAnswers, vars
  <2> QED BY <2>2, <2>3, <2>4, <2>5, <2>6 DEF Next, Firmware
<1>4. Spec => []IInv BY Inductive
<1>5. Spec => []EndpointInv BY OneAtATime
<1> QED BY <1>1, <1>2, <1>3, <1>4, <1>5, PTL DEF Spec, ClearReachesInstrument
===============================================================================
