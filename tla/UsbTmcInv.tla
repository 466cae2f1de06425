------------------------------ MODULE UsbTmcInv ------------------------------
(***************************************************************************)
(* The inductive invariant behind WriteReachesListener and                 *)
(* MessageDelivered: IInv is true initially, every step of UsbTmc keeps it *)
(* (UsbTmcTypes, UsbTmcProofs), and it implies both.                       *)
(***************************************************************************)
EXTENDS UsbTmc

(* Where the thread is, or where it goes on after the GPIB function it is  *)
(* waiting in.                                                             *)
Site == IF pc = "bus" THEN ret ELSE pc

WritingSites == {"psm_top", "psm_loop", "psm_dat", "psm_done", "poll_top",
                 "poll_loop"}
EndingSites  == {"poll_end", "psm_ret"}

(* The call structure: which function waits on behalf of which place.      *)
CallOK ==
  /\ pc = "bus" =>
       \/ fn = "make_listener" /\ k \in 1..4
          /\ ret \in {"psm_top", "psm_loop", "psm_dat", "psm_ret"}
       \/ fn = "make_talker" /\ k \in 1..3 /\ ret = "gnm_loop"
       \/ fn = "untalk_unlisten" /\ k \in 1..2
          /\ ret \in {"poll_top", "poll_loop", "poll_end", "psm_end", "in_reply"}
       \/ fn = "writedat" /\ ret = "psm_loop" /\ Length > 0
       \/ fn = "readdat" /\ ret = "gnm_loop" /\ Length > 0
  /\ Site \in {"psm_dat", "poll_loop"} => Length > 0
  /\ Site \in PsmLabels => outq # <<>>

(* Internal commands fit in their first packet (HostSend).                 *)
ShortInternalCommands ==
  \A i \in 1..Len(outq) : outq[i].bang => outq[i].size <= FirstChunk

(* s_remaining_bytes_receive and TMC_LastMessageComplete agree outside     *)
(* ProcessSentMessage, lastmessage stands for it inside.                   *)
RemainingOK ==
  /\ Site \in PsmLabels => (lastmessage <=> s_remaining_bytes_receive = 0)
  /\ Site \notin PsmLabels =>
       (TMC_LastMessageComplete <=> s_remaining_bytes_receive = 0)
  /\ Site \in {"srq", "sdc", "llo", "gtl", "hdr", "in_reply"} \cup GnmLabels =>
       s_remaining_bytes_receive = 0
  /\ Site = "more" => s_remaining_bytes_receive > 0

(* gpib_write_is_busy keeps the status requests out of every handshake of  *)
(* a write.                                                                *)
BusyOK ==
  /\ Site \in WritingSites \cup {"psm_end"} => gpib_write_is_busy
  /\ Site \in EndingSites => (gpib_write_is_busy <=> ~lastmessage)
  /\ pc = "bus" /\ ret \in EndingSites => ~lastmessage
  /\ pc = "bus" /\ ret \in PsmLabels => byte = "good"
  /\ Site \notin PsmLabels /\ s_remaining_bytes_receive > 0 /\ ~Aborting
       => gpib_write_is_busy

(* A timeout inside ProcessSentMessage comes from an abort flag.           *)
TimeoutOK == Site \in PsmLabels /\ timedout => Aborting

(* The instrument listens while bytes of the message are to come.          *)
ListenOK ==
  ~Aborting =>
    /\ pc \in {"psm_top", "psm_loop", "psm_dat", "psm_done"} => addr = "listen"
    /\ pc = "bus" /\ fn = "writedat" => addr = "listen"
    /\ pc \in {"psm_end", "psm_ret"} /\ ~lastmessage => addr = "listen"
    /\ pc = "bus" /\ ret = "psm_end" => lastmessage
    /\ pc \notin PsmLabels \cup {"bus"} /\ s_remaining_bytes_receive > 0
         => addr = "listen"

(* Every byte of the message is accepted, held in the packet, or still to  *)
(* be received; EOI goes out with the last one.                            *)
CountOK ==
  ~Aborting =>
    /\ Site \in WritingSites => rx + Length + s_remaining_bytes_receive = msgsize
    /\ Site \in EndingSites \cup {"psm_end"} =>
         rx + s_remaining_bytes_receive = msgsize
    /\ Site \notin PsmLabels /\ s_remaining_bytes_receive > 0 =>
         rx + s_remaining_bytes_receive = msgsize /\ ~rxEoi
    /\ Site \in WritingSites =>
         (rxEoi <=> Length = 0 /\ lastmessage /\ TMC_eom /\ msgsize > 0)
    /\ Site = "psm_done" => Length = 0
    /\ Site \in EndingSites \cup {"psm_end"} =>
         (rxEoi <=> lastmessage /\ TMC_eom /\ msgsize > 0)

Structure == /\ CallOK /\ ShortInternalCommands /\ RemainingOK /\ BusyOK
             /\ TimeoutOK /\ ListenOK /\ CountOK

(* At every moment: the types, the call structure, and the bookkeeping of  *)
(* the message under way agree with the addressing of the instrument and   *)
(* with the bytes it has accepted.                                         *)
IInv == TypeOK /\ Structure

-----------------------------------------------------------------------------
(* THE PROMISE TO THE INSTRUMENT                                           *)

(* A message is under way from its header to the bank of its last packet.  *)
Open == Site \in PsmLabels \/ s_remaining_bytes_receive > 0

Delivery == INSTANCE TmcDelivery WITH
  open <- Open, size <- msgsize, eom <- TMC_eom, taken <- rx, ended <- rxEoi,
  aborting <- Aborting

(* Packets, deferred status requests, internal commands, aborts and resets *)
(* together deliver what TmcDelivery promises: also an aborted message     *)
(* sends no byte twice and no EOI before its last byte, so that the        *)
(* instrument never takes a part of a message for a whole one.             *)
DeliverySpec == Delivery!Spec

(* Inductive, given IInv: an abort flag raised between two packets does    *)
(* not disturb the count as long as the instrument still listens.          *)
HeardOK ==
  addr = "listen" =>
    /\ Site \in {"psm_top", "psm_loop", "psm_dat", "poll_top", "poll_loop"} =>
         rx + Length + s_remaining_bytes_receive = msgsize
    /\ Site \in {"usb", "more"} /\ s_remaining_bytes_receive > 0 =>
         rx + s_remaining_bytes_receive = msgsize
=============================================================================
