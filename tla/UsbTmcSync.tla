------------------------------ MODULE UsbTmcSync ------------------------------
(***************************************************************************)
(* More inductive invariants of UsbTmc, beside IInv of UsbTmcInv; each is  *)
(* kept by every step, given IInv and the ones before it:                  *)
(*   SplitInv    what a split request leaves, for every host;              *)
(*   SyncInv     behind HeaderSync: the packets in the OUT endpoint and    *)
(*               those the host still owes are the rest of the message     *)
(*               TMC_Task is in, then whole messages;                      *)
(*   EndpointInv which messages can be under way together;                 *)
(*   AddressInv  behind BusMatchesTransfers and LocalAfterWrites: how the  *)
(*               instrument is addressed at each place;                    *)
(*   TalkerInv   behind ReadKeepsTalker: where the instrument must talk;   *)
(*   ClearInv    behind ClearReachesInstrument, for a careful host.        *)
(***************************************************************************)
EXTENDS UsbTmcInv

(* The host's own part of every transfer is over.                          *)
Revoked == ctl \in Initiates

(* A host that has asked for an abort, or waits for the end of a split     *)
(* request, owes no packet and expects none.                               *)
HostQuiet ==
  Revoked \/ RequestInProgress # "none" => hleft = 0 /\ ~hin /\ ~hmore

(* A split request outlives its abort flags with nothing left to drop and  *)
(* no transfer under way.                                                  *)
Flushed ==
  RequestInProgress # "none" /\ ~Aborting =>
    /\ outq = <<>> /\ s_remaining_bytes_receive = 0 /\ TMC_InLastMessageComplete
    /\ Site \in TaskLabels \ {"in_reply"}

SplitInv == HostQuiet /\ Flushed

-----------------------------------------------------------------------------
(* THE OUT ENDPOINT                                                        *)

(* The packets TMC_Task has not begun: ProcessSentMessage leaves its own   *)
(* in the bank until it is done.                                           *)
Pending == IF Site \in PsmLabels THEN Tail(outq) ELSE outq

(* What is still to come of a message after packet p, if left bytes were   *)
(* to come before it; and whether p is what TMC_Task expects then.         *)
LeftBy(left, p) ==
  CASE p.kind = "DATA" -> left - LesserOf(Chunk, left)
    [] p.kind = "OUT"  -> p.size - LesserOf(FirstChunk, p.size)
    [] OTHER           -> 0

Fits(left, p) == p.kind = "DATA" <=> left > 0

(* The same for the packets of both banks.                                 *)
InOrder(left, q) ==
  /\ Len(q) > 0 => Fits(left, q[1])
  /\ Len(q) > 1 => Fits(LeftBy(left, q[1]), q[2])

LeftAfter(left, q) ==
  CASE Len(q) = 0 -> left
    [] Len(q) = 1 -> LeftBy(left, q[1])
    [] OTHER      -> LeftBy(LeftBy(left, q[1]), q[2])

StreamOK ==
  ~Aborting => /\ InOrder(s_remaining_bytes_receive, Pending)
               /\ Revoked \/ LeftAfter(s_remaining_bytes_receive, Pending) = hleft

(* A host that does not rush has stopped sending when a flag is up.        *)
AbortQuiet == Aborting => hleft = 0
TwoBanks   == Len(outq) <= 2

SyncInv == AbortQuiet /\ TwoBanks /\ StreamOK

-----------------------------------------------------------------------------
(* ADDRESSING                                                              *)

ReadSites    == GnmLabels \cup {"in_reply"}
BetweenSites == TaskLabels \ {"in_reply"}
RoundSites   == {"srq", "sdc", "llo", "gtl", "hdr"}

(* A read request is alone: the last packet, and while it is answered the  *)
(* endpoint is empty.  A response is unfinished only for a host that knows.*)
OneTransfer == hleft > 0 => ~hin
ReadAlone ==
  ~Aborting =>
    /\ Site \in ReadSites => outq = <<>> /\ (hin \/ Revoked)
    /\ \A i \in 1..Len(outq) :
         outq[i].kind = "IN" => i = Len(outq) /\ (hin \/ Revoked)
    /\ TMC_InLastMessageComplete \/ hmore \/ Revoked

(* A host that does not interrupt begins no message while a response is    *)
(* unfinished.                                                             *)
WriteAfterRead ==
  ~Aborting =>
    /\ \A i \in 1..Len(outq) : outq[i].kind # "IN" => TMC_InLastMessageComplete
    /\ s_remaining_bytes_receive > 0 \/ hleft > 0 \/ Site \in PsmLabels
         => TMC_InLastMessageComplete

EndpointInv == OneTransfer /\ ReadAlone /\ WriteAfterRead

(* Only USB_USBTask raises an abort flag: none is up when main() calls it. *)
RoundsBeginClean == pc = "usb" => ~Aborting

(* A timeout inside GetNextMessage comes from an abort flag; a byte that a *)
(* serial poll interrupted has an unaddressed instrument.                  *)
ReadTimeoutOK == Site \in GnmLabels /\ timedout => Aborting
PolledIdle    == pc = "bus" /\ byte # "good" /\ ~Aborting => addr = "idle"

(* Between two messages the instrument does not listen, and is unaddressed *)
(* when no response is unfinished or the adapter answers itself.           *)
BetweenOK ==
  pc \in BetweenSites /\ s_remaining_bytes_receive = 0 =>
    /\ addr # "listen"
    /\ TMC_InLastMessageComplete \/ internal_response > 0 => addr = "idle"

(* A write ends with an instrument that was released.                      *)
WriteEndOK ==
  /\ pc \in {"psm_end", "psm_ret"} /\ lastmessage => addr = "idle"
  /\ pc = "bus" /\ ret = "psm_end" => addr # "talk" /\ (k = 2 => addr = "idle")

(* So does a response; one of the adapter's own never addresses it.        *)
ReadOK ==
  /\ Site \in ReadSites => addr # "listen"
  /\ Site \in GnmLabels => internal_response = 0
  /\ pc = "bus" /\ ret = "in_reply" => internal_response = 0 /\ lastmessage
  /\ pc = "in_reply" /\ (lastmessage \/ internal_response > 0) => addr = "idle"

(* An abort flag changes nothing of it before the round reaches the        *)
(* endpoints.                                                              *)
AddressedOK ==
  ~Aborting \/ pc \in RoundSites => BetweenOK /\ WriteEndOK /\ ReadOK

AddressInv == RoundsBeginClean /\ ReadTimeoutOK /\ PolledIdle /\ AddressedOK

-----------------------------------------------------------------------------
(* THE TALKER                                                              *)

(* Nothing but the host's requests takes the bus between two read requests:*)
(* no service request is polled and no lockout can fail.                   *)
Undisturbed == MaxEvents = 0 /\ "LocalLockout" \notin Requests

(* A host that is not curious asks for no status during a read.            *)
NoPoll      == ctl = "ReadStatusByte" => ~hin /\ ~hmore
Lockouts    == ctl = "LocalLockout" \/ handleLocalLockout => "LocalLockout" \in Requests
ClearAborts == handleSDC => Aborting

(* No poll interrupts an addressing function of a read.                    *)
UnpolledRead == pc = "bus" /\ ret \in ReadSites => byte = "good"

(* The instrument talks from make_talker on until the last byte ...        *)
Talking ==
  /\ pc = "gnm_loop" \/ (pc = "gnm_end" /\ ~lastmessage) => addr = "talk"
  /\ pc = "bus" /\ fn = "readdat" => addr = "talk"

(* ... and, if nothing disturbs it, from one read request to the next.     *)
StillTalking ==
  /\ pc = "in_reply" /\ ~lastmessage /\ internal_response = 0 => addr = "talk"
  /\ pc \in BetweenSites /\ ~TMC_InLastMessageComplete /\ internal_response = 0
       => addr = "talk"

TalkOK ==
  ~Aborting => /\ UnpolledRead
               /\ TMC_InLastMessageComplete \/ Undisturbed => Talking
               /\ Undisturbed => StillTalking

TalkerInv == NoPoll /\ Lockouts /\ ClearAborts /\ TalkOK

(* The first read request of a response keeps its talker whatever service  *)
(* requests and lockouts the host and the instrument think of.             *)
FirstReadKeepsTalker ==
  pc = "bus" /\ fn = "readdat" /\ ~Aborting /\ TMC_InLastMessageComplete
    => addr = "talk"

-----------------------------------------------------------------------------
(* CLEARING                                                                *)

(* A host that asks for a clear only when it has the answer to every read  *)
(* request and no abort is under way, not even one that was refused.       *)
CarefulClear == HostRequest /\ ctl' = "InitiateClear" => ~hin /\ ~Aborting

(* From the request to the device clear nothing is read, and nothing can   *)
(* be: only a response under way takes a pending clear with it (ReplyIn).  *)
ClearPending == ctl = "InitiateClear" \/ handleSDC
NothingToRead ==
  Site \notin ReadSites /\ \A i \in 1..Len(outq) : outq[i].kind # "IN"
SplitClear == handleSDC => RequestInProgress = "InitiateClear"

ClearInv == ClearAborts /\ SplitClear /\ (ClearPending => NothingToRead)
=============================================================================
