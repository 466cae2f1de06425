----------------------------- MODULE TmcDelivery -----------------------------
(***************************************************************************)
(* What the adapter promises about the messages a host writes, as the      *)
(* instrument sees them and without packets, polls and addressing: the     *)
(* bytes of one message at a time, each exactly once, EOI with the last    *)
(* one and with no other; a message is left incomplete only by an abort,   *)
(* and no message outlives the abort.  UsbTmc implements it.               *)
(*                                                                         *)
(* An internal command is a message of no bytes: none of it reaches the    *)
(* instrument.                                                             *)
(***************************************************************************)
EXTENDS Naturals

VARIABLES
  open,        \* a message is under way
  size, eom,   \* its bytes; whether it is an end-of-message transfer
  taken,       \* bytes of it the instrument has accepted
  ended,       \* whether EOI came with the last of them
  aborting     \* an abort is pending

vars == <<open, size, eom, taken, ended, aborting>>

message == <<size, eom, taken, ended>>

Init ==
  /\ ~open /\ ~aborting
  /\ size = 0 /\ eom = FALSE /\ taken = 0 /\ ended = FALSE

Begin ==
  /\ ~open /\ open'
  /\ size' \in Nat /\ eom' \in BOOLEAN
  /\ taken' = 0 /\ ended' = FALSE
  /\ UNCHANGED aborting

(* The instrument accepts the next byte.                                   *)
TakeByte ==
  /\ open /\ taken < size
  /\ taken' = taken + 1
  /\ ended' = (eom /\ taken' = size)
  /\ UNCHANGED <<open, size, eom>>

Accept == TakeByte /\ UNCHANGED aborting

(* Only an abort closes a message before its last byte.                    *)
Close ==
  /\ open /\ ~open'
  /\ taken = size \/ aborting
  /\ UNCHANGED <<message, aborting>>

(* The handshake that sees the abort first may still complete its byte.    *)
BeginAbort ==
  /\ ~aborting /\ aborting'
  /\ TakeByte \/ UNCHANGED <<open, message>>

EndAbort ==
  /\ aborting /\ ~aborting'
  /\ ~open'
  /\ UNCHANGED message

Next == Begin \/ Accept \/ Close \/ BeginAbort \/ EndAbort

Spec == Init /\ [][Next]_vars
=============================================================================
