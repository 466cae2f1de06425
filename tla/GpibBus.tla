------------------------------- MODULE GpibBus -------------------------------
(***************************************************************************)
(* The GPIB command vocabulary of gpib.c and what it does to the one       *)
(* instrument the adapter serves.                                          *)
(*                                                                         *)
(* A command byte (sent with ATN low) is a name: the primary and the       *)
(* optional secondary address byte of gpib_cmd_LAG / gpib_cmd_TAG are one  *)
(* name, "LAG0" and "TAG0" address the adapter itself (address 0).         *)
(***************************************************************************)
EXTENDS Sequences

(* How the instrument is addressed: it accepts data bytes while "listen",  *)
(* sources them while "talk".                                              *)
Addressing == {"idle", "listen", "talk"}

(* The byte sequences of the three addressing functions of gpib.c.         *)
make_listener   == <<"UNT", "TAG0", "UNL", "LAG">>
make_talker     == <<"UNL", "LAG0", "TAG">>
untalk_unlisten == <<"UNL", "UNT">>

AddressingFns == {"make_listener", "make_talker", "untalk_unlisten"}

CommandsOf(f) == CASE f = "make_listener"   -> make_listener
                   [] f = "make_talker"     -> make_talker
                   [] f = "untalk_unlisten" -> untalk_unlisten

(* IEEE 488.1 seen from the instrument (it is not code of this            *)
(* repository): its own listen or talk address selects it, the adapter's   *)
(* talk address takes the talker role away, UNL and UNT release it.        *)
Hear(cmd, a) ==
  CASE cmd = "LAG"                          -> "listen"
    [] cmd = "TAG"                          -> "talk"
    [] cmd = "UNL" /\ a = "listen"          -> "idle"
    [] cmd \in {"UNT", "TAG0"} /\ a = "talk" -> "idle"
    [] OTHER                                -> a

(* An IFC pulse (gpib_interface_clear), a complete serial poll (it ends    *)
(* with UNT after the instrument heard its own talk address), and          *)
(* LAG ... UNL all leave the instrument unaddressed.                       *)
Unaddressed == "idle"
=============================================================================
