----------------------------- MODULE MCHandshake -----------------------------
(* Transactions for TLC: with the instrument's address, primary only and   *)
(* with a secondary address; and with an address that nobody has.          *)
EXTENDS HandshakeInv, GpibTransactions

(* Addressed to somebody else: the instrument hears TAG0 and LAG0 there.   *)
Elsewhere(t) == [j \in 1..Len(t) |->
  IF t[j].byte = "LAG" THEN [t[j] EXCEPT !.byte = "LAG0"] ELSE t[j]]

SomeTransactions ==
  {Message(FALSE), Message(TRUE), Elsewhere(Message(FALSE)),
   FirstRead(TRUE, 2), FirstRead(FALSE, 4), NextRead(2), gpib_untalk_unlisten,
   gpib_readStatusByte(FALSE), gpib_readStatusByte(TRUE),
   Addressed("GTL", TRUE), gpib_localLockout,
   SearchStep(FALSE), SearchStep(TRUE), Elsewhere(SearchStep(FALSE))}

AllNames == STRING
SomeOutput ==
  <<[byte |-> "x", eoi |-> FALSE], [byte |-> "y", eoi |-> FALSE],
    [byte |-> "lf", eoi |-> FALSE], [byte |-> "z", eoi |-> TRUE],
    [byte |-> "lf", eoi |-> TRUE]>>
=============================================================================
