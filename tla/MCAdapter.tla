------------------------------ MODULE MCAdapter ------------------------------
(* Instruments for TLC: two that exchange their places at one address, one *)
(* with a secondary address that only knows ID?, one at address 0.         *)
EXTENDS Adapter

Instrument(name, primary, secondaries, idn, id) ==
  [name |-> name, primary |-> primary, secondaries |-> secondaries,
   idn |-> idn, id |-> id]

SomeInstruments ==
  {Instrument("meter", 5, {}, "named", "none"),
   Instrument("source", 5, {}, "unnamed", "none"),
   Instrument("counter", 0, {}, "none", "unnamed"),
   Instrument("tester", 7, {1, 2}, "none", "named"),
   Instrument("analyzer", 9, {4}, "named", "none")}

SomeAddrTexts ==
  {<<p>> : p \in {0, 1, 22, 30, 31, 100, 254}} \cup
  {<<30, s>> : s \in {0, 6, 7, 95, 96, 102, 103, 128, 254}}
=============================================================================
