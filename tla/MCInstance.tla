----------------------------- MODULE MCInstance -----------------------------
(* Modules for the checking of Instance, each with something that can go   *)
(* wrong: a name imported twice under different limits, segments that      *)
(* overlap, an element that does not exist after others that do, globals   *)
(* that are read from imported ones, and globals that cannot be set up.    *)
EXTENDS Instance

CONSTANTS shared, small, large

Table(type, name, initial, max) ==
  [type |-> type, name |-> name, initial |-> initial, max |-> max]
Own(type, initial, max) == Table(type, NULL, initial, max)

Val(r) == [kind |-> "value", of |-> r]
Glo(i) == [kind |-> "global", of |-> i]
Segment(mode, type, t, offset, inits) ==
  [mode |-> mode, type |-> type, table |-> t, offset |-> offset, inits |-> inits]
Active(t, offset, inits) == Segment("active", "funcref", t, offset, inits)
Passive(type, inits) == Segment("passive", type, 1, 0, inits)
Declared(inits) == Segment("declarative", "funcref", 1, 0, inits)

Import(type, mutable) ==
  [type |-> type, mutable |-> mutable, imported |-> TRUE, init |-> [kind |-> "none", of |-> 0]]
Const(n, mutable) ==
  [type |-> "i32", mutable |-> mutable, imported |-> FALSE, init |-> [kind |-> "const", of |-> n]]
ReadFrom(type, i, mutable) ==
  [type |-> type, mutable |-> mutable, imported |-> FALSE, init |-> [kind |-> "get", of |-> i]]

(* A table of functions beside the host's, an element read from a global   *)
(* that may come to hold a function there is not.                          *)
Plain ==
  [functions |-> <<1>>,
   tables |-> <<Own("funcref", 1, 2), Table("funcref", shared, 1, 9)>>,
   globals |-> <<Import("funcref", FALSE)>>,
   elements |-> <<Active(1, 0, <<Val(1)>>), Passive("funcref", <<Val(1), Glo(1)>>)>>]

(* One name under two limits, segments over one another, and a global read *)
(* from an imported one.                                                   *)
Twice ==
  [functions |-> <<1, 2>>,
   tables |-> <<Table("funcref", shared, 1, 1), Table("funcref", shared, 0, 9)>>,
   globals |-> <<Const(1, TRUE), Import("i32", FALSE), ReadFrom("i32", 2, FALSE)>>,
   elements |-> <<Declared(<<Val(2)>>), Active(1, 0, <<Val(2)>>), Active(2, 0, <<Val(1)>>)>>]

(* Foreign references. *)
Foreign ==
  [functions |-> <<1>>,
   tables |-> <<Own("externref", 1, 1)>>,
   globals |-> <<Import("externref", TRUE)>>,
   elements |-> <<Passive("externref", <<Glo(1)>>)>>]

(* Modules that cannot be attached, each for a later reason. *)
TooFar == [Plain EXCEPT !.elements = <<Active(2, 1, <<Val(1), Val(1)>>)>>]
NoFunction == [Plain EXCEPT !.elements = <<Active(2, 0, <<Val(1)>>), Active(2, 0, <<Val(0), Val(2)>>)>>]
NoType == [Plain EXCEPT !.elements = <<Segment("active", "externref", 1, 0, <<Val(0)>>)>>]
FromGlobal == [Plain EXCEPT !.elements = <<Active(2, 0, <<Glo(1)>>)>>]
Forward == [Plain EXCEPT !.globals = <<ReadFrom("i32", 2, FALSE), Const(1, FALSE)>>]

MCModules == {Plain, Twice, Foreign, TooFar, NoFunction, NoType, FromGlobal, Forward}
MCLength == [a \in HostArrays |-> IF a = small THEN 1 ELSE 2]
=============================================================================
