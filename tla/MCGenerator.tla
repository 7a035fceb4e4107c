----------------------------- MODULE MCGenerator -----------------------------
(***************************************************************************)
(* A wiki of three models.  The first row of A's page is a plain element   *)
(* with links; the other rows are those whose merging is of interest, in   *)
(* all combinations on the three pages.                                    *)
(***************************************************************************)
EXTENDS Generator

MCModels == {"A", "B", "C"}
MCStart == <<"A">>
MCUnits == {"", "mV", "V", "l", "ml", "min."}

N(n) == [is |-> "number", n |-> n]
Comma(n) == [is |-> "comma", n |-> n]
Blank == [is |-> "blank", n |-> 0]
Text == [is |-> "text", n |-> 0]

Plain ==
  [ids |-> <<21>>, numBytes |-> 1, type |-> "unsigned", min |-> N(0), max |-> N(5),
   multiplier |-> Blank, units |-> "", description |-> TRUE, hw |-> <<>>]

Axis == [Plain EXCEPT !.ids = <<17>>, !.numBytes = 2, !.type = "signed", !.min = N(-8), !.max = N(8)]
Switch == [Plain EXCEPT !.ids = <<1>>, !.max = N(1)]
Voltage == [Plain EXCEPT !.ids = <<9>>, !.numBytes = 2, !.max = N(15), !.units = "mV"]
Tenths == [Voltage EXCEPT !.multiplier = Comma(1), !.units = "V"]
Bare == [Plain EXCEPT !.max = Blank, !.description = FALSE]
Full == [Plain EXCEPT !.max = N(9), !.units = "l"]
Ports == [Plain EXCEPT !.ids = <<10810, 10812>>, !.type = "other", !.max = N(1)]
Broken == [Plain EXCEPT !.max = Text]
Battery(max) == [Plain EXCEPT !.ids = <<90>>, !.numBytes = 2, !.max = N(max)]

Linked(r, links) == [r EXCEPT !.hw = links]

OnA == {Voltage, Linked(Bare, <<"C">>), Linked(Full, <<"C">>), Linked(Battery(32512), <<"B">>),
        Linked(Battery(16128), <<"B">>), Plain}
OnB == {Linked(Voltage, <<"A">>), Linked(Full, <<"C">>), Linked(Bare, <<"C">>),
        Linked(Battery(16128), <<"C">>), Linked(Battery(32512), <<"C">>)}
OnC == {Linked(Tenths, <<"B">>), Linked(Bare, <<"A", "B">>), Ports, Broken}

MCWikis ==
  {("A" :> <<first, a>>) @@ ("B" :> <<b>>) @@ ("C" :> <<c>>) :
     first \in {Linked(Axis, <<"B", "C">>), Linked(Switch, <<"C">>)},
     a \in OnA, b \in OnB, c \in OnC}

MCBuffers == UNION {[1..w -> 0..(Byte - 1)] : w \in {1, 2}} \cup {<<3, 0, 2, 1>>, <<0, 3, 3, 3>>}
=============================================================================
