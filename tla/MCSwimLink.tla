----------------------------- MODULE MCSwimLink -----------------------------
(* Instances of SwimLink for TLC: a memory of ByteMax + 1 bytes, one address *)
(* byte, so an argument buffer is <<count, address, data...>>.               *)
EXTENDS SwimLink

MCDurations == {1280}
MCResets    == {0, ByteMax}
MCAllResets == {0, 1, ByteMax}

Short == {[op |-> "srst", args |-> << >>], [op |-> "swim_entry", args |-> << >>]}

(* Writes and reads of no byte and of two bytes, one cell in both. *)
MCCalls ==
  Short \cup {[op |-> "wotf", args |-> a] : a \in {<<0, 1>>, <<2, 1, 0, 1>>}}
        \cup {[op |-> "rotf", args |-> a] : a \in {<<0, 1>>, <<2, 0>>}}

MCFewCalls ==
  Short \cup {[op |-> "wotf", args |-> <<1, 1, 1>>], [op |-> "rotf", args |-> <<1, 1>>]}
=============================================================================
