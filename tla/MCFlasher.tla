----------------------------- MODULE MCFlasher -----------------------------
(* Values for TLC: the cases of merging and padding, one file each. *)
EXTENDS Flasher

LOCAL Data(a, d) == [addr |-> a, type |-> 0, data |-> d]
LOCAL Eof        == [addr |-> 0, type |-> Type_EOF, data |-> << >>]
LOCAL Linear(a)  == [addr |-> a, type |-> 4, data |-> << >>]

MCFiles == {
  <<Data(1, <<1, 0>>), Eof>>,                       \* inside a block
  <<Data(3, <<1>>), Data(2, <<0>>), Eof>>,          \* out of order, joined, to the block's end
  <<Data(2, <<1, 0, 1>>), Eof>>,                    \* over a boundary
  <<Data(0, <<1>>), Data(2, <<0>>), Eof>>,          \* a gap inside one block
  <<Data(0, <<1, 0, 1>>), Data(3, <<0, 1, 0>>), Eof, Data(7, <<0>>)>>,  \* whole blocks
  <<Data(0, <<1>>), Linear(0), Eof>>,               \* a type the loader refuses
  <<Data(4, <<1>>), Data(6, << >>), Data(7, <<0>>)>>}  \* an empty record, no end
MCProtected == {6}
=============================================================================
