----------------------------- MODULE MemoryPort -----------------------------
(***************************************************************************)
(* What the SWIM driver promises its caller: a port onto the memory of the *)
(* target.  A write stores its bytes in order, a read fetches them in      *)
(* order, and the call returns no error only when all of them were moved.  *)
(* A call that fails has moved some first part of its bytes, no others.    *)
(* All this while the acknowledgements on the wire are heard as they were  *)
(* sent.  Of a call in which one is not, only that it ends as it should,   *)
(* and that a read which returns no error has filled its buffer, with      *)
(* whatever.  The next call is free of it unless the target still is not.  *)
(* SwimLink, the model of driver/swim.c with a target, implements it.      *)
(***************************************************************************)
EXTENDS Integers, Sequences

CONSTANTS Calls,        \* the calls: records of an op and its argument bytes
          Header,       \* bytes before the data: the count and the address
          Cell(_, _),   \* the k-th memory cell an argument sequence names
          InitialMemory

VARIABLES op,     \* the call in progress, "idle" between calls
          args,   \* its arguments
          moved,  \* bytes moved so far
          dest,   \* bytes fetched by the last read
          mem,    \* the memory of the target
          result, \* what the last call returned, 0 during one
          sound   \* nothing was misheard in this call

vars == <<op, args, moved, dest, mem, result, sound>>

Size == IF op \in {"rotf", "wotf"} THEN args[1] ELSE 0

Init ==
  /\ op = "idle" /\ args = << >>
  /\ moved = 0 /\ dest = << >>
  /\ mem = InitialMemory
  /\ result = 0
  /\ sound = TRUE

Begin ==
  /\ op = "idle"
  /\ \E c \in Calls : op' = c.op /\ args' = c.args
  /\ moved' = 0 /\ dest' = << >> /\ result' = 0
  /\ sound' \in BOOLEAN
  /\ UNCHANGED mem

Store ==
  /\ sound
  /\ op = "wotf" /\ moved < Size
  /\ mem' = [mem EXCEPT ![Cell(args, moved)] = args[Header + moved + 1]]
  /\ moved' = moved + 1
  /\ UNCHANGED <<op, args, dest, result, sound>>

Fetch ==
  /\ sound
  /\ op = "rotf" /\ moved < Size
  /\ dest' = Append(dest, mem[Cell(args, moved)])
  /\ moved' = moved + 1
  /\ UNCHANGED <<op, args, mem, result, sound>>

End ==
  /\ op # "idle"
  /\ result' \in Int
  /\ op' = "idle" /\ args' = << >> /\ moved' = 0
  /\ UNCHANGED <<dest, mem>>

Return ==
  /\ sound /\ End
  /\ result' >= 0 => moved = Size
  /\ UNCHANGED sound

(* A step of a call in which an acknowledgement was misheard. *)
Misheard ==
  /\ sound' = FALSE
  /\ \/ UNCHANGED <<op, args, result>>
     \/ End /\ (op = "rotf" /\ result' >= 0 => Len(dest) = Size)

Next == Begin \/ Store \/ Fetch \/ Return \/ Misheard

Spec == Init /\ [][Next]_vars
=============================================================================
