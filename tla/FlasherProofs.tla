--------------------------- MODULE FlasherProofs ---------------------------
(***************************************************************************)
(* Proofs about Flasher, for every flash, every set of files and every     *)
(* number of looks at EOP: the tool and the flash controller take turns,   *)
(* the merge keeps the bytes of the records, and a run that ends well has  *)
(* written them and nothing else.                                          *)
(***************************************************************************)
EXTENDS Flasher, SequenceTheorems, FiniteSetTheorems, WellFoundedInduction, NaturalsInduction, TLAPS

(* Where a run is before it has given the next block away. *)
HoldsBlock == {"unlock", "load", "segment", "head", "tail", "block", "setPrg", "write"}

(* The controller waits for the tool, and no end of an earlier block is     *)
(* left in its status.                                                      *)
Quiet == pc \in HoldsBlock => busy = NoBlock /\ eop = FALSE /\ (prg <=> pc = "write")

(* An EOP that the loop may see is the end of the block it waits for. *)
EndIsOurs == pc = "poll" /\ eop => busy = NoBlock /\ ~prg

(* BlockFinished alone is not inductive: that the loop leaves a finished    *)
(* block behind depends on the EOP it sees not being an older one.          *)
IInv == prg \in BOOLEAN /\ eop \in BOOLEAN /\ Quiet /\ EndIsOurs

-----------------------------------------------------------------------------
LEMMA InitInv == Init => IInv
BY DEF Init, IInv, Quiet, EndIsOurs, HoldsBlock

(* Up to the first block and between two blocks the tool only reads. *)
LEMMA ReadingInv ==
  ASSUME IInv, UnlockProg \/ Load \/ NextSegment \/ PadHead \/ PadTail \/ CheckPrg
  PROVE  IInv'
<1>1. UNCHANGED target
  BY DEF UnlockProg, Load, NextSegment, PadHead, PadTail, CheckPrg, target
<1>2. prg' = prg /\ eop' = eop /\ busy' = busy
  BY <1>1 DEF target
<1>3. pc \in HoldsBlock \ {"setPrg", "write"}
  BY DEF UnlockProg, Load, NextSegment, PadHead, PadTail, CheckPrg, HoldsBlock
<1>4. pc' \in (HoldsBlock \ {"write"}) \cup {"raised", "done"}
  BY DEF UnlockProg, Load, NextSegment, PadHead, PadTail, CheckPrg, GoesTo, HoldsBlock
<1> QED
  BY <1>2, <1>3, <1>4 DEF IInv, Quiet, EndIsOurs, HoldsBlock

LEMMA SetPrgInv ==
  ASSUME IInv, SetPrg
  PROVE  IInv'
<1>1. /\ pc = "setPrg" /\ prg' \in {prg, TRUE} /\ eop' = eop /\ busy' = busy
      /\ pc' \in {"write", "raised"} /\ (~prg' => pc' = "raised")
  BY DEF SetPrg, GoesTo
<1> QED
  BY <1>1 DEF IInv, Quiet, EndIsOurs, HoldsBlock

(* The block is given away with EOP clear, taken or refused. *)
LEMMA WriteBlockInv ==
  ASSUME IInv, WriteBlock
  PROVE  IInv'
<1>1. pc = "write" /\ pc' \in {"poll", "raised"} /\ prg' = prg
  BY DEF WriteBlock, GoesTo
<1>2. eop = FALSE
  BY <1>1 DEF IInv, Quiet, HoldsBlock
<1>3. eop' = FALSE
  BY <1>2 DEF WriteBlock, TakesBlock
<1> QED
  BY <1>1, <1>3 DEF IInv, Quiet, EndIsOurs, HoldsBlock

LEMMA PollInv ==
  ASSUME IInv, Poll \/ GiveUp
  PROVE  IInv'
<1>1. pc = "poll" /\ prg' = prg /\ busy' = busy /\ eop' = FALSE
  BY DEF Poll, GiveUp, ReadsStatus
<1>2. pc' \in {"block", "poll", "raised"} /\ (pc' = "block" => eop)
  BY DEF Poll, GiveUp, GoesTo
<1> QED
  BY <1>1, <1>2 DEF IInv, Quiet, EndIsOurs, HoldsBlock

(* The controller finishes only a block that was given to it. *)
LEMMA ProgrammedInv ==
  ASSUME IInv, Programmed
  PROVE  IInv'
<1>1. busy # NoBlock /\ busy' = NoBlock /\ prg' = FALSE /\ eop' = TRUE /\ pc' = pc
  BY DEF Programmed
<1>2. pc \notin HoldsBlock
  BY <1>1 DEF IInv, Quiet
<1> QED
  BY <1>1, <1>2 DEF IInv, Quiet, EndIsOurs

LEMMA StepInv == IInv /\ [Next]_vars => IInv'
<1> SUFFICES ASSUME IInv, [Next]_vars PROVE IInv'
  OBVIOUS
<1>1. CASE Connect
  <2>1. prg' = FALSE /\ eop' = FALSE /\ busy' = NoBlock /\ pc' = "unlock"
    BY <1>1 DEF Connect
  <2> QED
    BY <2>1 DEF IInv, Quiet, EndIsOurs, HoldsBlock
<1>2. CASE UnlockProg \/ Load \/ NextSegment \/ PadHead \/ PadTail \/ CheckPrg
  BY <1>2, ReadingInv
<1>3. CASE SetPrg
  BY <1>3, SetPrgInv
<1>4. CASE WriteBlock
  BY <1>4, WriteBlockInv
<1>5. CASE Poll \/ GiveUp
  BY <1>5, PollInv
<1>6. CASE Programmed
  BY <1>6, ProgrammedInv
<1>7. CASE UNCHANGED vars
  BY <1>7 DEF vars, target, IInv, Quiet, EndIsOurs
<1> QED
  BY <1>1, <1>2, <1>3, <1>4, <1>5, <1>6, <1>7 DEF Next, Run, WriteSegment

-----------------------------------------------------------------------------
(* The tool reads padding and starts a block only when the controller has   *)
(* finished the last one, and the PRG assertions of Flash.write never fire  *)
(* inside a run.                                                            *)
THEOREM BlockFinishedAlways == Spec => []BlockFinished
<1>1. IInv => BlockFinished
  BY DEF IInv, Quiet, HoldsBlock, BlockFinished
<1> QED
  BY <1>1, InitInv, StepInv, PTL DEF Spec
-----------------------------------------------------------------------------
(* Whole blocks: what is programmed starts and ends at a block's edge. *)
Multiple(n) == \E q \in Nat : n = BlockSize * q

LEMMA Sizes ==
  /\ BlockSize \in Nat /\ BlockSize > 0 /\ Blocks \in Nat /\ Blocks > 0
  /\ BlockSize * Blocks \in Nat /\ BlockSize <= BlockSize * Blocks
  /\ Addresses \subseteq Nat /\ 0 \in Addresses
  /\ \A n \in Nat : n \in Addresses <=> n < BlockSize * Blocks
  /\ Multiple(0)
<1>1. BlockSize \in Nat /\ BlockSize > 0 /\ Blocks \in Nat /\ Blocks > 0
  BY FlasherAssumption
<1>2. BlockSize * Blocks \in Nat /\ BlockSize <= BlockSize * Blocks
  BY <1>1
<1>3. Multiple(0)
  BY <1>1 DEF Multiple
<1> QED
  BY <1>1, <1>2, <1>3 DEF Addresses

LEMMA Rest ==
  ASSUME NEW n \in Nat
  PROVE  /\ n % BlockSize \in 0 .. BlockSize - 1 /\ n - (n % BlockSize) \in Nat
         /\ Multiple(n - (n % BlockSize))
         /\ Multiple(n) <=> n % BlockSize = 0
<1>1. BlockSize \in Nat \ {0}
  BY FlasherAssumption
<1>2. n % BlockSize \in 0 .. BlockSize - 1
  BY <1>1
<1>3. n \div BlockSize \in Nat /\ n = BlockSize * (n \div BlockSize) + (n % BlockSize)
  BY <1>1
<1>4. n - (n % BlockSize) = BlockSize * (n \div BlockSize)
  BY <1>1, <1>2, <1>3
<1>5. Multiple(n - (n % BlockSize)) /\ n - (n % BlockSize) \in Nat
  BY <1>1, <1>3, <1>4 DEF Multiple
<1>6. ASSUME NEW q \in Nat, n = BlockSize * q
      PROVE  n % BlockSize = 0
  BY <1>1, <1>6
<1>7. n % BlockSize = 0 => n - (n % BlockSize) = n
  BY <1>2
<1> QED
  BY <1>2, <1>5, <1>6, <1>7 DEF Multiple

LEMMA EdgesAdd ==
  ASSUME NEW m \in Nat, NEW n \in Nat, Multiple(m), Multiple(n)
  PROVE  Multiple(m + n)
<1>1. PICK q \in Nat : m = BlockSize * q
  BY DEF Multiple
<1>2. PICK r \in Nat : n = BlockSize * r
  BY DEF Multiple
<1>3. m + n = BlockSize * (q + r) /\ q + r \in Nat
  BY <1>1, <1>2, Sizes
<1>4. \E x \in Nat : m + n = BlockSize * x
  BY <1>3, Zenon
<1> QED
  BY <1>4 DEF Multiple

(* Between two edges there is a whole block. *)
LEMMA NextEdge ==
  ASSUME NEW m \in Nat, NEW n \in Nat, Multiple(m), Multiple(n), m < n
  PROVE  m + BlockSize <= n
<1>1. PICK q \in Nat : m = BlockSize * q
  BY DEF Multiple
<1>2. PICK r \in Nat : n = BlockSize * r
  BY DEF Multiple
<1>3. \A b, x, y \in Nat : b * x < b * y => b * x + b <= b * y
  <2>1. \A b, x, y \in Nat : b * x < b * y => x + 1 <= y
    OBVIOUS
  <2>2. \A b, x, y \in Nat : x + 1 <= y => b * (x + 1) <= b * y
    OBVIOUS
  <2>3. \A b, x \in Nat : b * (x + 1) = b * x + b
    OBVIOUS
  <2> QED
    BY <2>1, <2>2, <2>3
<1> QED
  BY <1>1, <1>2, <1>3, Sizes

LEMMA Edges ==
  /\ Multiple(BlockSize) /\ Multiple(BlockSize * Blocks)
<1>1. BlockSize = BlockSize * 1
  BY Sizes
<1> QED
  BY <1>1, Sizes DEF Multiple

(* Where write_segment has aligned addr, and where data are whole blocks. *)
AtEdge      == {"tail", "block", "setPrg", "write", "poll"}
Padded      == {"block", "setPrg", "write", "poll"}
Programming == {"setPrg", "write", "poll"}

IsBlock(b) == Multiple(b.addr) /\ Len(b.data) = BlockSize /\ b.addr + BlockSize <= BlockSize * Blocks

(* Every address the tool works on lies in the flash, and what it programs  *)
(* are whole blocks.                                                        *)
Shape ==
  /\ \A i \in DOMAIN merged : Span(merged[i]) \subseteq Addresses
  /\ \A k \in 1 .. Len(data) : addr + k - 1 \in Addresses
  /\ pc \in AtEdge => Multiple(addr)
  /\ pc \in Padded => Multiple(Len(data)) /\ Multiple(offset) /\ offset <= Len(data)
  /\ pc \in Programming => offset + BlockSize <= Len(data)
  /\ busy # NoBlock => IsBlock(busy)
  /\ pc # "raised" => file \in Files

TInv == TypeOK /\ Shape

LEMMA Typed ==
  ASSUME TInv
  PROVE  /\ addr \in Nat /\ data \in Seq(Bytes) /\ Len(data) \in Nat /\ offset \in Nat
         /\ Len(data) <= BlockSize * Blocks
         /\ addr + Len(data) <= BlockSize * Blocks
<1>1. addr \in Addresses /\ data \in Seq(Bytes) /\ offset \in 0 .. BlockSize * Blocks
  BY DEF TInv, TypeOK
<1>2. addr \in Nat /\ Len(data) \in Nat /\ offset \in Nat
  BY <1>1, Sizes
<1>3. CASE Len(data) = 0
  BY <1>1, <1>2, <1>3, Sizes
<1>4. CASE Len(data) > 0
  <2>1. addr + Len(data) - 1 \in Addresses
    BY <1>2, <1>4 DEF TInv, Shape
  <2>2. addr + Len(data) - 1 \in Nat /\ addr + Len(data) - 1 < BlockSize * Blocks
    BY <1>2, <1>4, <2>1, Sizes
  <2> QED
    BY <1>1, <1>2, <2>2, Sizes
<1> QED
  BY <1>1, <1>2, <1>3, <1>4

LEMMA ReadType ==
  ASSUME TInv, NEW a \in Nat, NEW n \in Nat, \A k \in 1 .. n : a + k - 1 \in Addresses
  PROVE  /\ ReadBytes(a, n) \in Seq(Bytes) /\ Len(ReadBytes(a, n)) = n
         /\ \A k \in 1 .. n : ReadBytes(a, n)[k] = mem[a + k - 1]
<1>1. mem \in [Addresses -> Bytes]
  BY DEF TInv, TypeOK
<1>2. \A k \in 1 .. n : mem[a + k - 1] \in Bytes
  BY <1>1
<1>3. ReadBytes(a, n) \in [1 .. n -> Bytes]
  BY <1>2 DEF ReadBytes
<1> QED
  BY <1>3 DEF ReadBytes

LEMMA Joined ==
  ASSUME NEW s \in Seq(Bytes), NEW t \in Seq(Bytes)
  PROVE  /\ s \o t \in Seq(Bytes) /\ Len(s \o t) = Len(s) + Len(t)
         /\ \A k \in 1 .. Len(s) + Len(t) :
              (s \o t)[k] = IF k <= Len(s) THEN s[k] ELSE t[k - Len(s)]
BY ConcatProperties

(* What a padded segment holds: bytes it held before, or read from memory. *)
Carried ==
  \A k \in 1 .. Len(data') :
    LET a == addr' + k - 1 IN
    /\ a \in Addresses
    /\ \/ data'[k] = mem[a] /\ a \notin addr .. addr + Len(data) - 1
       \/ \E j \in 1 .. Len(data) : a = addr + j - 1 /\ data'[k] = data[j]

LEMMA HeadPadded ==
  ASSUME TInv, PadHead
  PROVE  /\ addr' \in Addresses /\ Multiple(addr') /\ data' \in Seq(Bytes) /\ Carried
         /\ addr' <= addr /\ addr' + Len(data') = addr + Len(data)
<1> DEFINE missing == addr % BlockSize
<1>1. addr \in Addresses /\ addr \in Nat /\ data \in Seq(Bytes) /\ Len(data) \in Nat
  BY Typed DEF TInv, TypeOK
<1>2. /\ missing \in 0 .. BlockSize - 1 /\ addr - missing \in Nat /\ Multiple(addr - missing)
  BY <1>1, Rest
<1>3. missing \in Nat /\ addr - missing <= addr /\ addr - missing \in Addresses
  BY <1>1, <1>2, Sizes
<1>4. addr' = addr - missing /\ data' = ReadBytes(addr - missing, missing) \o data
  BY DEF PadHead
<1> HIDE DEF missing
<1>5. \A k \in 1 .. missing : (addr - missing) + k - 1 \in Addresses
  BY <1>1, <1>2, <1>3, Sizes
<1>6. /\ ReadBytes(addr - missing, missing) \in Seq(Bytes)
      /\ Len(ReadBytes(addr - missing, missing)) = missing
      /\ \A k \in 1 .. missing : ReadBytes(addr - missing, missing)[k] = mem[(addr - missing) + k - 1]
  BY <1>2, <1>3, <1>5, ReadType
<1>7. /\ data' \in Seq(Bytes) /\ Len(data') = missing + Len(data)
      /\ \A k \in 1 .. Len(data') :
           data'[k] = IF k <= missing THEN ReadBytes(addr - missing, missing)[k] ELSE data[k - missing]
  <2> DEFINE front == ReadBytes(addr - missing, missing)
  <2>1. front \in Seq(Bytes) /\ Len(front) = missing /\ data' = front \o data
    BY <1>4, <1>6
  <2> HIDE DEF front
  <2>2. data' \in Seq(Bytes) /\ Len(data') = missing + Len(data)
    BY <2>1, <1>1, Joined
  <2>3. \A k \in 1 .. Len(data') : data'[k] = IF k <= missing THEN front[k] ELSE data[k - missing]
    BY <2>1, <2>2, <1>1, Joined
  <2> QED
    BY <2>2, <2>3 DEF front
<1>8. ASSUME NEW k \in 1 .. Len(data')
      PROVE  /\ addr' + k - 1 \in Addresses
             /\ \/ /\ data'[k] = mem[addr' + k - 1]
                   /\ addr' + k - 1 \notin addr .. addr + Len(data) - 1
                \/ \E j \in 1 .. Len(data) : addr' + k - 1 = addr + j - 1 /\ data'[k] = data[j]
  <2>1. CASE k <= missing
    <3>1. k \in 1 .. missing
      BY <2>1, <1>3
    <3>2. (addr - missing) + k - 1 \in Addresses /\ data'[k] = mem[(addr - missing) + k - 1]
      BY <3>1, <2>1, <1>5, <1>6, <1>7
    <3>3. (addr - missing) + k - 1 < addr
      BY <2>1, <1>1, <1>3
    <3> QED
      BY <3>2, <3>3, <1>4, <1>1, <1>3
  <2>2. CASE ~(k <= missing)
    <3>1. k - missing \in 1 .. Len(data) /\ addr' + k - 1 = addr + (k - missing) - 1
      BY <2>2, <1>1, <1>3, <1>4, <1>7
    <3>2. addr + (k - missing) - 1 \in Addresses
      BY <3>1 DEF TInv, Shape
    <3>3. data'[k] = data[k - missing]
      BY <2>2, <1>7
    <3> QED
      BY <3>1, <3>2, <3>3
  <2> QED
    BY <2>1, <2>2
<1>9. Carried
  BY <1>8 DEF Carried
<1>10. addr' + Len(data') = addr + Len(data)
  <2>1. addr' = addr - missing /\ Len(data') = missing + Len(data)
    BY <1>4, <1>7
  <2> QED
    BY <2>1, <1>1, <1>3
<1> QED
  BY <1>2, <1>3, <1>4, <1>7, <1>9, <1>10

LEMMA TailPadded ==
  ASSUME TInv, PadTail
  PROVE  /\ addr' = addr /\ data' \in Seq(Bytes) /\ Multiple(Len(data')) /\ Carried
         /\ Len(data) <= Len(data')
<1> DEFINE missing == Len(data) % BlockSize
           n       == BlockSize - missing
           edge    == Len(data) - missing
<1>1. /\ addr \in Addresses /\ addr \in Nat /\ data \in Seq(Bytes) /\ Len(data) \in Nat
      /\ addr + Len(data) <= BlockSize * Blocks
  BY Typed DEF TInv, TypeOK
<1>2. Multiple(addr) /\ addr' = addr
  BY DEF TInv, Shape, AtEdge, PadTail
<1>3. missing \in 0 .. BlockSize - 1 /\ edge \in Nat /\ Multiple(edge)
      /\ (missing = 0 => Multiple(Len(data)))
  BY <1>1, Rest
<1>4. IF missing = 0 THEN data' = data ELSE data' = data \o ReadBytes(addr + Len(data), n)
  BY DEF PadTail
<1>5. n \in Nat /\ BlockSize \in Nat /\ missing \in Nat
  BY <1>3, Sizes
<1>6. edge = Len(data) - missing /\ n = BlockSize - missing
  OBVIOUS
<1> HIDE DEF missing, n, edge
<1>7. CASE missing = 0
  <2>1. data' = data
    BY <1>4, <1>7
  <2>2. \A k \in 1 .. Len(data) : addr + k - 1 \in Addresses
    BY DEF TInv, Shape
  <2> QED
    BY <2>1, <2>2, <1>1, <1>2, <1>3, <1>7 DEF Carried
<1>8. CASE missing # 0
  <2>1. Multiple(addr + edge) /\ addr + edge < BlockSize * Blocks /\ addr + edge \in Nat
    <3>1. Multiple(addr + edge) /\ addr + edge \in Nat
      BY <1>1, <1>2, <1>3, EdgesAdd
    <3>2. edge < Len(data)
      BY <1>1, <1>3, <1>5, <1>6, <1>8
    <3>3. addr + edge < addr + Len(data)
      BY <3>2, <1>1, <1>3
    <3> QED
      BY <3>1, <3>3, <1>1, Sizes
  <2>2. addr + edge + BlockSize <= BlockSize * Blocks
    BY <2>1, NextEdge, Edges, Sizes
  <2>3. addr + Len(data) + n <= BlockSize * Blocks /\ addr + Len(data) \in Nat
    BY <2>2, <1>1, <1>3, <1>5, <1>6
  <2>4. \A k \in 1 .. n : (addr + Len(data)) + k - 1 \in Addresses
    BY <2>3, <1>5, Sizes
  <2> DEFINE back == ReadBytes(addr + Len(data), n)
  <2>5. /\ back \in Seq(Bytes) /\ Len(back) = n
        /\ \A k \in 1 .. n : back[k] = mem[(addr + Len(data)) + k - 1]
    BY <2>3, <2>4, <1>5, ReadType
  <2>6. data' = data \o back
    BY <1>4, <1>8
  <2> HIDE DEF back
  <2>7. /\ data' \in Seq(Bytes) /\ Len(data') = Len(data) + n
        /\ \A k \in 1 .. Len(data') :
             data'[k] = IF k <= Len(data) THEN data[k] ELSE back[k - Len(data)]
    <3>1. data \in Seq(Bytes) /\ back \in Seq(Bytes)
      BY <2>5, <1>1
    <3>2. /\ data \o back \in Seq(Bytes) /\ Len(data \o back) = Len(data) + Len(back)
          /\ \A k \in 1 .. Len(data) + Len(back) :
               (data \o back)[k] = IF k <= Len(data) THEN data[k] ELSE back[k - Len(data)]
      BY ONLY <3>1, Joined
    <3> QED
      BY <2>5, <2>6, <3>2
  <2>8. Multiple(Len(data'))
    <3>1. Len(data') = edge + BlockSize
      <4> DEFINE size == Len(data)
                 padded == Len(data')
      <4>1. /\ padded = size + n /\ size \in Nat /\ n \in Nat /\ missing \in Nat
            /\ BlockSize \in Nat /\ edge = size - missing /\ n = BlockSize - missing
        BY <2>7, <1>1, <1>5, <1>6
      <4> HIDE DEF size, padded
      <4>2. padded = edge + BlockSize
        BY ONLY <4>1
      <4> QED
        BY <4>2 DEF padded
    <3> QED
      BY <3>1, <1>3, <1>5, EdgesAdd, Edges
  <2>9. ASSUME NEW k \in 1 .. Len(data')
        PROVE  /\ addr' + k - 1 \in Addresses
               /\ \/ /\ data'[k] = mem[addr' + k - 1]
                   /\ addr' + k - 1 \notin addr .. addr + Len(data) - 1
                  \/ \E j \in 1 .. Len(data) : addr' + k - 1 = addr + j - 1 /\ data'[k] = data[j]
    <3>1. CASE k <= Len(data)
      <4>1. k \in 1 .. Len(data) /\ data'[k] = data[k]
        BY <3>1, <2>7, <1>1
      <4>2. addr + k - 1 \in Addresses
        BY <4>1 DEF TInv, Shape
      <4> QED
        BY <4>1, <4>2, <1>2
    <3>2. CASE ~(k <= Len(data))
      <4>1. /\ k - Len(data) \in 1 .. n
            /\ (addr + Len(data)) + (k - Len(data)) - 1 = addr + k - 1
        BY <3>2, <2>7, <1>1, <1>5
      <4>2. data'[k] = mem[(addr + Len(data)) + (k - Len(data)) - 1]
        BY <4>1, <3>2, <2>5, <2>7
      <4>3. (addr + Len(data)) + (k - Len(data)) - 1 \in Addresses
        BY <4>1, <2>4
      <4>4. ~(addr + k - 1 <= addr + Len(data) - 1)
        BY <3>2, <2>7, <1>1, <1>5
      <4> QED
        BY <4>1, <4>2, <4>3, <4>4, <1>1, <1>2
    <3> QED
      BY <3>1, <3>2
  <2> QED
    BY <2>7, <2>8, <2>9, <1>1, <1>2, <1>5 DEF Carried
<1> QED
  BY <1>7, <1>8

-----------------------------------------------------------------------------
(* The merge of the records.  Their order: a rank is a place, and every    *)
(* place is some record's rank.                                            *)

LEMMA LeastNat ==
  ASSUME NEW S, S \subseteq Nat, S # {}
  PROVE  Min(S) \in S /\ \A y \in S : Min(S) <= y
<1> DEFINE R == OpToRel(<, Nat)
<1>0. IsWellFoundedOn(R, Nat)
  BY NatLessThanWellFounded
<1> HIDE DEF R
<1>1. PICK x \in S : \A y \in S : ~(<<y, x>> \in R)
  BY <1>0, WFMin
<1>2. \A y \in S : x <= y
  <2>1. ASSUME NEW y \in S PROVE x <= y
    <3>1. x \in Nat /\ y \in Nat /\ <<y, x>> \notin R
      BY <1>1
    <3>2. <<y, x>> \in Nat \X Nat
      BY <3>1
    <3>3. ~(y < x)
      BY <3>1, <3>2 DEF R, OpToRel
    <3> QED
      BY <3>1, <3>3
  <2> QED
    BY <2>1
<1> QED
  BY <1>2 DEF Min

LEMMA RecordFields ==
  ASSUME NEW r \in Record
  PROVE  r.addr \in Addresses /\ r.addr \in Nat /\ r.data \in Seq(Bytes) /\ Len(r.data) \in Nat
<1>1. r.addr \in Addresses /\ r.data \in Seq(Bytes)
  BY DEF Record
<1>2. Addresses \subseteq Nat
  BY Sizes
<1>3. Len(r.data) \in Nat
  BY <1>1, LenProperties
<1> QED
  BY <1>1, <1>2, <1>3

LEMMA RecordAt ==
  ASSUME NEW s \in Seq(Record), NEW i \in DOMAIN s
  PROVE  s[i] \in Record /\ s[i].addr \in Nat /\ i \in Nat
<1>1. s[i] \in Record /\ i \in Nat
  OBVIOUS
<1> QED
  BY <1>1, RecordFields

LEMMA RankRange ==
  ASSUME NEW s \in Seq(Record), NEW j \in DOMAIN s
  PROVE  /\ Rank(s, j) \in DOMAIN s
         /\ IsFiniteSet({i \in DOMAIN s : Before(s, i, j)})
<1> DEFINE S == {i \in DOMAIN s : Before(s, i, j)}
<1>1. Len(s) \in Nat /\ DOMAIN s = 1 .. Len(s)
  OBVIOUS
<1>2. IsFiniteSet(1 .. Len(s)) /\ Cardinality(1 .. Len(s)) = Len(s)
  <2>1. IsFiniteSet(1 .. Len(s)) /\ Cardinality(1 .. Len(s)) = IF 1 > Len(s) THEN 0 ELSE (Len(s) - 1) + 1
    <3>1. 1 \in Int /\ Len(s) \in Int
      BY <1>1
    <3> QED
      BY <3>1, FS_Interval, Zenon
  <2> QED
    BY <1>1, <2>1
<1>3. S \in SUBSET (1 .. Len(s))
  BY <1>1
<1>4. IsFiniteSet(S) /\ Cardinality(S) <= Len(s) /\ Cardinality(S) \in Nat
  BY <1>2, <1>3, FS_Subset, FS_CardinalityType
<1>5. s[j].addr \in Nat
  BY RecordAt
<1>6. j \in S
  BY <1>1, <1>5 DEF Before
<1> HIDE DEF S
<1>7. Cardinality(S) # 0
  BY <1>4, <1>6, FS_EmptySet
<1> QED
  BY <1>1, <1>4, <1>7 DEF Rank, S

LEMMA RankOrders ==
  ASSUME NEW s \in Seq(Record), NEW i \in DOMAIN s, NEW j \in DOMAIN s, i # j, Before(s, i, j)
  PROVE  Rank(s, i) < Rank(s, j)
<1> DEFINE S(x) == {h \in DOMAIN s : Before(s, h, x)}
<1>1. /\ DOMAIN s \subseteq Int
      /\ \A h \in DOMAIN s : s[h].addr \in Int
  <2>1. \A h \in DOMAIN s : s[h].addr \in Nat /\ h \in Nat
    BY RecordAt
  <2> QED
    BY <2>1
<1>2. S(i) \subseteq S(j)
  BY <1>1 DEF Before
<1>3. j \in S(j) /\ j \notin S(i)
  BY <1>1 DEF Before
<1>4. IsFiniteSet(S(j)) /\ IsFiniteSet(S(i))
  BY RankRange
<1>5. Rank(s, i) = Cardinality(S(i)) /\ Rank(s, j) = Cardinality(S(j))
  BY DEF Rank
<1> HIDE DEF S
<1>6. S(i) \in SUBSET S(j) /\ S(i) # S(j)
  BY <1>2, <1>3
<1>7. Cardinality(S(i)) <= Cardinality(S(j)) /\ Cardinality(S(i)) # Cardinality(S(j))
  BY <1>4, <1>6, FS_Subset
<1>8. Cardinality(S(i)) \in Nat /\ Cardinality(S(j)) \in Nat
  BY <1>4, FS_CardinalityType
<1> QED
  BY <1>5, <1>7, <1>8

LEMMA RankBijective ==
  ASSUME NEW s \in Seq(Record)
  PROVE  /\ \A i, j \in DOMAIN s : Rank(s, i) = Rank(s, j) => i = j
         /\ \A k \in DOMAIN s : \E j \in DOMAIN s : Rank(s, j) = k
<1> DEFINE f == [j \in DOMAIN s |-> Rank(s, j)]
<1>1. ASSUME NEW i \in DOMAIN s, NEW j \in DOMAIN s, Rank(s, i) = Rank(s, j) PROVE i = j
  <2> SUFFICES ASSUME i # j PROVE FALSE
    OBVIOUS
  <2>1. s[i].addr \in Nat /\ s[j].addr \in Nat /\ i \in Nat /\ j \in Nat
    BY RecordAt
  <2>2. Before(s, i, j) \/ Before(s, j, i)
    BY <2>1 DEF Before
  <2>3. Rank(s, i) < Rank(s, j) \/ Rank(s, j) < Rank(s, i)
    BY <2>2, RankOrders
  <2>4. Rank(s, i) \in Int /\ Rank(s, j) \in Int
    <3>1. Rank(s, i) \in DOMAIN s /\ Rank(s, j) \in DOMAIN s /\ \A h \in DOMAIN s : h \in Nat
      BY RankRange, RecordAt
    <3> QED
      BY <3>1
  <2> QED
    BY <1>1, <2>3, <2>4
<1>2. f \in Injection(DOMAIN s, DOMAIN s)
  <2>1. f \in [DOMAIN s -> DOMAIN s]
    BY RankRange
  <2>2. \A i, j \in DOMAIN s : f[i] = f[j] => i = j
    BY <1>1
  <2> QED
    BY <2>1, <2>2 DEF Injection, IsInjective
<1>3. IsFiniteSet(DOMAIN s)
  <2>1. Len(s) \in Nat /\ DOMAIN s = 1 .. Len(s)
    OBVIOUS
  <2> QED
    BY <2>1, FS_Interval
<1> HIDE DEF f
<1>4. f \in Surjection(DOMAIN s, DOMAIN s)
  BY <1>2, <1>3, FS_Injection
<1>5. \A k \in DOMAIN s : \E j \in DOMAIN s : f[j] = k
  BY <1>4 DEF Surjection
<1> QED
  BY <1>1, <1>5 DEF f

(* What is sorted are the same records. *)
LEMMA ByAddressKeeps ==
  ASSUME NEW s \in Seq(Record)
  PROVE  /\ ByAddress(s) \in Seq(Record)
         /\ \A k \in DOMAIN ByAddress(s) : \E j \in DOMAIN s : ByAddress(s)[k] = s[j]
         /\ \A j \in DOMAIN s : \E k \in DOMAIN ByAddress(s) : ByAddress(s)[k] = s[j]
<1> DEFINE p(k) == CHOOSE j \in DOMAIN s : Rank(s, j) = k
           t == ByAddress(s)
<1>1. t = [k \in 1 .. Len(s) |-> s[p(k)]] /\ DOMAIN t = DOMAIN s /\ Len(s) \in Nat
  BY DEF ByAddress
<1>2. ASSUME NEW k \in DOMAIN s PROVE p(k) \in DOMAIN s /\ Rank(s, p(k)) = k
  BY RankBijective
<1>3. ASSUME NEW k \in DOMAIN s PROVE t[k] = s[p(k)]
  BY <1>1
<1> HIDE DEF p, t
<1>4. \A k \in 1 .. Len(s) : s[p(k)] \in Record
  BY <1>2, ElementOfSeq
<1>5. t \in Seq(Record)
  BY <1>1, <1>4
<1>6. ASSUME NEW j \in DOMAIN s PROVE \E k \in DOMAIN t : t[k] = s[j]
  <2>1. Rank(s, j) \in DOMAIN s
    BY RankRange
  <2>2. p(Rank(s, j)) = j
    BY <1>2, <2>1, RankBijective
  <2> QED
    BY <1>1, <1>3, <2>1, <2>2
<1> QED
  BY <1>1, <1>2, <1>3, <1>5, <1>6 DEF t

(* They are in the order of their addresses, those at one address in the    *)
(* order of the file: the sort of ihx.py:26.                                *)
LEMMA ByAddressSorts ==
  ASSUME NEW s \in Seq(Record), NEW k \in DOMAIN s, NEW l \in DOMAIN s, k < l
  PROVE  \E i, j \in DOMAIN s :
           /\ ByAddress(s)[k] = s[i] /\ ByAddress(s)[l] = s[j]
           /\ s[i].addr < s[j].addr \/ (s[i].addr = s[j].addr /\ i < j)
<1> DEFINE p(n) == CHOOSE j \in DOMAIN s : Rank(s, j) = n
<1>1. ByAddress(s)[k] = s[p(k)] /\ ByAddress(s)[l] = s[p(l)]
  BY DEF ByAddress
<1>2. /\ p(k) \in DOMAIN s /\ Rank(s, p(k)) = k
      /\ p(l) \in DOMAIN s /\ Rank(s, p(l)) = l
  BY RankBijective
<1> HIDE DEF p
<1>3. /\ s[p(k)].addr \in Nat /\ s[p(l)].addr \in Nat /\ p(k) \in Nat /\ p(l) \in Nat
      /\ k \in Nat /\ l \in Nat
  BY <1>2, RecordAt
<1>4. p(k) # p(l)
  BY <1>2, <1>3
<1>5. ~Before(s, p(l), p(k))
  <2> SUFFICES ASSUME Before(s, p(l), p(k)) PROVE FALSE
    OBVIOUS
  <2>1. l < k
    BY <1>2, <1>4, RankOrders
  <2> QED
    BY <1>3, <2>1
<1>6. s[p(k)].addr < s[p(l)].addr \/ (s[p(k)].addr = s[p(l)].addr /\ p(k) < p(l))
  BY <1>3, <1>4, <1>5 DEF Before
<1> QED
  BY <1>1, <1>2, <1>6

(* The recursion of the merge has a solution, record by record. *)
Unmerged == [addr |-> 0, data |-> << >>, out |-> << >>]

IsMerging(f, records, n) ==
  f = [m \in 0 .. n |-> IF m = 0 THEN Unmerged ELSE Merge(f[m - 1], records[m])]

LEMMA MergingExists ==
  ASSUME NEW records, NEW n \in Nat
  PROVE  \E f : IsMerging(f, records, n)
<1> DEFINE bad == {m \in Nat : ~ \E f : IsMerging(f, records, m)}
<1> SUFFICES ASSUME bad # {} PROVE FALSE
  OBVIOUS
<1>1. bad \subseteq Nat
  OBVIOUS
<1> HIDE DEF bad
<1>2. PICK m \in bad : \A y \in bad : m <= y
  BY <1>1, LeastNat
<1> USE DEF bad
<1>3. m \in Nat /\ ~ \E f : IsMerging(f, records, m)
  OBVIOUS
<1>4. CASE m = 0
  <2> DEFINE f == [i \in 0 .. 0 |-> Unmerged]
  <2>1. IsMerging(f, records, 0)
    BY DEF IsMerging
  <2> QED
    BY <1>3, <1>4, <2>1
<1>5. CASE m # 0
  <2>1. m - 1 \in Nat /\ ~(m <= m - 1)
    BY <1>3, <1>5
  <2>2. m - 1 \notin bad
    <3> HIDE DEF bad
    <3> QED
      BY <1>2, <2>1
  <2>3. PICK f : IsMerging(f, records, m - 1)
    BY <2>1, <2>2
  <2>4. DOMAIN f = 0 .. m - 1
        /\ \A i \in 0 .. m - 1 : f[i] = IF i = 0 THEN Unmerged ELSE Merge(f[i - 1], records[i])
    BY <2>3 DEF IsMerging
  <2> DEFINE last == Merge(f[m - 1], records[m])
             g == [i \in 0 .. m |-> IF i = m THEN last ELSE f[i]]
  <2>5. /\ m - 1 \in 0 .. m /\ m \in 0 .. m /\ m - 1 # m
        /\ \A i \in 0 .. m : i # m => i \in 0 .. m - 1
        /\ \A i \in 0 .. m : i # 0 => i - 1 \in 0 .. m /\ i - 1 # m
    BY <1>3, <1>5
  <2>6. g[m] = Merge(g[m - 1], records[m])
    <3>1. g[m] = last /\ g[m - 1] = f[m - 1]
      BY <2>5
    <3> HIDE DEF g
    <3> QED
      BY <3>1
  <2>7. ASSUME NEW i \in 0 .. m
        PROVE  g[i] = IF i = 0 THEN Unmerged ELSE Merge(g[i - 1], records[i])
    <3>1. CASE i = m
      BY <1>5, <2>6, <3>1
    <3>2. CASE i # m
      <4>1. g[i] = f[i] /\ (i # 0 => g[i - 1] = f[i - 1])
        BY <2>5, <3>2
      <4>2. f[i] = IF i = 0 THEN Unmerged ELSE Merge(f[i - 1], records[i])
        BY <2>4, <2>5, <3>2
      <4> HIDE DEF g
      <4> QED
        BY <4>1, <4>2
    <3> QED
      BY <3>1, <3>2
  <2>8. g = [i \in 0 .. m |-> g[i]]
    OBVIOUS
  <2> HIDE DEF g
  <2>9. IsMerging(g, records, m)
    BY <2>7, <2>8 DEF IsMerging
  <2> QED
    BY <1>3, <2>9
<1> QED
  BY <1>4, <1>5

LEMMA MergeAllIs ==
  ASSUME NEW records, Len(records) \in Nat
  PROVE  \E f : /\ IsMerging(f, records, Len(records))
                /\ MergeAll(records) = Yield(f[Len(records)])
<1> DEFINE c == CHOOSE seg : seg = [n \in 0 .. Len(records) |->
                   IF n = 0 THEN [addr |-> 0, data |-> << >>, out |-> << >>]
                   ELSE Merge(seg[n - 1], records[n])]
<1>1. \E f : IsMerging(f, records, Len(records))
  BY MergingExists
<1>2. \E f : f = [n \in 0 .. Len(records) |->
                   IF n = 0 THEN [addr |-> 0, data |-> << >>, out |-> << >>]
                   ELSE Merge(f[n - 1], records[n])]
  BY <1>1 DEF IsMerging, Unmerged
<1>3. IsMerging(c, records, Len(records))
  BY <1>2 DEF IsMerging, Unmerged
<1>4. MergeAll(records) = Yield(c[Len(records)])
  BY DEF MergeAll
<1> HIDE DEF c
<1> QED
  BY <1>3, <1>4

(* A segment in the making, and the bytes it and those in front of it hold. *)
Segments  == [addr : Addresses, data : Seq(Bytes)]
Inside(r) == Span(r) \subseteq Addresses

IsSegment(seg) ==
  /\ seg \in [addr : Addresses, data : Seq(Bytes), out : Seq(Segments)]
  /\ Inside(seg) /\ \A i \in DOMAIN seg.out : Inside(seg.out[i])

StoresIn(segs, a, v) == \E i \in DOMAIN segs : Stores(segs[i], a, v)

(* Bytes behind one another. *)
At(b, d, a, v) == \E k \in DOMAIN d : a = b + k - 1 /\ v = d[k]

LEMMA JoinAt ==
  ASSUME NEW b \in Nat, NEW d \in Seq(Bytes), NEW e \in Seq(Bytes), NEW a, NEW v
  PROVE  At(b, d \o e, a, v) <=> At(b, d, a, v) \/ At(b + Len(d), e, a, v)
<1> DEFINE j == d \o e
<1>1. /\ j \in Seq(Bytes) /\ Len(j) = Len(d) + Len(e)
      /\ \A i \in 1 .. Len(j) : j[i] = IF i <= Len(d) THEN d[i] ELSE e[i - Len(d)]
  BY ConcatProperties
<1>2. /\ Len(d) \in Nat /\ Len(e) \in Nat /\ DOMAIN d = 1 .. Len(d) /\ DOMAIN e = 1 .. Len(e)
      /\ DOMAIN j = 1 .. Len(j)
  BY <1>1, LenProperties
<1> HIDE DEF j
<1>3. ASSUME NEW k \in DOMAIN j, a = b + k - 1, v = j[k]
      PROVE  \/ \E i \in DOMAIN d : a = b + i - 1 /\ v = d[i]
             \/ \E i \in DOMAIN e : a = (b + Len(d)) + i - 1 /\ v = e[i]
  <2>1. CASE k <= Len(d)
    <3>1. k \in DOMAIN d /\ v = d[k]
      BY <1>1, <1>2, <1>3, <2>1
    <3> QED
      BY <1>3, <3>1
  <2>2. CASE ~(k <= Len(d))
    <3>1. k - Len(d) \in DOMAIN e /\ a = (b + Len(d)) + (k - Len(d)) - 1
      BY <1>1, <1>2, <1>3, <2>2
    <3>2. v = e[k - Len(d)]
      BY <1>1, <1>2, <1>3, <2>2
    <3> QED
      BY <3>1, <3>2
  <2> QED
    BY <2>1, <2>2
<1>4. ASSUME NEW k \in DOMAIN d, a = b + k - 1, v = d[k]
      PROVE  \E i \in DOMAIN j : a = b + i - 1 /\ v = j[i]
  <2>1. k \in DOMAIN j /\ v = j[k]
    BY <1>1, <1>2, <1>4
  <2> QED
    BY <1>4, <2>1
<1>5. ASSUME NEW k \in DOMAIN e, a = (b + Len(d)) + k - 1, v = e[k]
      PROVE  \E i \in DOMAIN j : a = b + i - 1 /\ v = j[i]
  <2>1. Len(d) + k \in 1 .. Len(j) /\ ~(Len(d) + k <= Len(d)) /\ (Len(d) + k) - Len(d) = k
    BY <1>1, <1>2
  <2>2. j[Len(d) + k] = e[k]
    BY <1>1, <2>1
  <2>3. a = b + (Len(d) + k) - 1
    BY <1>2, <1>5
  <2> QED
    BY <1>2, <1>5, <2>1, <2>2, <2>3
<1> QED
  BY <1>3, <1>4, <1>5 DEF j, At

LEMMA AppendStores ==
  ASSUME NEW segs \in Seq(Segments), NEW seg \in Segments, Inside(seg), \A i \in DOMAIN segs : Inside(segs[i])
  PROVE  /\ Append(segs, seg) \in Seq(Segments)
         /\ \A i \in DOMAIN Append(segs, seg) : Inside(Append(segs, seg)[i])
         /\ \A a, v : StoresIn(Append(segs, seg), a, v) <=> StoresIn(segs, a, v) \/ Stores(seg, a, v)
<1> DEFINE more == Append(segs, seg)
<1>1. /\ more \in Seq(Segments) /\ Len(more) = Len(segs) + 1 /\ Len(segs) \in Nat
      /\ \A i \in 1 .. Len(segs) : more[i] = segs[i]
      /\ more[Len(segs) + 1] = seg
  BY AppendProperties, LenProperties
<1>2. DOMAIN more = 1 .. Len(segs) + 1 /\ DOMAIN segs = 1 .. Len(segs)
  BY <1>1, LenProperties
<1> HIDE DEF more, Segments
<1>3. /\ \A i \in DOMAIN more : i \in DOMAIN segs \/ i = Len(segs) + 1
      /\ \A i \in DOMAIN segs : i \in DOMAIN more
      /\ Len(segs) + 1 \in DOMAIN more
  BY <1>1, <1>2
<1>4. \A i \in DOMAIN segs : more[i] = segs[i]
  BY <1>1, <1>2
<1>5. \A i \in DOMAIN more : Inside(more[i])
  BY <1>1, <1>3, <1>4
<1>6. \A a, v : StoresIn(more, a, v) <=> StoresIn(segs, a, v) \/ Stores(seg, a, v)
  BY <1>1, <1>3, <1>4 DEF StoresIn
<1> QED
  BY <1>1, <1>5, <1>6 DEF more

LEMMA YieldStep ==
  ASSUME NEW seg, IsSegment(seg)
  PROVE  /\ Yield(seg) \in Seq(Segments)
         /\ \A i \in DOMAIN Yield(seg) : Inside(Yield(seg)[i])
         /\ \A a, v : StoresIn(Yield(seg), a, v) <=> StoresIn(seg.out, a, v) \/ Stores(seg, a, v)
<1>1. /\ seg.addr \in Addresses /\ seg.data \in Seq(Bytes) /\ seg.out \in Seq(Segments)
      /\ Inside(seg) /\ \A i \in DOMAIN seg.out : Inside(seg.out[i])
  BY DEF IsSegment
<1>2. CASE seg.data = << >>
  <2>1. \A a, v : ~Stores(seg, a, v)
    BY <1>2 DEF Stores
  <2> QED
    BY <1>1, <1>2, <2>1 DEF Yield
<1>3. CASE seg.data # << >>
  <2> DEFINE last == [addr |-> seg.addr, data |-> seg.data]
  <2>1. last \in Segments
    BY <1>1 DEF Segments
  <2>2. Inside(last)
    BY <1>1 DEF Inside, Span
  <2>3. \A a, v : Stores(last, a, v) <=> Stores(seg, a, v)
    BY DEF Stores
  <2>4. Yield(seg) = Append(seg.out, last)
    BY <1>3 DEF Yield
  <2> HIDE DEF last
  <2>5. /\ Append(seg.out, last) \in Seq(Segments)
        /\ \A i \in DOMAIN Append(seg.out, last) : Inside(Append(seg.out, last)[i])
        /\ \A a, v : StoresIn(Append(seg.out, last), a, v) <=> StoresIn(seg.out, a, v) \/ Stores(last, a, v)
    BY <1>1, <2>1, <2>2, AppendStores, Zenon
  <2> QED
    BY <2>3, <2>4, <2>5, Zenon
<1> QED
  BY <1>2, <1>3

(* A record more, joined or not. *)
LEMMA MergeStep ==
  ASSUME NEW seg, IsSegment(seg), NEW r \in Record, Inside(r)
  PROVE  /\ IsSegment(Merge(seg, r))
         /\ \A a, v : StoresIn(Merge(seg, r).out, a, v) \/ Stores(Merge(seg, r), a, v)
                      <=> StoresIn(seg.out, a, v) \/ Stores(seg, a, v) \/ Stores(r, a, v)
<1>1. /\ seg \in [addr : Addresses, data : Seq(Bytes), out : Seq(Segments)]
      /\ seg.addr \in Addresses /\ seg.data \in Seq(Bytes) /\ seg.out \in Seq(Segments)
      /\ Inside(seg) /\ \A i \in DOMAIN seg.out : Inside(seg.out[i])
  BY DEF IsSegment
<1>2. r.addr \in Addresses /\ r.addr \in Nat /\ r.data \in Seq(Bytes)
  BY RecordFields
<1>3. Addresses \subseteq Nat
  BY Sizes
<1> DEFINE next == Merge(seg, r)
<1>4. CASE seg.addr + Len(seg.data) = r.addr
  <2>1. next = [seg EXCEPT !.data = seg.data \o r.data]
    BY <1>4 DEF Merge
  <2>2. seg.data \o r.data \in Seq(Bytes) /\ Len(seg.data \o r.data) = Len(seg.data) + Len(r.data)
    BY <1>1, <1>2, ConcatProperties
  <2>3. /\ next \in [addr : Addresses, data : Seq(Bytes), out : Seq(Segments)]
        /\ next.addr = seg.addr /\ next.data = seg.data \o r.data /\ next.out = seg.out
    BY <1>1, <2>1, <2>2
  <2> HIDE DEF next
  <2>4. Inside(next)
    <3>1. Len(seg.data) \in Nat /\ Len(r.data) \in Nat /\ seg.addr \in Nat
      BY <1>1, <1>2, <1>3, LenProperties
    <3>2. \A x, m, n \in Nat : x .. x + (m + n) - 1
                               = (x .. x + m - 1) \cup ((x + m) .. (x + m) + n - 1)
      OBVIOUS
    <3>3. Span(next) = Span(seg) \cup Span(r)
      <4>1. Span(next) = seg.addr .. seg.addr + (Len(seg.data) + Len(r.data)) - 1
        BY <2>2, <2>3 DEF Span
      <4> DEFINE x == seg.addr
                 m == Len(seg.data)
                 n == Len(r.data)
      <4>2. x .. x + (m + n) - 1 = (x .. x + m - 1) \cup ((x + m) .. (x + m) + n - 1)
        <5>1. x \in Nat /\ m \in Nat /\ n \in Nat
          BY <3>1
        <5> HIDE DEF x, m, n
        <5> QED
          BY <3>2, <5>1
      <4> QED
        BY <1>4, <4>1, <4>2, Zenon DEF Span
    <3> QED
      BY <1>1, <3>3 DEF Inside
  <2>5. ASSUME NEW a, NEW v
        PROVE  Stores(next, a, v) <=> Stores(seg, a, v) \/ Stores(r, a, v)
    <3>1. seg.addr \in Nat
      BY <1>1, <1>3
    <3>2. At(seg.addr, seg.data \o r.data, a, v)
          <=> At(seg.addr, seg.data, a, v) \/ At(seg.addr + Len(seg.data), r.data, a, v)
      BY <1>1, <1>2, <3>1, JoinAt
    <3>3. /\ Stores(next, a, v) <=> At(seg.addr, seg.data \o r.data, a, v)
          /\ Stores(seg, a, v) <=> At(seg.addr, seg.data, a, v)
          /\ Stores(r, a, v) <=> At(r.addr, r.data, a, v)
      BY <2>3, Zenon DEF Stores, At
    <3> QED
      BY <1>4, <3>2, <3>3, Zenon
  <2>6. IsSegment(next)
    BY <1>1, <2>3, <2>4 DEF IsSegment
  <2> QED
    BY <2>3, <2>5, <2>6 DEF next
<1>5. CASE seg.addr + Len(seg.data) # r.addr
  <2>1. next = [addr |-> r.addr, data |-> r.data, out |-> Yield(seg)]
    BY <1>5 DEF Merge
  <2>2. /\ Yield(seg) \in Seq(Segments)
        /\ \A i \in DOMAIN Yield(seg) : Inside(Yield(seg)[i])
        /\ \A a, v : StoresIn(Yield(seg), a, v) <=> StoresIn(seg.out, a, v) \/ Stores(seg, a, v)
    BY YieldStep
  <2>3. /\ next \in [addr : Addresses, data : Seq(Bytes), out : Seq(Segments)]
        /\ next.addr = r.addr /\ next.data = r.data /\ next.out = Yield(seg)
    BY <1>2, <2>1, <2>2
  <2> HIDE DEF next
  <2>4. Inside(next)
    BY <2>3 DEF Inside, Span
  <2>5. \A a, v : Stores(next, a, v) <=> Stores(r, a, v)
    BY <2>3 DEF Stores
  <2>6. IsSegment(next)
    BY <2>2, <2>3, <2>4 DEF IsSegment
  <2> QED
    BY <2>2, <2>3, <2>5, <2>6 DEF next
<1> QED
  BY <1>4, <1>5

(* The merge of the records neither loses, moves nor invents a byte. *)
LEMMA MergeAllKeeps ==
  ASSUME NEW records \in Seq(Record), \A i \in DOMAIN records : Inside(records[i])
  PROVE  /\ MergeAll(records) \in Seq(Segments)
         /\ \A i \in DOMAIN MergeAll(records) : Inside(MergeAll(records)[i])
         /\ \A a, v : StoresIn(MergeAll(records), a, v) <=> StoresIn(records, a, v)
<1> DEFINE N == Len(records)
<1>1. N \in Nat /\ DOMAIN records = 1 .. N
  BY LenProperties
<1>2. PICK f : IsMerging(f, records, N) /\ MergeAll(records) = Yield(f[N])
  BY <1>1, MergeAllIs
<1>3. \A n \in 0 .. N : f[n] = IF n = 0 THEN Unmerged ELSE Merge(f[n - 1], records[n])
  BY <1>2 DEF IsMerging
<1> DEFINE Good(n) ==
             /\ IsSegment(f[n])
             /\ \A a, v : StoresIn(f[n].out, a, v) \/ Stores(f[n], a, v)
                          <=> \E i \in 1 .. n : Stores(records[i], a, v)
           bad == {n \in 0 .. N : ~Good(n)}
<1>4. Good(0)
  <2>1. f[0] = Unmerged
    BY <1>1, <1>3
  <2>2. 0 \in Addresses
    BY Sizes
  <2>3. << >> \in Seq(Bytes) /\ << >> \in Seq(Segments) /\ Len(<< >>) = 0 /\ DOMAIN << >> = {}
    OBVIOUS
  <2>4. Unmerged \in [addr : Addresses, data : Seq(Bytes), out : Seq(Segments)]
    BY <2>2, <2>3 DEF Unmerged
  <2>5. Inside(Unmerged)
    BY <2>3 DEF Inside, Span, Unmerged
  <2>6. IsSegment(Unmerged)
    BY <2>3, <2>4, <2>5 DEF IsSegment, Unmerged
  <2>7. \A a, v : ~StoresIn(Unmerged.out, a, v) /\ ~Stores(Unmerged, a, v)
    BY <2>3 DEF StoresIn, Stores, Unmerged
  <2>8. \A a, v : ~ \E i \in 1 .. 0 : Stores(records[i], a, v)
    OBVIOUS
  <2> QED
    BY <2>1, <2>6, <2>7, <2>8
<1>5. ASSUME NEW n \in 1 .. N, Good(n - 1) PROVE Good(n)
  <2>1. f[n] = Merge(f[n - 1], records[n])
    BY <1>1, <1>3
  <2>2. records[n] \in Record /\ Inside(records[n])
    BY <1>1
  <2>3. /\ IsSegment(f[n])
        /\ \A a, v : StoresIn(f[n].out, a, v) \/ Stores(f[n], a, v)
              <=> StoresIn(f[n - 1].out, a, v) \/ Stores(f[n - 1], a, v) \/ Stores(records[n], a, v)
    BY <1>5, <2>1, <2>2, MergeStep
  <2>4. /\ \A i \in 1 .. n : i \in 1 .. n - 1 \/ i = n
        /\ \A i \in 1 .. n - 1 : i \in 1 .. n
        /\ n \in 1 .. n
    BY <1>1
  <2> QED
    BY <1>5, <2>3, <2>4
<1> HIDE DEF Good
<1>6. Good(N)
  <2> SUFFICES ASSUME ~Good(N) PROVE FALSE
    OBVIOUS
  <2>1. bad \subseteq Nat /\ bad # {}
    BY <1>1
  <2>2. PICK m \in bad : \A y \in bad : m <= y
    <3> HIDE DEF bad
    <3> QED
      BY <2>1, LeastNat
  <2>3. m \in 0 .. N /\ ~Good(m) /\ m # 0
    BY <1>4
  <2>4. m \in 1 .. N /\ m - 1 \in 0 .. N /\ ~(m <= m - 1)
    BY <1>1, <2>3
  <2>5. Good(m - 1)
    BY <2>2, <2>4
  <2> QED
    BY <1>5, <2>3, <2>4, <2>5
<1>7. IsSegment(f[N])
  BY <1>6 DEF Good
<1>8. \A a, v : StoresIn(f[N].out, a, v) \/ Stores(f[N], a, v) <=> StoresIn(records, a, v)
  BY <1>1, <1>6 DEF Good, StoresIn
<1> QED
  BY <1>2, <1>7, <1>8, YieldStep

(* What is loaded is a beginning of the file. *)
LEMMA LoadedIsPrefix ==
  ASSUME NEW f \in Files
  PROVE  \E n \in 0 .. Len(f) : Loaded(f) = SubSeq(f, 1, n)
<1> DEFINE eof == [addr |-> 0, type |-> Type_EOF, data |-> << >>]
           g   == f \o <<eof>>
           I   == {i \in 1 .. Len(f) + 1 : g[i].type = Type_EOF}
<1>1. f \in Seq(Record) /\ Len(f) \in Nat
  BY FlasherAssumption
<1>2. Len(f) + 1 \in I
  <2>1. g[Len(f) + 1] = eof
    BY <1>1
  <2> QED
    BY <1>1, <2>1
<1>3. I \subseteq Nat /\ I # {}
  BY <1>2
<1>4. Loaded(f) = SubSeq(f, 1, Min(I) - 1)
  BY <1>3 DEF Loaded, SelectInSubSeq
<1>5. Min(I) \in 1 .. Len(f) + 1
  BY <1>3, LeastNat
<1> HIDE DEF I
<1>6. Min(I) - 1 \in 0 .. Len(f)
  BY <1>1, <1>5
<1> QED
  BY <1>4, <1>6

(* What a file asks for is stored by its segments, byte by byte. *)
LEMMA AllKept ==
  ASSUME NEW f \in Files
  PROVE  MergeKept(f)
<1> DEFINE s == Loaded(f)
           t == ByAddress(s)
<1>1. s \in Seq(Record) /\ \A i \in DOMAIN s : i \in DOMAIN f /\ s[i] = f[i]
  <2>1. PICK n \in 0 .. Len(f) : s = SubSeq(f, 1, n)
    BY LoadedIsPrefix
  <2>2. f \in Seq(Record)
    BY FlasherAssumption
  <2>3. \A q \in Seq(Record) : \A m \in 0 .. Len(q) :
          /\ SubSeq(q, 1, m) \in Seq(Record)
          /\ \A i \in DOMAIN SubSeq(q, 1, m) : i \in DOMAIN q /\ SubSeq(q, 1, m)[i] = q[i]
    OBVIOUS
  <2> HIDE DEF s
  <2> QED
    BY <2>1, <2>2, <2>3
<1>2. \A i \in DOMAIN s : Inside(s[i])
  <2>1. \A i \in DOMAIN f : Span(f[i]) \subseteq Addresses
    BY FlasherAssumption
  <2> HIDE DEF s
  <2> QED
    BY <1>1, <2>1 DEF Inside
<1> HIDE DEF s
<1>3. /\ t \in Seq(Record)
      /\ \A k \in DOMAIN t : \E j \in DOMAIN s : t[k] = s[j]
      /\ \A j \in DOMAIN s : \E k \in DOMAIN t : t[k] = s[j]
  BY <1>1, ByAddressKeeps
<1> HIDE DEF t
<1>4. \A k \in DOMAIN t : Inside(t[k])
  BY <1>2, <1>3
<1>5. /\ MergeAll(t) \in Seq(Segments)
      /\ \A i \in DOMAIN MergeAll(t) : Inside(MergeAll(t)[i])
      /\ \A a, v : StoresIn(MergeAll(t), a, v) <=> StoresIn(t, a, v)
  BY <1>3, <1>4, MergeAllKeeps
<1>6. LoadMerged(f) = MergeAll(t)
  BY DEF LoadMerged, t, s
<1>7. \A a, v : StoresIn(t, a, v) <=> \E r \in Image(f) : Stores(r, a, v)
  <2>1. Image(f) = {s[i] : i \in DOMAIN s}
    BY DEF Image, s
  <2> QED
    BY <1>3, <2>1 DEF StoresIn
<1>8. /\ LoadMerged(f) \in Seq(Segments)
      /\ \A i \in DOMAIN LoadMerged(f) : Inside(LoadMerged(f)[i])
      /\ \A a, v : StoresIn(LoadMerged(f), a, v) <=> \E r \in Image(f) : Stores(r, a, v)
  BY <1>5, <1>6, <1>7
<1> QED
  BY <1>8 DEF MergeKept, Segments, Inside, StoresIn

-----------------------------------------------------------------------------
LEMMA BlockAt ==
  ASSUME NEW b, b.addr \in Addresses, IsBlock(b)
  PROVE  Block(b.addr) = b.addr .. b.addr + BlockSize - 1 /\ Block(b.addr) \subseteq Addresses
<1>1. b.addr \in Nat /\ Multiple(b.addr) /\ b.addr + BlockSize <= BlockSize * Blocks
  BY Sizes DEF IsBlock
<1>2. BlockOf(b.addr) = b.addr
  BY <1>1, Rest DEF BlockOf
<1>3. Block(b.addr) = b.addr .. b.addr + BlockSize - 1
  BY <1>2 DEF Block
<1>4. \A a \in b.addr .. b.addr + BlockSize - 1 : a \in Addresses
  BY <1>1, Sizes
<1> QED
  BY <1>3, <1>4

(* A segment of a file. *)
LEMMA FileSpans ==
  ASSUME NEW f \in Files, NEW j \in DOMAIN f
  PROVE  Span(f[j]) \subseteq Addresses
BY FlasherAssumption

LEMMA InitTInv == Init => TInv
<1> SUFFICES ASSUME Init PROVE TInv
  OBVIOUS
<1>1. /\ Blank \in Bytes /\ << >> \in Seq(Bytes) /\ Len(<< >>) = 0 /\ DOMAIN << >> = {}
      /\ 0 \in Addresses /\ 0 \in 0 .. BlockSize * Blocks /\ 0 \in 0 .. Polls
      /\ << >> \in Seq([addr : Addresses, data : Seq(Bytes)])
  BY FlasherAssumption, Sizes
<1>2. TypeOK
  BY <1>1 DEF Init, TypeOK, NoBlock
<1>3. Shape
  BY <1>1 DEF Init, Shape, AtEdge, Padded, Programming
<1> QED
  BY <1>2, <1>3 DEF TInv

(* What a run may spoil: what it is asked for, and a block torn before it. *)
LEMMA SpoiltGrows ==
  ASSUME Connect
  PROVE  /\ \A x \in spoilt' : \/ x \in spoilt
                               \/ \E i \in DOMAIN file' : x \in Span(file'[i])
                               \/ busy # NoBlock /\ x \in Block(busy.addr)
         /\ spoilt \subseteq spoilt'
         /\ \A i \in DOMAIN file' : Span(file'[i]) \subseteq spoilt'
         /\ busy # NoBlock => Block(busy.addr) \subseteq spoilt'
<1> DEFINE spans == UNION {Span(file'[i]) : i \in DOMAIN file'}
           torn  == IF busy # NoBlock THEN Block(busy.addr) ELSE {}
<1>1. spoilt' = spoilt \cup spans \cup torn
  BY DEF Connect
<1>2. \A x : x \in spans <=> \E i \in DOMAIN file' : x \in Span(file'[i])
  OBVIOUS
<1>3. \A x : x \in torn <=> busy # NoBlock /\ x \in Block(busy.addr)
  OBVIOUS
<1> HIDE DEF spans, torn
<1> QED
  BY <1>1, <1>2, <1>3

LEMMA ConnectType ==
  ASSUME TInv, Connect
  PROVE  TInv'
<1>1. /\ file' \in Files /\ prg' = FALSE /\ eop' = FALSE /\ busy' = NoBlock /\ mem0' = mem'
      /\ merged' = << >> /\ addr' = 0 /\ data' = << >> /\ offset' = 0 /\ looks' = 0
      /\ pc' = "unlock" /\ startClears' = startClears
  BY DEF Connect
<1>2. mem' \in [Addresses -> Bytes]
  BY DEF Connect, TInv, TypeOK
<1>3. spoilt' \subseteq Addresses
  <2>1. spoilt \subseteq Addresses /\ busy.addr \in Addresses
    BY DEF TInv, TypeOK
  <2>2. busy # NoBlock => Block(busy.addr) \subseteq Addresses
    BY <2>1, BlockAt DEF TInv, Shape
  <2>3. \A i \in DOMAIN file' : Span(file'[i]) \subseteq Addresses
    BY <1>1, FileSpans
  <2> QED
    BY <2>1, <2>2, <2>3, SpoiltGrows
<1>4. /\ << >> \in Seq(Bytes) /\ Len(<< >>) = 0 /\ DOMAIN << >> = {}
      /\ 0 \in Addresses /\ 0 \in 0 .. BlockSize * Blocks /\ 0 \in 0 .. Polls
      /\ << >> \in Seq([addr : Addresses, data : Seq(Bytes)])
  BY FlasherAssumption, Sizes
<1>5. TypeOK'
  BY <1>1, <1>2, <1>3, <1>4 DEF TInv, TypeOK, NoBlock
<1>6. Shape'
  BY <1>1, <1>4 DEF Shape, AtEdge, Padded, Programming
<1> QED
  BY <1>5, <1>6 DEF TInv

LEMMA LoadType ==
  ASSUME TInv, UnlockProg \/ Load
  PROVE  TInv'
<1>1. /\ UNCHANGED <<file, addr, data, offset, looks, target, history>>
      /\ pc \in {"unlock", "load"} /\ pc' \in {"load", "segment", "raised"}
      /\ merged' = merged \/ merged' = LoadMerged(file)
  BY DEF UnlockProg, Load, GoesTo, tool
<1>2. file \in Files
  BY <1>1 DEF TInv, Shape
<1>3. MergeKept(file)
  BY <1>2, AllKept
<1>4. /\ merged' \in Seq([addr : Addresses, data : Seq(Bytes)])
      /\ \A i \in DOMAIN merged' : Span(merged'[i]) \subseteq Addresses
  <2>1. CASE merged' = merged
    BY <2>1 DEF TInv, TypeOK, Shape
  <2>2. CASE merged' = LoadMerged(file)
    BY <2>2, <1>3 DEF MergeKept
  <2> QED
    BY <1>1, <2>1, <2>2
<1>5. TypeOK'
  BY <1>1, <1>4 DEF TInv, TypeOK, target, history
<1>6. Shape'
  BY <1>1, <1>2, <1>4 DEF TInv, Shape, target, AtEdge, Padded, Programming
<1> QED
  BY <1>5, <1>6 DEF TInv

(* The next segment, or the end. *)
LEMMA TakeSegment ==
  ASSUME TInv, NextSegment, merged # << >>
  PROVE  /\ pc' = "head" /\ addr' \in Addresses /\ data' \in Seq(Bytes)
         /\ merged' \in Seq([addr : Addresses, data : Seq(Bytes)])
         /\ 1 \in DOMAIN merged
         /\ addr' = merged[1].addr /\ data' = merged[1].data
         /\ \A i \in DOMAIN merged' : i + 1 \in DOMAIN merged /\ merged'[i] = merged[i + 1]
         /\ \A i \in DOMAIN merged : i = 1 \/ (i - 1 \in DOMAIN merged' /\ merged[i] = merged'[i - 1])
         /\ \A k \in 1 .. Len(data') : addr' + k - 1 \in Addresses
<1>1. /\ merged \in Seq([addr : Addresses, data : Seq(Bytes)])
      /\ pc' = "head" /\ addr' = Head(merged).addr /\ data' = Head(merged).data
      /\ merged' = Tail(merged)
  BY DEF TInv, TypeOK, NextSegment
<1>2. /\ Len(merged) \in Nat /\ Len(merged) >= 1 /\ DOMAIN merged = 1 .. Len(merged)
      /\ Head(merged) = merged[1]
      /\ merged' \in Seq([addr : Addresses, data : Seq(Bytes)])
      /\ Len(merged') = Len(merged) - 1 /\ DOMAIN merged' = 1 .. Len(merged')
      /\ \A i \in 1 .. Len(merged') : merged'[i] = merged[i + 1]
  <2> DEFINE Segs == [addr : Addresses, data : Seq(Bytes)]
  <2>1. merged \in Seq(Segs) /\ merged # << >> /\ merged' = Tail(merged)
    BY <1>1
  <2> HIDE DEF Segs
  <2>2. /\ Head(merged) = merged[1] /\ Tail(merged) \in Seq(Segs)
        /\ Len(Tail(merged)) = Len(merged) - 1
        /\ \A i \in 1 .. Len(Tail(merged)) : Tail(merged)[i] = merged[i + 1]
    BY <2>1
  <2>3. Len(merged) \in Nat /\ Len(merged) # 0 /\ DOMAIN merged = 1 .. Len(merged)
    BY <2>1
  <2>4. DOMAIN merged' = 1 .. Len(merged') /\ merged' \in Seq(Segs)
    BY <2>1, <2>2
  <2>5. merged' \in Seq([addr : Addresses, data : Seq(Bytes)])
    BY <2>4 DEF Segs
  <2> QED
    BY <2>1, <2>2, <2>3, <2>4, <2>5
<1>3. merged[1] \in [addr : Addresses, data : Seq(Bytes)]
  <2> DEFINE Segs == [addr : Addresses, data : Seq(Bytes)]
  <2>1. merged \in Seq(Segs) /\ 1 \in 1 .. Len(merged)
    BY <1>1, <1>2
  <2> HIDE DEF Segs
  <2>2. merged[1] \in Segs
    BY <2>1, ElementOfSeq
  <2> QED
    BY <2>2 DEF Segs
<1>4. \A i \in DOMAIN merged' : i + 1 \in DOMAIN merged /\ merged'[i] = merged[i + 1]
  BY <1>2
<1>5. ASSUME NEW i \in DOMAIN merged, i # 1
      PROVE  i - 1 \in DOMAIN merged' /\ merged[i] = merged'[i - 1]
  <2>1. i - 1 \in 1 .. Len(merged') /\ (i - 1) + 1 = i
    BY <1>2, <1>5
  <2> QED
    BY <1>2, <2>1
<1>6. addr' \in Addresses /\ data' \in Seq(Bytes) /\ addr' = merged[1].addr /\ data' = merged[1].data
  BY <1>1, <1>2, <1>3
<1>7. Span(merged[1]) \subseteq Addresses
  BY <1>2 DEF TInv, Shape
<1>8. \A k \in 1 .. Len(data') : addr' + k - 1 \in addr' .. addr' + Len(data') - 1
  BY <1>6, Sizes
<1>9. \A k \in 1 .. Len(data') : addr' + k - 1 \in Addresses
  BY <1>6, <1>7, <1>8 DEF Span
<1> QED
  BY <1>1, <1>2, <1>4, <1>5, <1>6, <1>9

LEMMA NextSegmentType ==
  ASSUME TInv, NextSegment
  PROVE  TInv'
<1>1. UNCHANGED <<file, offset, looks, target, history>> /\ pc = "segment"
  BY DEF NextSegment
<1>2. CASE merged = << >>
  <2>1. pc' = "done" /\ UNCHANGED <<merged, addr, data>>
    BY <1>2 DEF NextSegment
  <2>2. TypeOK'
    BY <1>1, <2>1 DEF TInv, TypeOK, target, history
  <2>3. Shape'
    BY <1>1, <2>1 DEF TInv, Shape, target, AtEdge, Padded, Programming
  <2> QED
    BY <2>2, <2>3 DEF TInv
<1>3. CASE merged # << >>
  <2>1. TypeOK'
    BY <1>1, <1>3, TakeSegment DEF TInv, TypeOK, target, history
  <2>2. \A i \in DOMAIN merged' : Span(merged'[i]) \subseteq Addresses
    BY <1>3, TakeSegment DEF TInv, Shape
  <2>3. Shape'
    BY <1>1, <1>3, <2>2, TakeSegment DEF TInv, Shape, target, AtEdge, Padded, Programming
  <2> QED
    BY <2>1, <2>3 DEF TInv
<1> QED
  BY <1>2, <1>3

LEMMA PadType ==
  ASSUME TInv, PadHead \/ PadTail
  PROVE  TInv'
<1>1. /\ UNCHANGED <<file, merged, looks, target, history>>
      /\ pc \in {"head", "tail"} /\ pc' \in {"tail", "block", "raised"}
      /\ PadTail => pc' # "tail" /\ offset' = 0
      /\ PadHead => pc' # "block" /\ offset' = offset
  BY DEF PadHead, PadTail, GoesTo
<1>2. addr' \in Addresses /\ data' \in Seq(Bytes) /\ Carried
  BY HeadPadded, TailPadded DEF TInv, TypeOK
<1>3. pc' \in AtEdge => Multiple(addr')
  <2>1. PadHead => Multiple(addr')
    BY HeadPadded
  <2>2. PadTail => addr' = addr /\ Multiple(addr)
    BY TailPadded DEF PadTail, TInv, Shape, AtEdge
  <2> QED
    BY <2>1, <2>2
<1>4. pc' \in Padded => Multiple(Len(data')) /\ offset' = 0
  BY <1>1, TailPadded DEF Padded
<1>5. \A k \in 1 .. Len(data') : addr' + k - 1 \in Addresses
  BY <1>2 DEF Carried
<1>6. Len(data') \in Nat /\ 0 \in 0 .. BlockSize * Blocks /\ Multiple(0)
  BY <1>2, Sizes
<1>7. TypeOK'
  BY <1>1, <1>2, <1>6 DEF TInv, TypeOK, target, history
<1>8. pc' \in Padded => Multiple(offset') /\ offset' <= Len(data')
  BY <1>4, <1>6
<1>9. Shape'
  BY <1>1, <1>3, <1>4, <1>5, <1>8 DEF TInv, Shape, target, Programming
<1> QED
  BY <1>7, <1>9 DEF TInv

(* The last block that is begun is whole. *)
LEMMA CheckPrgType ==
  ASSUME TInv, CheckPrg
  PROVE  TInv'
<1>1. /\ UNCHANGED <<tool, target, history>> /\ pc = "block"
      /\ pc' \in {"segment", "raised", "setPrg"}
      /\ pc' = "setPrg" => offset < Len(data)
  <2>1. offset \in Nat /\ Len(data) \in Nat
    BY Typed
  <2> QED
    BY <2>1 DEF CheckPrg, GoesTo
<1>2. pc' = "setPrg" => offset + BlockSize <= Len(data)
  BY <1>1, Typed, NextEdge DEF TInv, Shape, Padded
<1>3. TypeOK'
  BY <1>1 DEF TInv, TypeOK, tool, target, history
<1>4. Shape'
  BY <1>1, <1>2 DEF TInv, Shape, tool, target, AtEdge, Padded, Programming
<1> QED
  BY <1>3, <1>4 DEF TInv

LEMMA SetPrgType ==
  ASSUME TInv, SetPrg
  PROVE  TInv'
<1>1. /\ UNCHANGED <<tool, mem, eop, busy, startClears, history>> /\ pc = "setPrg"
      /\ pc' \in {"write", "raised"} /\ prg' \in {prg, TRUE}
  BY DEF SetPrg, GoesTo
<1>2. TypeOK'
  BY <1>1 DEF TInv, TypeOK, tool, history
<1>3. Shape'
  BY <1>1 DEF TInv, Shape, tool, AtEdge, Padded, Programming
<1> QED
  BY <1>2, <1>3 DEF TInv

(* The block that is due. *)
due == [addr |-> addr + offset, data |-> SubSeq(data, offset + 1, offset + BlockSize)]

LEMMA Due ==
  ASSUME TInv, pc \in Programming
  PROVE  /\ due.addr = addr + offset /\ due.addr \in Addresses /\ due.data \in Seq(Bytes)
         /\ IsBlock(due)
         /\ \A k \in 1 .. BlockSize : offset + k \in 1 .. Len(data) /\ due.data[k] = data[offset + k]
<1>1. /\ addr \in Nat /\ offset \in Nat /\ data \in Seq(Bytes) /\ Len(data) \in Nat
      /\ addr + Len(data) <= BlockSize * Blocks
  BY Typed
<1>2. offset + BlockSize <= Len(data) /\ Multiple(addr) /\ Multiple(offset)
  BY DEF TInv, Shape, Programming, AtEdge, Padded
<1>3. due.addr = addr + offset /\ due.data = SubSeq(data, offset + 1, offset + BlockSize)
  BY DEF due
<1>4. BlockSize \in Nat /\ BlockSize > 0 /\ BlockSize * Blocks \in Nat
  BY Sizes
<1>5. /\ addr + offset + BlockSize <= BlockSize * Blocks /\ addr + offset \in Nat
      /\ addr + offset < BlockSize * Blocks
  BY <1>1, <1>2, <1>4
<1>6. addr + offset \in Addresses /\ Multiple(addr + offset)
  BY <1>1, <1>2, <1>5, Sizes, EdgesAdd
<1>7. \A b \in Nat : \A o \in Nat : b > 0 /\ o + b <= Len(data) =>
        /\ SubSeq(data, o + 1, o + b) \in Seq(Bytes)
        /\ Len(SubSeq(data, o + 1, o + b)) = b
        /\ \A k \in 1 .. b : o + k \in 1 .. Len(data) /\ SubSeq(data, o + 1, o + b)[k] = data[o + k]
  BY <1>1
<1> QED
  BY <1>1, <1>2, <1>3, <1>4, <1>5, <1>6, <1>7 DEF IsBlock

LEMMA WriteBlockType ==
  ASSUME TInv, WriteBlock
  PROVE  TInv' /\ (busy' = busy \/ busy' = due)
<1>1. /\ UNCHANGED <<file, merged, addr, data, offset, mem, prg, startClears, history>>
      /\ pc = "write" /\ pc' \in {"poll", "raised"} /\ looks' = Polls
      /\ eop' = eop \/ eop' = (eop /\ ~startClears)
      /\ busy' = busy \/ busy' = due
  BY DEF WriteBlock, TakesBlock, GoesTo, due
<1>2. /\ due \in [addr : Addresses, data : Seq(Bytes)] /\ IsBlock(due)
  <2>1. due.addr \in Addresses /\ due.data \in Seq(Bytes) /\ IsBlock(due)
    BY <1>1, Due DEF Programming
  <2> QED
    BY <2>1 DEF due
<1>3. busy' \in [addr : Addresses, data : Seq(Bytes)] /\ (busy' # NoBlock => IsBlock(busy'))
  BY <1>1, <1>2 DEF TInv, TypeOK, Shape
<1>4. eop' \in BOOLEAN
  <2>1. eop \in BOOLEAN /\ startClears \in BOOLEAN
    BY DEF TInv, TypeOK
  <2> QED
    BY <1>1, <2>1
<1>5. Polls \in 0 .. Polls
  BY FlasherAssumption
<1>6. TypeOK'
  BY <1>1, <1>3, <1>4, <1>5 DEF TInv, TypeOK, history
<1>7. (busy # NoBlock => IsBlock(busy))'
  BY <1>3, Zenon
<1>8. Shape'
  BY <1>1, <1>7 DEF TInv, Shape, AtEdge, Padded, Programming
<1> QED
  BY <1>1, <1>6, <1>8 DEF TInv

LEMMA PollType ==
  ASSUME TInv, Poll \/ GiveUp
  PROVE  TInv'
<1>1. /\ UNCHANGED <<file, merged, addr, data, mem, prg, busy, startClears, history>>
      /\ pc = "poll" /\ pc' \in {"poll", "block", "raised"} /\ eop' = FALSE
      /\ looks' = looks \/ (looks > 0 /\ looks' = looks - 1)
      /\ offset' = offset \/ (offset' = offset + BlockSize)
      /\ pc' = "poll" => offset' = offset
  BY DEF Poll, GiveUp, ReadsStatus, GoesTo, tool
<1>2. offset \in Nat /\ Len(data) \in Nat /\ Len(data) <= BlockSize * Blocks
  BY Typed
<1>3. offset + BlockSize <= Len(data) /\ Multiple(offset)
  BY <1>1 DEF TInv, Shape, Programming, Padded
<1>4. Multiple(offset') /\ offset' <= Len(data) /\ offset' \in 0 .. BlockSize * Blocks
  <2>1. Multiple(offset + BlockSize) /\ offset + BlockSize \in Nat
    BY <1>2, <1>3, Sizes, EdgesAdd, Edges
  <2>2. offset' \in Nat /\ Multiple(offset') /\ offset' <= Len(data)
    BY <1>1, <1>2, <1>3, <2>1, Sizes
  <2> QED
    BY <2>2, <1>2, Sizes
<1>5. looks' \in 0 .. Polls
  BY <1>1, FlasherAssumption DEF TInv, TypeOK
<1>6. TypeOK'
  BY <1>1, <1>4, <1>5 DEF TInv, TypeOK, history
<1>7. Shape'
  BY <1>1, <1>3, <1>4 DEF TInv, Shape, AtEdge, Padded, Programming
<1> QED
  BY <1>6, <1>7 DEF TInv

(* What the controller has programmed. *)
LEMMA Stored ==
  ASSUME TInv, Programmed
  PROVE  /\ mem' \in [Addresses -> Bytes]
         /\ \A a \in Addresses :
              \/ a \notin Block(busy.addr) /\ mem'[a] = mem[a]
              \/ \E k \in 1 .. BlockSize : a = busy.addr + k - 1 /\ mem'[a] = busy.data[k]
<1>1. /\ busy # NoBlock /\ busy.addr \in Addresses /\ busy.addr \in Nat
      /\ busy.data \in Seq(Bytes) /\ mem \in [Addresses -> Bytes]
  BY Sizes DEF Programmed, TInv, TypeOK
<1>2. /\ Len(busy.data) = BlockSize /\ IsBlock(busy)
      /\ Block(busy.addr) = busy.addr .. busy.addr + BlockSize - 1
  BY <1>1, BlockAt DEF TInv, Shape, IsBlock
<1>3. mem' = [a \in Addresses |->
                IF a \in Block(busy.addr) THEN busy.data[a - busy.addr + 1] ELSE mem[a]]
  BY DEF Programmed
<1>4. ASSUME NEW a \in Addresses, a \in Block(busy.addr)
      PROVE  /\ a - busy.addr + 1 \in 1 .. BlockSize /\ a = busy.addr + (a - busy.addr + 1) - 1
             /\ busy.data[a - busy.addr + 1] \in Bytes
  <2>1. /\ a - busy.addr + 1 \in 1 .. BlockSize /\ a = busy.addr + (a - busy.addr + 1) - 1
    BY <1>1, <1>2, <1>4, Sizes
  <2> QED
    BY <2>1, <1>1, <1>2, ElementOfSeq
<1> QED
  BY <1>1, <1>3, <1>4

LEMMA ProgrammedType ==
  ASSUME TInv, Programmed
  PROVE  TInv'
<1>1. /\ UNCHANGED <<pc, tool, startClears, history>>
      /\ busy' = NoBlock /\ prg' = FALSE /\ eop' = TRUE
  BY DEF Programmed
<1>2. NoBlock \in [addr : Addresses, data : Seq(Bytes)]
  BY Sizes DEF NoBlock
<1>3. TypeOK'
  BY <1>1, <1>2, Stored DEF TInv, TypeOK, tool, history
<1>4. Shape'
  BY <1>1 DEF TInv, Shape, tool
<1> QED
  BY <1>3, <1>4 DEF TInv

LEMMA StepTInv ==
  ASSUME TInv, [Next]_vars
  PROVE  TInv'
<1>1. CASE UNCHANGED vars
  <2>1. UNCHANGED <<pc, file, merged, addr, data, offset, looks, mem, prg, eop, busy,
                    startClears, mem0, spoilt>>
    BY <1>1 DEF vars, tool, target, history
  <2>2. TypeOK'
    BY <2>1 DEF TInv, TypeOK
  <2>3. Shape'
    BY <2>1 DEF TInv, Shape
  <2> QED
    BY <2>2, <2>3 DEF TInv
<1> QED
  BY <1>1, ConnectType, LoadType, NextSegmentType, PadType, CheckPrgType, SetPrgType,
     WriteBlockType, PollType, ProgrammedType DEF Next, Run, WriteSegment

(* Tool and target keep their types: every address that is read or written  *)
(* lies in the flash, and every block that is programmed is whole and       *)
(* starts at a block's edge, as Flash.write asserts (espstlink/flash.py:68). *)
THEOREM TypeCorrect == Spec => []TypeOK
<1>1. TInv /\ [Next]_vars => TInv'
  BY StepTInv
<1>2. TInv => TypeOK
  BY DEF TInv
<1> QED
  BY <1>1, <1>2, InitTInv, PTL DEF Spec

(* For every file the segments hold the bytes of its records, no more and   *)
(* no fewer: in whatever order the records came, joined or not, empty ones  *)
(* among them (ihx.py:17-35).                                               *)
THEOREM MergeKeepsAlways == Spec => []MergeKeeps
<1>1. TInv /\ [Next]_vars => TInv'
  BY StepTInv
<1>2. TInv => MergeKeeps
  <2> SUFFICES ASSUME TInv, pc = "load" PROVE MergeKept(file)
    BY DEF MergeKeeps
  <2>1. file \in Files
    BY DEF TInv, Shape
  <2> QED
    BY <2>1, AllKept
<1> QED
  BY <1>1, <1>2, InitTInv, PTL DEF Spec

-----------------------------------------------------------------------------
LEMMA ImageInFile ==
  ASSUME NEW f \in Files, NEW r \in Image(f)
  PROVE  \E j \in DOMAIN f : r = f[j]
<1>1. PICK n \in 0 .. Len(f) : Loaded(f) = SubSeq(f, 1, n)
  BY LoadedIsPrefix
<1>2. f \in Seq(Record) /\ Len(f) \in Nat
  BY FlasherAssumption
<1>3. \A s \in Seq(Record) : \A m \in 0 .. Len(s) :
        \A i \in DOMAIN SubSeq(s, 1, m) : i \in DOMAIN s /\ SubSeq(s, 1, m)[i] = s[i]
  OBVIOUS
<1>4. PICK i \in DOMAIN Loaded(f) : r = Loaded(f)[i]
  BY DEF Image
<1> QED
  BY <1>1, <1>2, <1>3, <1>4

(* A byte of a segment is a byte of the file, and the other way round. *)
LEMMA SegmentStores ==
  ASSUME NEW f \in Files, NEW i \in DOMAIN LoadMerged(f),
         NEW k \in 1 .. Len(LoadMerged(f)[i].data)
  PROVE  LET seg == LoadMerged(f)[i] IN
         /\ seg.addr + k - 1 \in Addresses
         /\ \E r \in Image(f) : Stores(r, seg.addr + k - 1, seg.data[k])
<1> DEFINE segs == LoadMerged(f)
           seg  == segs[i]
           Segs == [addr : Addresses, data : Seq(Bytes)]
<1>1. /\ segs \in Seq(Segs) /\ Span(seg) \subseteq Addresses
      /\ \A a \in Addresses, v \in Bytes :
           (\E n \in DOMAIN segs : Stores(segs[n], a, v)) <=> \E r \in Image(f) : Stores(r, a, v)
  BY AllKept DEF MergeKept
<1>2. seg \in Segs
  <2> HIDE DEF segs, Segs
  <2>1. i \in 1 .. Len(segs)
    BY <1>1 DEF segs
  <2> QED
    BY <1>1, <2>1, ElementOfSeq
<1>3. seg.addr \in Nat /\ seg.data \in Seq(Bytes)
  BY <1>2, Sizes
<1> HIDE DEF segs, Segs
<1>4. k \in 1 .. Len(seg.data) /\ k \in DOMAIN seg.data /\ seg.data[k] \in Bytes
  BY <1>3 DEF segs
<1>5. seg.addr + k - 1 \in Span(seg)
  BY <1>3, <1>4 DEF Span
<1>6. Stores(seg, seg.addr + k - 1, seg.data[k])
  BY <1>4 DEF Stores
<1>7. seg.addr + k - 1 \in Addresses
  BY <1>1, <1>5
<1>8. \E r \in Image(f) : Stores(r, seg.addr + k - 1, seg.data[k])
  BY <1>1, <1>4, <1>6, <1>7 DEF segs
<1> QED
  BY <1>7, <1>8 DEF segs

LEMMA FileRecord ==
  ASSUME NEW f \in Files, NEW r \in Image(f)
  PROVE  r.addr \in Nat /\ r.data \in Seq(Bytes) /\ \E j \in DOMAIN f : r = f[j]
<1>1. PICK j \in DOMAIN f : r = f[j]
  BY ImageInFile
<1>2. f \in Seq(Record)
  BY FlasherAssumption
<1>3. f[j] \in Record
  BY <1>2
<1> QED
  BY <1>1, <1>3, Sizes DEF Record

LEMMA StoresInSpan ==
  ASSUME NEW f \in Files, NEW r \in Image(f), NEW a, NEW v, Stores(r, a, v)
  PROVE  a \in Span(r) /\ v = r.data[a - r.addr + 1]
<1>1. r.addr \in Nat /\ r.data \in Seq(Bytes)
  BY FileRecord
<1>2. PICK k \in DOMAIN r.data : a = r.addr + k - 1 /\ v = r.data[k]
  BY DEF Stores
<1>3. k \in 1 .. Len(r.data)
  BY <1>1, <1>2
<1>4. a \in r.addr .. r.addr + Len(r.data) - 1 /\ a - r.addr + 1 = k
  <2> DEFINE base == r.addr
             size == Len(r.data)
  <2>1. base \in Nat /\ size \in Nat /\ k \in 1 .. size /\ a = base + k - 1
    BY <1>1, <1>2, <1>3, LenProperties
  <2> HIDE DEF base, size
  <2>2. a \in base .. base + size - 1 /\ a - base + 1 = k
    BY ONLY <2>1
  <2> QED
    BY <2>2 DEF base, size
<1> QED
  BY <1>2, <1>4 DEF Span

LEMMA SegmentsInFile ==
  ASSUME NEW f \in Files, NEW i \in DOMAIN LoadMerged(f), NEW a \in Span(LoadMerged(f)[i])
  PROVE  \E j \in DOMAIN f : a \in Span(f[j])
<1> DEFINE seg == LoadMerged(f)[i]
           Segs == [addr : Addresses, data : Seq(Bytes)]
<1>1. seg.addr \in Nat /\ seg.data \in Seq(Bytes)
  <2>1. LoadMerged(f) \in Seq(Segs)
    BY AllKept DEF MergeKept
  <2> HIDE DEF Segs
  <2>2. seg \in Segs
    BY <2>1
  <2> QED
    BY <2>2, Sizes DEF Segs
<1>2. a - seg.addr + 1 \in 1 .. Len(seg.data) /\ seg.addr + (a - seg.addr + 1) - 1 = a
  BY <1>1 DEF Span
<1>3. \E r \in Image(f) : Stores(r, a, seg.data[a - seg.addr + 1])
  BY <1>2, SegmentStores
<1>4. PICK r \in Image(f) : Stores(r, a, seg.data[a - seg.addr + 1])
  BY <1>3
<1>5. a \in Span(r)
  BY <1>4, StoresInSpan
<1> QED
  BY <1>5, FileRecord
-----------------------------------------------------------------------------
(* Everything that may be written at an address that no file asked for and *)
(* no reset tore is what the flash held at first: what is in hand, what    *)
(* the controller holds, and what is there.                                *)
SpoiltInv ==
  /\ \A j \in DOMAIN file : Span(file[j]) \subseteq spoilt
  /\ \A i \in DOMAIN merged : Span(merged[i]) \subseteq spoilt
  /\ \A k \in 1 .. Len(data) : addr + k - 1 \in spoilt \/ data[k] = Blank
  /\ busy # NoBlock => \A k \in 1 .. BlockSize : busy.addr + k - 1 \in spoilt \/ busy.data[k] = Blank
  /\ NeighboursSurvive

LEMMA InitSpoilt == Init => SpoiltInv
BY DEF Init, SpoiltInv, NeighboursSurvive

LEMMA ConnectSpoilt ==
  ASSUME TInv, SpoiltInv, Connect
  PROVE  SpoiltInv'
<1>1. /\ file' \in Files /\ busy' = NoBlock /\ merged' = << >> /\ data' = << >>
  BY DEF Connect
<1>2. ASSUME NEW a \in Addresses \ spoilt'
      PROVE  mem'[a] = Blank
  <2>1. a \notin spoilt /\ ~(busy # NoBlock /\ a \in Block(busy.addr))
    BY <1>2, SpoiltGrows
  <2>2. mem'[a] = mem[a]
    BY <2>1 DEF Connect
  <2> QED
    BY <2>1, <2>2 DEF SpoiltInv, NeighboursSurvive
<1>3. NeighboursSurvive'
  BY <1>2 DEF NeighboursSurvive
<1>4. \A j \in DOMAIN file' : Span(file'[j]) \subseteq spoilt'
  BY SpoiltGrows
<1> QED
  BY <1>1, <1>3, <1>4 DEF SpoiltInv

LEMMA LoadSpoilt ==
  ASSUME TInv, SpoiltInv, Load
  PROVE  SpoiltInv'
<1>1. /\ UNCHANGED <<file, addr, data, target, history>> /\ pc = "load"
      /\ merged' = merged \/ merged' = LoadMerged(file)
  BY DEF Load
<1>2. file \in Files
  BY <1>1 DEF TInv, Shape
<1>3. \A i \in DOMAIN LoadMerged(file) : Span(LoadMerged(file)[i]) \subseteq spoilt
  BY <1>2, SegmentsInFile DEF SpoiltInv
<1>4. \A i \in DOMAIN merged' : Span(merged'[i]) \subseteq spoilt
  BY <1>1, <1>3 DEF SpoiltInv
<1> QED
  BY <1>1, <1>4 DEF SpoiltInv, NeighboursSurvive, target, history

LEMMA NextSegmentSpoilt ==
  ASSUME TInv, SpoiltInv, NextSegment, merged # << >>
  PROVE  SpoiltInv'
<1>1. UNCHANGED <<file, target, history>>
  BY DEF NextSegment
<1>2. \A i \in DOMAIN merged' : Span(merged'[i]) \subseteq spoilt
  BY TakeSegment DEF SpoiltInv
<1>3. /\ Span(merged[1]) \subseteq spoilt /\ addr' = merged[1].addr /\ data' = merged[1].data
      /\ addr' \in Nat /\ data' \in Seq(Bytes)
  BY TakeSegment, Sizes DEF SpoiltInv
<1>4. \A k \in 1 .. Len(data') : addr' + k - 1 \in addr' .. addr' + Len(data') - 1
  BY <1>3
<1>5. \A k \in 1 .. Len(data') : addr' + k - 1 \in spoilt
  BY <1>3, <1>4 DEF Span
<1> QED
  BY <1>1, <1>2, <1>5 DEF SpoiltInv, NeighboursSurvive, target, history

(* Padding is read from the flash, so it is harmless. *)
LEMMA PadSpoilt ==
  ASSUME TInv, SpoiltInv, PadHead \/ PadTail
  PROVE  SpoiltInv'
<1>1. UNCHANGED <<file, merged, target, history>>
  BY DEF PadHead, PadTail
<1>2. Carried
  BY HeadPadded, TailPadded
<1>3. ASSUME NEW k \in 1 .. Len(data')
      PROVE  addr' + k - 1 \in spoilt \/ data'[k] = Blank
  <2>1. CASE data'[k] = mem[addr' + k - 1]
    BY <1>2, <2>1 DEF Carried, SpoiltInv, NeighboursSurvive
  <2>2. CASE \E j \in 1 .. Len(data) : addr' + k - 1 = addr + j - 1 /\ data'[k] = data[j]
    BY <2>2 DEF SpoiltInv
  <2> QED
    BY <1>2, <2>1, <2>2 DEF Carried
<1> QED
  BY <1>1, <1>3 DEF SpoiltInv, NeighboursSurvive, target, history

LEMMA WriteBlockSpoilt ==
  ASSUME TInv, SpoiltInv, WriteBlock
  PROVE  SpoiltInv'
<1>1. /\ UNCHANGED <<file, merged, addr, data, offset, mem, history>> /\ pc = "write"
      /\ busy' = busy \/ busy' = due
  BY WriteBlockType DEF WriteBlock
<1>2. ASSUME NEW k \in 1 .. BlockSize
      PROVE  due.addr + k - 1 \in spoilt \/ due.data[k] = Blank
  <2>1. /\ offset + k \in 1 .. Len(data) /\ due.data[k] = data[offset + k]
        /\ due.addr = addr + offset
    BY <1>1, Due DEF Programming
  <2>2. (addr + offset) + k - 1 = addr + (offset + k) - 1
    BY Typed, Sizes
  <2> QED
    BY <2>1, <2>2 DEF SpoiltInv
<1>3. (busy # NoBlock => \A k \in 1 .. BlockSize : busy.addr + k - 1 \in spoilt \/ busy.data[k] = Blank)'
  BY <1>1, <1>2 DEF SpoiltInv, history
<1> QED
  BY <1>1, <1>3 DEF SpoiltInv, NeighboursSurvive, history

LEMMA ProgrammedSpoilt ==
  ASSUME TInv, SpoiltInv, Programmed
  PROVE  SpoiltInv'
<1>1. UNCHANGED <<tool, history>> /\ busy # NoBlock /\ busy' = NoBlock
  BY DEF Programmed
<1>2. ASSUME NEW a \in Addresses \ spoilt
      PROVE  mem'[a] = Blank
  BY <1>1, <1>2, Stored DEF SpoiltInv, NeighboursSurvive
<1> QED
  BY <1>1, <1>2 DEF SpoiltInv, NeighboursSurvive, tool, history

LEMMA StepSpoilt ==
  ASSUME TInv, SpoiltInv, [Next]_vars
  PROVE  SpoiltInv'
<1>1. CASE \/ UNCHANGED vars \/ UnlockProg \/ CheckPrg \/ SetPrg \/ Poll \/ GiveUp
           \/ NextSegment /\ merged = << >>
  <2>1. UNCHANGED <<file, merged, addr, data, mem, busy, history>>
    BY <1>1 DEF vars, UnlockProg, CheckPrg, SetPrg, Poll, GiveUp, NextSegment, tool, target, history
  <2> QED
    BY <2>1 DEF SpoiltInv, NeighboursSurvive, history
<1> QED
  BY <1>1, ConnectSpoilt, LoadSpoilt, NextSegmentSpoilt, PadSpoilt, WriteBlockSpoilt,
     ProgrammedSpoilt DEF Next, Run, WriteSegment

(* Runs that fail anywhere, one after another, leave the bytes that no file *)
(* asked for as they were, unless a reset tore their block                  *)
(* (python/flash.py:17-23).                                                 *)
THEOREM NeighboursSurviveAlways == Spec => []NeighboursSurvive
<1>1. TInv /\ SpoiltInv /\ [Next]_vars => (TInv /\ SpoiltInv)'
  BY StepTInv, StepSpoilt
<1>2. Init => TInv /\ SpoiltInv
  BY InitTInv, InitSpoilt
<1>3. TInv /\ SpoiltInv => NeighboursSurvive
  BY DEF SpoiltInv
<1> QED
  BY <1>1, <1>2, <1>3, PTL DEF Spec
-----------------------------------------------------------------------------
(* The flash this run is to end with. *)
want == Burnt(file, mem0)

LEMMA Wanted ==
  ASSUME NEW f \in Files, NEW m, NEW a \in Addresses
  PROVE  /\ \A r \in Image(f) : \A v : Stores(r, a, v) => Burnt(f, m)[a] = v
         /\ Burnt(f, m)[a] = m[a] \/ \E r \in Image(f) : \E v \in Bytes : Stores(r, a, v)
<1>1. Burnt(f, m)[a] = IF \E r \in Image(f) : a \in Span(r)
                       THEN LET by == CHOOSE r \in Image(f) : a \in Span(r)
                            IN  by.data[a - by.addr + 1]
                       ELSE m[a]
  BY DEF Burnt
<1>2. ASSUME NEW r \in Image(f), a \in Span(r)
      PROVE  Burnt(f, m)[a] = r.data[a - r.addr + 1] /\ \E v \in Bytes : Stores(r, a, v)
  <2> DEFINE by == CHOOSE q \in Image(f) : a \in Span(q)
  <2>1. by \in Image(f) /\ a \in Span(by)
    BY <1>2
  <2>2. Burnt(f, m)[a] = by.data[a - by.addr + 1]
    BY <1>1, <1>2
  <2> HIDE DEF by
  <2>3. PICK i \in DOMAIN f : by = f[i]
    BY <2>1, FileRecord
  <2>4. PICK j \in DOMAIN f : r = f[j]
    BY FileRecord
  <2>5. i = j
    BY <1>2, <2>1, <2>3, <2>4, FlasherAssumption
  <2>6. by = r
    BY <2>3, <2>4, <2>5
  <2>7. r.addr \in Nat /\ r.data \in Seq(Bytes) /\ a \in Nat
    BY FileRecord, Sizes
  <2>8. a - r.addr + 1 \in 1 .. Len(r.data) /\ a = r.addr + (a - r.addr + 1) - 1
    <3>1. Len(r.data) \in Nat /\ a \in r.addr .. r.addr + Len(r.data) - 1
      BY <1>2, <2>7 DEF Span
    <3> QED
      BY <2>7, <3>1
  <2>9. r.data[a - r.addr + 1] \in Bytes /\ a - r.addr + 1 \in DOMAIN r.data
    BY <2>7, <2>8
  <2>10. Stores(r, a, r.data[a - r.addr + 1])
    BY <2>8, <2>9 DEF Stores
  <2> QED
    BY <2>2, <2>6, <2>9, <2>10
<1>3. ASSUME NEW r \in Image(f), NEW v, Stores(r, a, v)
      PROVE  Burnt(f, m)[a] = v
  BY <1>2, <1>3, StoresInSpan
<1>4. (\A r \in Image(f) : a \notin Span(r)) => Burnt(f, m)[a] = m[a]
  BY <1>1
<1> QED
  BY <1>2, <1>3, <1>4

(* Addresses a later segment will overwrite, what is right at an address    *)
(* until then, and addresses that the segment in hand will overwrite.       *)
Later(a)    == \E i \in DOMAIN merged : a \in Span(merged[i])
Right(a, v) == v = want[a] \/ Later(a)
InHand      == {"head"} \cup AtEdge
Finished    == IF pc \in Padded THEN offset ELSE 0
InWork(a)   == pc \in InHand /\ a \in addr + Finished .. addr + Len(data) - 1

(* From the merge on, the flash is right but for what is still in work, the *)
(* segments to come hold the file's bytes, and the segment in hand holds,   *)
(* padding included, bytes that are right.  That a padding byte is right    *)
(* needs the flash to be, and the other way round.                          *)
MemRight   == \A a \in Addresses : Right(a, mem[a]) \/ InWork(a)
LaterRight == \A i \in DOMAIN merged : \A k \in 1 .. Len(merged[i].data) :
                merged[i].data[k] = want[merged[i].addr + k - 1]
DataRight  == \A k \in 1 .. Len(data) : Right(addr + k - 1, data[k])
DueRight   == \A k \in 1 .. BlockSize : Right(addr + offset + k - 1, mem[addr + offset + k - 1])

WrittenInv ==
  /\ pc \in {"unlock", "load"} => mem = mem0
  /\ pc \in {"segment", "done"} \cup InHand => MemRight /\ LaterRight
  /\ pc \in InHand => DataRight
  /\ pc = "poll" => (busy # NoBlock => busy = due) /\ (eop => DueRight)
  /\ pc = "done" => merged = << >> /\ busy = NoBlock

AllInv == IInv /\ TInv /\ WrittenInv

LEMMA LoadWritten ==
  ASSUME AllInv, UnlockProg \/ Load
  PROVE  WrittenInv'
<1>1. UNCHANGED <<file, target, history>> /\ pc \in {"unlock", "load"} /\ file \in Files /\ mem = mem0
  BY DEF UnlockProg, Load, tool, AllInv, TInv, Shape, WrittenInv
<1>2. CASE pc' # "segment"
  <2>1. pc' \in {"load", "raised"}
    BY <1>2 DEF UnlockProg, Load, GoesTo
  <2> QED
    BY <1>1, <2>1 DEF WrittenInv, InHand, AtEdge, target, history
<1>3. CASE pc' = "segment"
  <2>1. merged' = LoadMerged(file)
    BY <1>3 DEF UnlockProg, Load, GoesTo
  <2>2. want' = Burnt(file, mem0) /\ mem' = mem
    BY <1>1 DEF want, target, history
  <2>3. ASSUME NEW i \in DOMAIN merged', NEW k \in 1 .. Len(merged'[i].data)
        PROVE  merged'[i].data[k] = want'[merged'[i].addr + k - 1]
    <3>1. /\ merged'[i].addr + k - 1 \in Addresses
          /\ \E r \in Image(file) : Stores(r, merged'[i].addr + k - 1, merged'[i].data[k])
      BY <1>1, <2>1, SegmentStores
    <3> QED
      BY <1>1, <2>2, <3>1, Wanted
  <2>4. ASSUME NEW a \in Addresses
        PROVE  mem'[a] = want'[a] \/ \E i \in DOMAIN merged' : a \in Span(merged'[i])
    <3>1. CASE Burnt(file, mem0)[a] = mem0[a]
      BY <1>1, <2>2, <3>1
    <3>2. CASE \E r \in Image(file) : \E v \in Bytes : Stores(r, a, v)
      <4>1. PICK v \in Bytes : \E r \in Image(file) : Stores(r, a, v)
        BY <3>2
      <4>2. PICK i \in DOMAIN LoadMerged(file) : Stores(LoadMerged(file)[i], a, v)
        BY <1>1, <4>1, AllKept DEF MergeKept
      <4>3. PICK k \in DOMAIN LoadMerged(file)[i].data : a = LoadMerged(file)[i].addr + k - 1
        BY <4>2 DEF Stores
      <4> DEFINE Segs == [addr : Addresses, data : Seq(Bytes)]
      <4>4. LoadMerged(file) \in Seq(Segs)
        BY <1>1, AllKept DEF MergeKept
      <4> HIDE DEF Segs
      <4>5. LoadMerged(file)[i] \in Segs
        BY <4>4
      <4>6. LoadMerged(file)[i].addr \in Nat /\ LoadMerged(file)[i].data \in Seq(Bytes)
        BY <4>5, Sizes DEF Segs
      <4>7. k \in 1 .. Len(LoadMerged(file)[i].data) /\ k \in Nat
        BY <4>6
      <4>8. a \in Span(LoadMerged(file)[i])
        BY <4>3, <4>6, <4>7 DEF Span
      <4> QED
        BY <2>1, <4>8
    <3> QED
      BY <1>1, <3>1, <3>2, Wanted
  <2>5. MemRight'
    BY <2>4 DEF MemRight, Right, Later
  <2>6. LaterRight'
    BY <2>3 DEF LaterRight
  <2> QED
    BY <1>3, <2>5, <2>6 DEF WrittenInv, InHand, AtEdge
<1> QED
  BY <1>2, <1>3

LEMMA NextSegmentWritten ==
  ASSUME AllInv, NextSegment
  PROVE  WrittenInv'
<1>1. /\ UNCHANGED <<file, target, history>> /\ pc = "segment" /\ MemRight /\ LaterRight
      /\ busy = NoBlock
  BY DEF NextSegment, AllInv, WrittenInv, IInv, Quiet, HoldsBlock
<1>2. want' = want /\ mem' = mem /\ busy' = busy
  BY <1>1 DEF want, target, history
<1>3. \A a \in Addresses : mem[a] = want[a] \/ Later(a)
  BY <1>1 DEF MemRight, Right, InWork, InHand, AtEdge
<1>4. CASE merged = << >>
  <2>1. pc' = "done" /\ merged' = merged
    BY <1>4 DEF NextSegment
  <2>2. \A a \in Addresses : mem[a] = want[a]
    BY <1>3, <1>4 DEF Later
  <2>3. MemRight' /\ LaterRight'
    BY <1>1, <1>2, <2>1, <2>2 DEF MemRight, Right, LaterRight
  <2> QED
    BY <1>1, <1>2, <1>4, <2>1, <2>3 DEF WrittenInv, InHand, AtEdge
<1>5. CASE merged # << >>
  <2>1. TInv
    BY DEF AllInv
  <2>2. /\ pc' = "head" /\ addr' = merged[1].addr /\ data' = merged[1].data
        /\ addr' \in Nat /\ data' \in Seq(Bytes) /\ 1 \in DOMAIN merged
    BY <1>5, <2>1, TakeSegment, Sizes
  <2>3. LaterRight'
    <3>1. ASSUME NEW i \in DOMAIN merged', NEW k \in 1 .. Len(merged'[i].data)
          PROVE  merged'[i].data[k] = want[merged'[i].addr + k - 1]
      <4>1. i + 1 \in DOMAIN merged /\ merged'[i] = merged[i + 1]
        BY <1>5, <2>1, TakeSegment
      <4> QED
        BY <1>1, <4>1 DEF LaterRight
    <3> QED
      BY <1>2, <3>1 DEF LaterRight
  <2>4. \A k \in 1 .. Len(data') : data'[k] = want[addr' + k - 1]
    BY <1>1, <2>2 DEF LaterRight
  <2>5. ASSUME NEW a \in Addresses, Later(a)
        PROVE  Later(a)' \/ a \in Span(merged[1])
    BY <1>5, <2>1, <2>5, TakeSegment DEF Later
  <2>6. ASSUME NEW a \in Span(merged[1])
        PROVE  InWork(a)'
    BY <2>2, <2>6 DEF Span, InWork, InHand, Finished, Padded
  <2>7. MemRight'
    BY <1>2, <1>3, <2>5, <2>6 DEF MemRight, Right
  <2>8. DataRight'
    BY <1>2, <2>4 DEF DataRight, Right
  <2> QED
    BY <2>2, <2>3, <2>7, <2>8 DEF WrittenInv
<1> QED
  BY <1>4, <1>5

(* A padded segment covers what it covered. *)
LEMMA Within ==
  ASSUME NEW x \in Nat, NEW n \in Nat, NEW y \in Nat, NEW m \in Nat,
         y <= x, x + n <= y + m, NEW a \in x .. x + n - 1
  PROVE  a \in y .. y + m - 1
OBVIOUS

LEMMA PadWritten ==
  ASSUME AllInv, PadHead \/ PadTail
  PROVE  WrittenInv'
<1>1. /\ UNCHANGED <<file, merged, target, history>> /\ pc \in {"head", "tail"}
      /\ pc' \in {"tail", "block", "raised"} /\ (pc' = "block" => offset' = 0)
  BY DEF PadHead, PadTail, GoesTo
<1>2. /\ want' = want /\ mem' = mem /\ busy' = busy
      /\ \A a, v : Right(a, v)' <=> Right(a, v)
  BY <1>1 DEF want, target, history, Right, Later
<1>3. MemRight /\ LaterRight /\ DataRight /\ TInv
  BY <1>1 DEF AllInv, WrittenInv, InHand, AtEdge
<1>4. /\ addr \in Nat /\ addr' \in Nat /\ data' \in Seq(Bytes) /\ Len(data) \in Nat
      /\ Carried /\ addr' <= addr /\ addr + Len(data) <= addr' + Len(data')
  <2>1. addr \in Nat /\ data \in Seq(Bytes) /\ Len(data) \in Nat
    BY <1>3, Typed
  <2>2. CASE PadHead
    <3>1. /\ addr' \in Addresses /\ data' \in Seq(Bytes) /\ Carried
          /\ addr' <= addr /\ addr' + Len(data') = addr + Len(data)
      BY <1>3, <2>2, HeadPadded
    <3> QED
      BY <2>1, <3>1, Sizes
  <2>3. CASE PadTail
    <3>1. addr' = addr /\ data' \in Seq(Bytes) /\ Carried /\ Len(data) <= Len(data')
      BY <1>3, <2>3, TailPadded
    <3> QED
      BY <2>1, <3>1
  <2> QED
    BY <2>2, <2>3
<1>5. CASE pc' = "raised"
  BY <1>5 DEF WrittenInv, InHand, AtEdge
<1>0. Finished = 0 /\ addr + 0 = addr
  BY <1>1, <1>4 DEF Finished, Padded
<1>6. CASE pc' # "raised"
  <2>1. ASSUME NEW a, InWork(a) PROVE InWork(a)'
    <3>1. a \in addr .. addr + Len(data) - 1
      BY <1>0, <2>1 DEF InWork
    <3>2. Len(data') \in Nat
      BY <1>4
    <3>3. /\ addr \in Nat /\ addr' \in Nat /\ Len(data) \in Nat
          /\ addr' <= addr /\ addr + Len(data) <= addr' + Len(data')
      BY <1>4
    <3>5. a \in addr' .. addr' + Len(data') - 1
      BY <3>1, <3>2, <3>3, Within
    <3>6. addr' + 0 = addr'
      <4>1. \A x \in Nat : x + 0 = x
        OBVIOUS
      <4> QED
        BY <3>3, <4>1
    <3>4. Finished' = 0
      BY <1>1, <1>6 DEF Finished, Padded
    <3> QED
      BY <1>1, <1>6, <3>4, <3>5, <3>6 DEF InWork, InHand, AtEdge
  <2>2. MemRight'
    BY <1>2, <1>3, <2>1 DEF MemRight
  <2>3. LaterRight'
    BY <1>1, <1>2, <1>3 DEF LaterRight
  <2>4. ASSUME NEW k \in 1 .. Len(data') PROVE Right(addr' + k - 1, data'[k])
    <3>1. CASE data'[k] = mem[addr' + k - 1] /\ addr' + k - 1 \notin addr .. addr + Len(data) - 1
      <4>1. ~InWork(addr' + k - 1)
        BY <1>0, <3>1 DEF InWork
      <4> QED
        BY <1>3, <1>4, <3>1, <4>1 DEF MemRight, Carried
    <3>2. CASE \E j \in 1 .. Len(data) : addr' + k - 1 = addr + j - 1 /\ data'[k] = data[j]
      BY <1>3, <3>2 DEF DataRight
    <3> QED
      BY <1>4, <3>1, <3>2 DEF Carried
  <2>5. DataRight'
    BY <1>2, <2>4 DEF DataRight
  <2> QED
    BY <1>1, <1>6, <2>2, <2>3, <2>5 DEF WrittenInv
<1> QED
  BY <1>5, <1>6

(* Up to the block, and between two blocks. *)
LEMMA CheckPrgWritten ==
  ASSUME AllInv, CheckPrg
  PROVE  WrittenInv'
<1>1. UNCHANGED <<tool, target, history>> /\ pc = "block" /\ MemRight /\ LaterRight /\ DataRight /\ TInv
  BY DEF CheckPrg, AllInv, WrittenInv, InHand, AtEdge
<1>2. /\ want' = want /\ mem' = mem /\ busy' = busy /\ merged' = merged
      /\ addr' = addr /\ data' = data /\ offset' = offset
      /\ \A a, v : Right(a, v)' <=> Right(a, v)
  BY <1>1 DEF want, tool, target, history, Right, Later
<1>3. addr \in Nat /\ Len(data) \in Nat /\ offset \in Nat
  BY <1>1, Typed
<1>4. CASE pc' = "segment"
  <2>1. offset >= Len(data)
    BY <1>4, <1>3 DEF CheckPrg, GoesTo
  <2>2. \A a : ~InWork(a)
    <3> SUFFICES ASSUME NEW a, InWork(a) PROVE FALSE
      OBVIOUS
    <3>1. Finished = offset
      BY <1>1 DEF Finished, Padded
    <3>2. a \in addr + offset .. addr + Len(data) - 1
      BY <3>1 DEF InWork
    <3>3. a \in Int /\ addr + offset <= a /\ a <= addr + Len(data) - 1
      BY <1>3, <3>2
    <3> QED
      BY <1>3, <2>1, <3>3
  <2>3. MemRight' /\ LaterRight'
    BY <1>1, <1>2, <2>2 DEF MemRight, LaterRight
  <2> QED
    BY <1>4, <2>3 DEF WrittenInv, InHand, AtEdge
<1>5. CASE pc' = "setPrg"
  <2>1. \A a : InWork(a)' <=> InWork(a)
    BY <1>1, <1>2, <1>5 DEF InWork, Finished, InHand, AtEdge, Padded
  <2>2. MemRight' /\ LaterRight' /\ DataRight'
    BY <1>1, <1>2, <2>1 DEF MemRight, LaterRight, DataRight
  <2> QED
    BY <1>5, <2>2 DEF WrittenInv
<1>6. CASE pc' = "raised"
  BY <1>6 DEF WrittenInv, InHand, AtEdge
<1> QED
  BY <1>4, <1>5, <1>6 DEF CheckPrg, GoesTo

LEMMA BlockWritten ==
  ASSUME AllInv, SetPrg \/ WriteBlock
  PROVE  WrittenInv'
<1>1. /\ UNCHANGED <<file, merged, addr, data, offset, mem, history>>
      /\ pc \in {"setPrg", "write"} /\ pc' \in {"write", "poll", "raised"}
      /\ MemRight /\ LaterRight /\ DataRight /\ TInv
      /\ busy = NoBlock /\ eop = FALSE
  BY DEF SetPrg, WriteBlock, GoesTo, tool, AllInv, WrittenInv, InHand, AtEdge, IInv, Quiet, HoldsBlock
<1>2. want' = want /\ due' = due /\ \A a, v : Right(a, v)' <=> Right(a, v)
  BY <1>1 DEF want, due, history, Right, Later
<1>3. CASE pc' = "raised"
  BY <1>3 DEF WrittenInv, InHand, AtEdge
<1>4. CASE pc' # "raised"
  <2>1. \A a : InWork(a)' <=> InWork(a)
    BY <1>1, <1>4 DEF InWork, Finished, InHand, AtEdge, Padded
  <2>2. MemRight' /\ LaterRight' /\ DataRight'
    BY <1>1, <1>2, <2>1 DEF MemRight, LaterRight, DataRight
  <2>3. pc' = "poll" => (busy' = NoBlock \/ busy' = due) /\ eop' = FALSE
    <3>1. SetPrg => pc' # "poll"
      BY DEF SetPrg, GoesTo
    <3>2. WriteBlock => (busy' = NoBlock \/ busy' = due) /\ eop' = FALSE
      BY <1>1, WriteBlockType DEF WriteBlock, TakesBlock
    <3> QED
      BY <3>1, <3>2
  <2>4. pc' = "poll" => (busy' # NoBlock => busy' = due') /\ (eop' => DueRight')
    BY <1>2, <2>3
  <2> QED
    BY <1>1, <1>4, <2>2, <2>4 DEF WrittenInv
<1> QED
  BY <1>3, <1>4

LEMMA PollWritten ==
  ASSUME AllInv, Poll \/ GiveUp
  PROVE  WrittenInv'
<1>1. /\ UNCHANGED <<file, merged, addr, data, mem, busy, history>>
      /\ pc = "poll" /\ pc' \in {"poll", "block", "raised"} /\ eop' = FALSE
      /\ pc' = "poll" => offset' = offset
      /\ pc' = "block" => eop /\ offset' = offset + BlockSize
      /\ MemRight /\ LaterRight /\ DataRight /\ TInv
      /\ (busy # NoBlock => busy = due) /\ (eop => DueRight)
  BY DEF Poll, GiveUp, ReadsStatus, GoesTo, tool, AllInv, WrittenInv, InHand, AtEdge
<1>2. want' = want /\ \A a, v : Right(a, v)' <=> Right(a, v)
  BY <1>1 DEF want, history, Right, Later
<1>3. LaterRight' /\ DataRight'
  BY <1>1, <1>2 DEF LaterRight, DataRight
<1>4. CASE pc' = "raised"
  BY <1>4 DEF WrittenInv, InHand, AtEdge
<1>5. CASE pc' = "poll"
  <2>1. \A a : InWork(a)' <=> InWork(a)
    BY <1>1, <1>5 DEF InWork, Finished, InHand, AtEdge, Padded
  <2>2. MemRight' /\ due' = due
    BY <1>1, <1>2, <1>5, <2>1 DEF MemRight, due
  <2> QED
    BY <1>1, <1>3, <1>5, <2>2 DEF WrittenInv, InHand, AtEdge
<1>6. CASE pc' = "block"
  <2>1. addr \in Nat /\ Len(data) \in Nat /\ offset \in Nat /\ BlockSize \in Nat
    BY <1>1, Typed, Sizes
  <2>2. DueRight
    BY <1>1, <1>6
  <2>3. ASSUME NEW a \in Addresses, InWork(a)
        PROVE  Right(a, mem[a]) \/ InWork(a)'
    <3>1. a \in addr + offset .. addr + Len(data) - 1 /\ a \in Nat
      BY <1>1, <2>3, Sizes DEF InWork, Finished, Padded
    <3>2. CASE a < addr + offset + BlockSize
      <4>1. /\ a - (addr + offset) + 1 \in 1 .. BlockSize
            /\ addr + offset + (a - (addr + offset) + 1) - 1 = a
        BY <2>1, <3>1, <3>2
      <4> QED
        BY <2>2, <4>1 DEF DueRight
    <3>3. CASE ~(a < addr + offset + BlockSize)
      <4>1. a \in addr + (offset + BlockSize) .. addr + Len(data) - 1
        BY <2>1, <3>1, <3>3
      <4> QED
        BY <1>1, <1>6, <4>1 DEF InWork, Finished, InHand, AtEdge, Padded
    <3> QED
      BY <3>2, <3>3
  <2>4. MemRight'
    BY <1>1, <1>2, <2>3 DEF MemRight
  <2> QED
    BY <1>3, <1>6, <2>4 DEF WrittenInv
<1> QED
  BY <1>1, <1>4, <1>5, <1>6

LEMMA ProgrammedWritten ==
  ASSUME AllInv, Programmed
  PROVE  WrittenInv'
<1>1. /\ UNCHANGED <<pc, tool, history>> /\ busy # NoBlock /\ busy' = NoBlock /\ eop' = TRUE /\ TInv
  BY DEF Programmed, AllInv
<1>2. pc \in {"poll", "raised"}
  <2>1. pc \notin HoldsBlock /\ pc # "done"
    BY <1>1 DEF AllInv, IInv, Quiet, WrittenInv
  <2> QED
    BY <1>1, <2>1 DEF HoldsBlock, TInv, TypeOK
<1>3. CASE pc = "raised"
  BY <1>1, <1>3 DEF WrittenInv, InHand, AtEdge
<1>4. CASE pc = "poll"
  <2>1. MemRight /\ LaterRight /\ DataRight /\ busy = due
    BY <1>1, <1>4 DEF AllInv, WrittenInv, InHand, AtEdge
  <2>2. /\ want' = want /\ (\A a, v : Right(a, v)' <=> Right(a, v)) /\ due' = due
        /\ \A a : InWork(a)' <=> InWork(a)
    BY <1>1 DEF want, history, tool, Right, Later, due, InWork, Finished
  <2>3. LaterRight' /\ DataRight'
    BY <1>1, <2>1, <2>2 DEF LaterRight, DataRight, tool
  <2>4. addr \in Nat /\ offset \in Nat /\ BlockSize \in Nat
    BY <1>1, Typed, Sizes
  <2>5. ASSUME NEW k \in 1 .. BlockSize
        PROVE  Right(due.addr + k - 1, due.data[k]) /\ due.addr + k - 1 = addr + offset + k - 1
    <3>1. offset + k \in 1 .. Len(data) /\ due.data[k] = data[offset + k] /\ due.addr = addr + offset
      BY <1>1, <1>4, Due DEF Programming
    <3>2. due.addr + k - 1 = addr + (offset + k) - 1 /\ due.addr + k - 1 = addr + offset + k - 1
      BY <2>4, <3>1
    <3> QED
      BY <2>1, <3>1, <3>2 DEF DataRight
  <2>6. ASSUME NEW a \in Addresses
        PROVE  Right(a, mem'[a]) \/ (mem'[a] = mem[a] /\ a \notin Block(busy.addr))
    <3>1. CASE \E k \in 1 .. BlockSize : a = busy.addr + k - 1 /\ mem'[a] = busy.data[k]
      <4>1. PICK k \in 1 .. BlockSize : a = busy.addr + k - 1 /\ mem'[a] = busy.data[k]
        BY <3>1
      <4>2. Right(busy.addr + k - 1, busy.data[k])
        BY <2>1, <2>5
      <4> QED
        BY <4>1, <4>2
    <3> QED
      BY <1>1, <3>1, Stored
  <2>7. MemRight'
    BY <2>1, <2>2, <2>6 DEF MemRight
  <2>8. ASSUME NEW k \in 1 .. BlockSize
        PROVE  Right(addr + offset + k - 1, mem'[addr + offset + k - 1])
    <3>1. busy.addr \in Addresses /\ IsBlock(busy) /\ busy.addr = addr + offset
      BY <1>1, <1>4, <2>1, Due DEF Programming
    <3>2. /\ Block(busy.addr) = busy.addr .. busy.addr + BlockSize - 1
          /\ Block(busy.addr) \subseteq Addresses
      BY <3>1, BlockAt
    <3>3. addr + offset + k - 1 \in Block(busy.addr)
      BY <2>4, <3>1, <3>2
    <3> QED
      BY <2>6, <3>2, <3>3
  <2>9. DueRight'
    BY <1>1, <2>2, <2>8 DEF DueRight, tool
  <2> QED
    BY <1>1, <1>4, <2>3, <2>7, <2>9 DEF WrittenInv
<1> QED
  BY <1>2, <1>3, <1>4

LEMMA StepWritten ==
  ASSUME AllInv, [Next]_vars
  PROVE  WrittenInv'
<1>1. CASE UNCHANGED vars
  BY <1>1 DEF AllInv, WrittenInv, vars, tool, target, history, MemRight, LaterRight, DataRight,
     DueRight, Right, Later, InWork, Finished, want, due
<1>2. CASE Connect
  BY <1>2 DEF Connect, WrittenInv, InHand, AtEdge
<1> QED
  BY <1>1, <1>2, LoadWritten, NextSegmentWritten, PadWritten, CheckPrgWritten, BlockWritten,
     PollWritten, ProgrammedWritten DEF Next, Run, WriteSegment

(* A run that ends well has written every byte of the file and changed no   *)
(* other (ihx.py:17-35, python/flash.py:14-34, espstlink/flash.py:67-82),   *)
(* for every size of block and flash, every file and every place where      *)
(* earlier runs have failed.                                                *)
THEOREM WrittenOnSuccessAlways == Spec => []WrittenOnSuccess
<1>1. AllInv /\ [Next]_vars => AllInv'
  BY StepInv, StepTInv, StepWritten DEF AllInv
<1>2. Init => AllInv
  <2>1. Init => WrittenInv
    BY DEF Init, WrittenInv, InHand, AtEdge
  <2> QED
    BY <2>1, InitInv, InitTInv DEF AllInv
<1>3. AllInv => WrittenOnSuccess
  <2> SUFFICES ASSUME AllInv, pc = "done" PROVE mem = want /\ busy = NoBlock
    BY DEF WrittenOnSuccess, want
  <2>1. MemRight /\ merged = << >> /\ busy = NoBlock
    BY DEF AllInv, WrittenInv
  <2>2. \A a \in Addresses : mem[a] = want[a]
    BY <2>1 DEF MemRight, Right, Later, InWork, InHand, AtEdge
  <2>3. mem \in [Addresses -> Bytes]
    BY DEF AllInv, TInv, TypeOK
  <2>4. want = [a \in Addresses |-> want[a]]
    BY DEF want, Burnt
  <2> QED
    BY <2>1, <2>2, <2>3, <2>4
<1> QED
  BY <1>1, <1>2, <1>3, PTL DEF Spec
=============================================================================
