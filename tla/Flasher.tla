------------------------------ MODULE Flasher ------------------------------
(***************************************************************************)
(* python/flash.py burns an Intel hex file into the target's flash: it     *)
(* merges the records (ihx.py), fills the first and the last block of a    *)
(* segment from the target's memory and programs block after block         *)
(* (espstlink/flash.py).  Every step is a call over the serial line that   *)
(* may raise, before or after the target has done what it asks; then the   *)
(* tool ends and its user may start it again.                              *)
(*                                                                         *)
(* Outside the repository: the flash controller, as Flash.write uses it.   *)
(* It programs a block in its own time, then clears PRG and sets EOP.  A   *)
(* read of EOP clears it, or wait_till_ready would never end; whether the  *)
(* next operation clears it too is left open (startClears, fixed from the  *)
(* start).  A reset in the middle of a block leaves anything in it.        *)
(***************************************************************************)
EXTENDS Integers, FiniteSets, SequencesExt

CONSTANTS BlockSize,  \* 0x40
          Blocks,     \* blocks of the flash
          Protected,  \* those the target's option bytes protect
          Bytes,      \* values of a byte, 0 among them
          Blank,      \* what the flash holds at first
          Files,      \* hex files: sequences of records
          Polls       \* 320 looks at EOP

Addresses == 0 .. BlockSize * Blocks - 1
BlockOf(a) == a - (a % BlockSize)
Block(a)   == BlockOf(a) .. BlockOf(a) + BlockSize - 1
Record     == [addr : Addresses, type : Nat, data : Seq(Bytes)]

(* Records do not overlap and end inside the flash. *)
Span(r) == r.addr .. r.addr + Len(r.data) - 1

ASSUME FlasherAssumption ==
  /\ BlockSize \in Nat \ {0} /\ Blocks \in Nat \ {0} /\ Polls \in Nat \ {0}
  /\ Protected \subseteq {BlockOf(a) : a \in Addresses}
  /\ {0, Blank} \subseteq Bytes /\ Bytes \subseteq Nat
  /\ Files \subseteq Seq(Record)
  /\ \A f \in Files : \A i, j \in DOMAIN f :
       /\ Span(f[i]) \subseteq Addresses
       /\ i # j => Span(f[i]) \cap Span(f[j]) = {}

VARIABLES pc,      \* where write_ihx and what it calls are
          file,    \* the hex file of this run
          merged,  \* segments load_merged has still to yield
          addr,    \* write_segment's addr
          data,    \* write_segment's data
          offset,  \* and its loop variable
          looks,   \* looks at EOP left in Flash.write
          mem,     \* the target's flash
          prg,     \* FLASH_CR2.PRG, and the complement in NCR2
          eop,     \* FLASH_IAPSR.EOP
          busy,    \* the block being programmed
          startClears, \* a new operation clears EOP
          mem0,    \* history: the flash when this run connected
          spoilt   \* history: addresses asked for or torn so far

tool    == <<file, merged, addr, data, offset, looks>>
target  == <<mem, prg, eop, busy, startClears>>
history == <<mem0, spoilt>>
vars    == <<pc, tool, target, history>>

NoBlock == [addr |-> 0, data |-> << >>]
-----------------------------------------------------------------------------
Type_EOF == 1

(* load: the records in front of the first end-of-file record. *)
Loaded(f) == SubSeq(f, 1, SelectInSubSeq(f \o <<[addr |-> 0, type |-> Type_EOF, data |-> << >>]>>,
                                         1, Len(f) + 1, LAMBDA r : r.type = Type_EOF) - 1)

Yield(seg) == IF seg.data = << >> THEN seg.out
              ELSE Append(seg.out, [addr |-> seg.addr, data |-> seg.data])

(* Mutation: a record is merged if it is nearer than a block. *)
MergeNear(seg, r) ==
  IF r.addr - (seg.addr + Len(seg.data)) \in 0 .. 1
  THEN [seg EXCEPT !.data = @ \o r.data]
  ELSE [addr |-> r.addr, data |-> r.data, out |-> Yield(seg)]

(* A record that starts where the segment ends goes on with it. *)
Merge(seg, r) ==
  IF seg.addr + Len(seg.data) = r.addr
  THEN [seg EXCEPT !.data = @ \o r.data]
  ELSE [addr |-> r.addr, data |-> r.data, out |-> Yield(seg)]

(* sort() is stable: before a record come those of lower addresses and the  *)
(* earlier ones at its own.                                                 *)
Before(s, i, j) == s[i].addr < s[j].addr \/ (s[i].addr = s[j].addr /\ i <= j)
Rank(s, j)      == Cardinality({i \in DOMAIN s : Before(s, i, j)})
ByAddress(s)    == [k \in DOMAIN s |-> s[CHOOSE j \in DOMAIN s : Rank(s, j) = k]]

MergeAll(records) ==
  LET seg[n \in 0 .. Len(records)] ==
        IF n = 0 THEN [addr |-> 0, data |-> << >>, out |-> << >>]
        ELSE Merge(seg[n - 1], records[n])
  IN  Yield(seg[Len(records)])

LoadMerged(f) == MergeAll(ByAddress(Loaded(f)))
-----------------------------------------------------------------------------
Init ==
  /\ pc = "raised"  \* no run yet
  /\ file = << >> /\ merged = << >>
  /\ addr = 0 /\ data = << >> /\ offset = 0 /\ looks = 0
  /\ mem = [a \in Addresses |-> Blank]
  /\ prg = FALSE /\ eop = FALSE /\ busy = NoBlock
  /\ startClears \in BOOLEAN
  /\ mem0 = mem /\ spoilt = {}

(* A call over the serial line that may raise. *)
GoesTo(next) == pc' \in {next, "raised"}

(* dev.init resets the target, in the middle of a block perhaps. *)
Connect ==
  /\ pc \in {"raised", "done"}
  /\ file' \in Files
  /\ \E v \in Bytes :
       mem' = [a \in Addresses |->
                 IF busy # NoBlock /\ a \in Block(busy.addr) THEN v ELSE mem[a]]
  /\ prg' = FALSE /\ eop' = FALSE /\ busy' = NoBlock
  /\ mem0' = mem'
  /\ spoilt' = spoilt \cup (UNION {Span(file'[i]) : i \in DOMAIN file'})
                      \cup (IF busy # NoBlock THEN Block(busy.addr) ELSE {})
  /\ merged' = << >> /\ addr' = 0 /\ data' = << >> /\ offset' = 0 /\ looks' = 0
  /\ pc' = "unlock"
  /\ UNCHANGED startClears

UnlockProg ==
  /\ pc = "unlock"
  /\ GoesTo("load")
  /\ UNCHANGED <<tool, target, history>>

(* All records are looked at before the first segment is yielded. *)
Load ==
  /\ pc = "load"
  /\ IF \E i \in DOMAIN Loaded(file) : Loaded(file)[i].type # 0
     THEN pc' = "raised" /\ UNCHANGED merged
     ELSE pc' = "segment" /\ merged' = LoadMerged(file)
  /\ UNCHANGED <<file, addr, data, offset, looks, target, history>>

NextSegment ==
  /\ pc = "segment"
  /\ IF merged = << >>
     THEN pc' = "done" /\ UNCHANGED <<merged, addr, data>>
     ELSE /\ pc' = "head"
          /\ addr' = Head(merged).addr /\ data' = Head(merged).data
          /\ merged' = Tail(merged)
  /\ UNCHANGED <<file, offset, looks, target, history>>

ReadBytes(a, n) == [k \in 1 .. n |-> mem[a + k - 1]]

PadHead ==
  /\ pc = "head"
  /\ LET missing == addr % BlockSize IN
       /\ addr' = addr - missing
       /\ data' = ReadBytes(addr - missing, missing) \o data
       /\ IF missing = 0 THEN pc' = "tail" ELSE GoesTo("tail")
  /\ UNCHANGED <<file, merged, offset, looks, target, history>>

(* Mutation: the last block is filled up with zeros. *)
PadTailZeros ==
  /\ pc = "tail"
  /\ LET missing == Len(data) % BlockSize IN
       data' = IF missing = 0 THEN data ELSE data \o [k \in 1 .. BlockSize - missing |-> 0]
  /\ offset' = 0
  /\ pc' = "block"
  /\ UNCHANGED <<file, merged, addr, looks, target, history>>

PadTail ==
  /\ pc = "tail"
  /\ LET missing == Len(data) % BlockSize IN
       IF missing = 0
       THEN pc' = "block" /\ UNCHANGED data
       ELSE GoesTo("block") /\ data' = data \o ReadBytes(addr + Len(data), BlockSize - missing)
  /\ offset' = 0
  /\ UNCHANGED <<file, merged, addr, looks, target, history>>
-----------------------------------------------------------------------------
(* Mutation: the loop over the blocks ends one block early. *)
CheckPrgNotLast ==
  /\ pc = "block"
  /\ IF offset + BlockSize >= Len(data) THEN pc' = "segment"
     ELSE IF prg THEN pc' = "raised" ELSE GoesTo("setPrg")
  /\ UNCHANGED <<tool, target, history>>

(* Flash.write.  Its assertion on the PRG bits comes first. *)
CheckPrg ==
  /\ pc = "block"
  /\ IF offset >= Len(data) THEN pc' = "segment"
     ELSE IF prg THEN pc' = "raised" ELSE GoesTo("setPrg")
  /\ UNCHANGED <<tool, target, history>>

SetPrg ==
  /\ pc = "setPrg"
  /\ prg' \in {prg, TRUE}
  /\ GoesTo("write") /\ (~prg' => pc' = "raised")
  /\ UNCHANGED <<tool, mem, eop, busy, startClears, history>>

(* The controller takes a whole block that it may write. *)
TakesBlock(a, bytes) ==
  IF a \in Protected THEN UNCHANGED <<eop, busy>>
  ELSE /\ busy' = [addr |-> a, data |-> bytes]
       /\ eop' = (eop /\ ~startClears)

WriteBlock ==
  /\ pc = "write"
  /\ GoesTo("poll")
  /\ \/ TakesBlock(addr + offset, SubSeq(data, offset + 1, offset + BlockSize))
     \/ pc' = "raised" /\ UNCHANGED <<eop, busy>>
  /\ looks' = Polls
  /\ UNCHANGED <<file, merged, addr, data, offset, mem, prg, startClears, history>>

(* A read of FLASH_IAPSR. *)
ReadsStatus == eop' = FALSE

(* Mutation: the loop has the sense of wait_till_ready, it ends without EOP. *)
PollInverted ==
  /\ pc = "poll" /\ looks > 0
  /\ ReadsStatus
  /\ looks' = looks - 1
  /\ IF ~eop THEN GoesTo("block") /\ offset' = offset + BlockSize
             ELSE GoesTo("poll") /\ UNCHANGED offset
  /\ UNCHANGED <<file, merged, addr, data, mem, prg, busy, startClears, history>>

(* Mutation: the loop counts to the last look and one further. *)
PollOneMore ==
  /\ pc = "poll"
  /\ ReadsStatus
  /\ looks' = looks - 1
  /\ IF eop THEN GoesTo("block") /\ offset' = offset + BlockSize
            ELSE GoesTo("poll") /\ UNCHANGED offset
  /\ UNCHANGED <<file, merged, addr, data, mem, prg, busy, startClears, history>>

(* Mutation: the count of looks starts over, the loop waits as long as it takes. *)
PollForEver ==
  /\ pc = "poll" /\ looks > 0
  /\ ReadsStatus
  /\ looks' = IF looks = 1 THEN Polls ELSE looks - 1
  /\ IF eop THEN GoesTo("block") /\ offset' = offset + BlockSize
            ELSE GoesTo("poll") /\ UNCHANGED offset
  /\ UNCHANGED <<file, merged, addr, data, mem, prg, busy, startClears, history>>

Poll ==
  /\ pc = "poll" /\ looks > 0
  /\ ReadsStatus
  /\ looks' = looks - 1
  /\ IF eop THEN GoesTo("block") /\ offset' = offset + BlockSize
            ELSE GoesTo("poll") /\ UNCHANGED offset
  /\ UNCHANGED <<file, merged, addr, data, mem, prg, busy, startClears, history>>

(* One more read, for WR_PG_DIS; whatever it says the tool raises. *)
GiveUp ==
  /\ pc = "poll" /\ looks = 0
  /\ ReadsStatus
  /\ pc' = "raised"
  /\ UNCHANGED <<tool, mem, prg, busy, startClears, history>>

WriteSegment == PadHead \/ PadTail \/ CheckPrg \/ SetPrg \/ WriteBlock \/ Poll \/ GiveUp
Run          == UnlockProg \/ Load \/ NextSegment \/ WriteSegment

(* The controller has programmed the block. *)
Programmed ==
  /\ busy # NoBlock
  /\ mem' = [a \in Addresses |->
               IF a \in Block(busy.addr) THEN busy.data[a - busy.addr + 1] ELSE mem[a]]
  /\ busy' = NoBlock /\ prg' = FALSE /\ eop' = TRUE
  /\ UNCHANGED <<pc, tool, startClears, history>>

Next == Connect \/ Run \/ Programmed

Spec == Init /\ [][Next]_vars

(* The tool runs on; neither its user nor the controller has to. *)
FairSpec == Spec /\ WF_vars(Run)
-----------------------------------------------------------------------------
TypeOK ==
  /\ pc \in {"unlock", "load", "segment", "head", "tail", "block", "setPrg", "write", "poll", "raised", "done"}
  /\ file \in Files \cup {<< >>}
  /\ merged \in Seq([addr : Addresses, data : Seq(Bytes)])
  /\ addr \in Addresses /\ data \in Seq(Bytes)
  /\ offset \in 0 .. BlockSize * Blocks /\ looks \in 0 .. Polls
  /\ mem \in [Addresses -> Bytes] /\ mem0 \in [Addresses -> Bytes]
  /\ prg \in BOOLEAN /\ eop \in BOOLEAN
  /\ busy \in [addr : Addresses, data : Seq(Bytes)]
  /\ startClears \in BOOLEAN
  /\ spoilt \subseteq Addresses

Image(f) == {Loaded(f)[i] : i \in DOMAIN Loaded(f)}

(* A record or a segment puts a byte at an address. *)
Stores(r, a, v) == \E k \in DOMAIN r.data : a = r.addr + k - 1 /\ v = r.data[k]

(* The segments of a file put the bytes of its records where they belong. *)
MergeKept(f) ==
  LET segs == LoadMerged(f) IN
  /\ segs \in Seq([addr : Addresses, data : Seq(Bytes)])
  /\ \A i \in DOMAIN segs : Span(segs[i]) \subseteq Addresses
  /\ \A a \in Addresses, v \in Bytes :
       (\E i \in DOMAIN segs : Stores(segs[i], a, v)) <=> \E r \in Image(f) : Stores(r, a, v)

(* The merge of the records neither loses, moves nor invents a byte: joined *)
(* or not, out of order, empty, or behind the end-of-file record            *)
(* (ihx.py:17-35).                                                          *)
MergeKeeps == pc = "load" => MergeKept(file)

(* The flash with the bytes of a file in it. *)
Burnt(f, m) ==
  [a \in Addresses |->
     IF \E r \in Image(f) : a \in Span(r)
     THEN LET by == CHOOSE r \in Image(f) : a \in Span(r) IN by.data[a - by.addr + 1]
     ELSE m[a]]

(* A run that ends well has written every byte of the file and changed no   *)
(* other: through the merge of the records, the padding from a memory that  *)
(* the run itself is changing and the wait for each block (ihx.py:17-35,    *)
(* python/flash.py:14-34, espstlink/flash.py:67-82).                        *)
WrittenOnSuccess == pc = "done" => mem = Burnt(file, mem0) /\ busy = NoBlock

(* Runs that fail anywhere, one after another, leave the bytes that no file *)
(* asked for as they were, unless a reset tore their block                  *)
(* (python/flash.py:17-23).                                                 *)
NeighboursSurvive == \A a \in Addresses \ spoilt : mem[a] = Blank

(* The tool is never ahead of the controller: it reads padding and starts a *)
(* block only when the last one is finished, so the assertions on PRG of    *)
(* espstlink/flash.py:73-74 cannot fire in a run.                           *)
BlockFinished ==
  pc \in {"segment", "head", "tail", "block", "setPrg", "write"} =>
    busy = NoBlock /\ (prg <=> pc = "write")

(* Every run ends, on a protected page and with a controller that never     *)
(* finishes too (espstlink/flash.py:79).                                    *)
RunEnds == pc = "unlock" ~> pc \in {"raised", "done"}
=============================================================================
