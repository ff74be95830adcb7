----------------------- MODULE ExecutableMemoryProofs -----------------------
(***************************************************************************)
(* Proofs about ExecutableMemory for any number of runtimes and            *)
(* allocations, any quotas, and a heap of any length.                      *)
(*                                                                         *)
(* The heap's own invariant is that its ranges tile it and that no two     *)
(* free ranges touch.  It is proved for one allocation and one release     *)
(* first; the steps of the protocol only decide which ranges those are.    *)
(***************************************************************************)
EXTENDS ExecutableMemory, SumTheorems

HeapTypeOK ==
  /\ heap.free \subseteq [off : Nat, len : Nat \ {0}]
  /\ heap.allocations \subseteq [off : Nat, len : Nat \ {0}, owner : Owner]

(* A set of naturals has a least element. *)
LEMMA LeastExists ==
  ASSUME NEW S \in SUBSET Nat, S # {}
  PROVE  \E m \in S : \A n \in S : m <= n
<1>1. PICK m \in S : \A n \in S : <<n, m>> \notin OpToRel(<, Nat)
  BY WFMin, NatLessThanWellFounded, Zenon
<1>2. \A n \in S : ~(n < m)
  BY <1>1, Zenon DEF OpToRel
<1> QED  BY <1>2

(* The first range that fits is one of the free ranges. *)
LEMMA FirstFitIsFree ==
  ASSUME HeapTypeOK, NEW len \in Nat, Candidates(len) # {}
  PROVE  FirstFit(len) \in Candidates(len)
<1> DEFINE offs == {r.off : r \in Candidates(len)}
<1>1. offs \in SUBSET Nat /\ offs # {}
  BY DEF HeapTypeOK, Candidates
<1> HIDE DEF offs
<1>2. PICK m \in offs : \A n \in offs : m <= n
  BY <1>1, LeastExists
<1>3. PICK r \in Candidates(len) : r.off = m
  BY DEF offs
<1>4. \A q \in Candidates(len) : r.off <= q.off
  BY <1>2, <1>3 DEF offs
<1> QED  BY <1>4 DEF FirstFit

(* Cutting an allocation off the front of a free range keeps the heap tiled. *)
LEMMA AllocateKeepsPartition ==
  ASSUME HeapTypeOK, HeapIsPartition, HeapPages \in Nat,
         NEW len \in Nat \ {0}, NEW o \in Owner, Candidates(len) # {},
         heap' = HeapAllocate(len, o)
  PROVE  HeapTypeOK' /\ HeapIsPartition'
<1> DEFINE r == FirstFit(len)
           rest == Pages(r.off + len, r.len - len)
           new == [off |-> r.off, len |-> len, owner |-> o]
<1>1. r \in heap.free /\ r.len >= len
  BY FirstFitIsFree DEF Candidates
<1>2. r.off \in Nat /\ r.len \in Nat
  BY <1>1 DEF HeapTypeOK
<1>3. /\ heap'.allocations = heap.allocations \cup {new}
      /\ heap'.free = (heap.free \ {r}) \cup (IF r.len > len THEN {rest} ELSE {})
  BY DEF HeapAllocate
<1> HIDE DEF r
<1>4. HeapTypeOK'
  BY <1>1, <1>2, <1>3 DEF HeapTypeOK, Pages
<1>5. new.off = r.off /\ new.len = len /\ rest.off = r.off + len /\ rest.len = r.len - len
  BY DEF Pages
<1> HIDE DEF new, rest
<1>6. \A p, q \in heap'.free : p = q \/ Disjoint(p, q)
  BY <1>1, <1>2, <1>3, <1>5 DEF HeapIsPartition, HeapTypeOK, Disjoint
<1>7. \A p, q \in heap'.allocations : p = q \/ Disjoint(p, q)
  BY <1>1, <1>2, <1>3, <1>5 DEF HeapIsPartition, HeapTypeOK, Disjoint
<1>8. \A p \in heap'.free, q \in heap'.allocations : Disjoint(p, q)
  BY <1>1, <1>2, <1>3, <1>5 DEF HeapIsPartition, HeapTypeOK, Disjoint
<1>9. ASSUME NEW page \in 0 .. HeapPages - 1
      PROVE  \E q \in heap'.free \cup heap'.allocations : Contains(q, page)
  <2>1. PICK q \in heap.free \cup heap.allocations : Contains(q, page)
    BY DEF HeapIsPartition
  <2>2. CASE q # r
    BY <2>1, <2>2, <1>3
  <2>3. CASE q = r
    BY <2>1, <2>3, <1>1, <1>2, <1>3, <1>5 DEF Contains
  <2> QED  BY <2>2, <2>3
<1>10. \A q \in heap'.free \cup heap'.allocations : q.off + q.len <= HeapPages
  BY <1>1, <1>2, <1>3, <1>5 DEF HeapIsPartition, HeapTypeOK
<1>11. \A p, q \in heap'.free : p.off + p.len # q.off
  BY <1>1, <1>2, <1>3, <1>5 DEF HeapIsPartition, HeapTypeOK, Disjoint
<1> QED  BY <1>4, <1>6, <1>7, <1>8, <1>9, <1>10, <1>11 DEF HeapIsPartition

(* Joining a released range with the free neighbours keeps the heap tiled and
   its free ranges apart. *)
LEMMA ReleaseKeepsPartition ==
  ASSUME HeapTypeOK, HeapIsPartition, HeapPages \in Nat,
         NEW off \in Nat, NEW len \in Nat \ {0}, NEW o \in Owner,
         [off |-> off, len |-> len, owner |-> o] \in heap.allocations,
         heap' = HeapRelease(off, len, o)
  PROVE  /\ HeapTypeOK' /\ HeapIsPartition'
         /\ heap'.allocations = heap.allocations \ {[off |-> off, len |-> len, owner |-> o]}
<1> DEFINE old == [off |-> off, len |-> len, owner |-> o]
           previous == OnlyOr(Ending(off), Pages(off, 0))
           next == OnlyOr(Starting(off + len), Pages(off + len, 0))
           new == Pages(previous.off, previous.len + len + next.len)
<1>1. \/ previous \in heap.free /\ previous.off + previous.len = off
      \/ previous = Pages(off, 0) /\ Ending(off) = {}
  BY DEF OnlyOr, Ending
<1>2. \/ next \in heap.free /\ next.off = off + len
      \/ next = Pages(off + len, 0) /\ Starting(off + len) = {}
  BY DEF OnlyOr, Starting
<1>3. /\ heap'.free = (heap.free \ {previous, next}) \cup {new}
      /\ heap'.allocations = heap.allocations \ {old}
  BY DEF HeapRelease
<1>4. /\ old.off = off /\ old.len = len /\ old \in heap.allocations
      /\ new.off = previous.off /\ new.len = previous.len + len + next.len
      /\ Pages(off, 0).off = off /\ Pages(off, 0).len = 0
      /\ Pages(off + len, 0).off = off + len /\ Pages(off + len, 0).len = 0
  BY DEF Pages
<1>5. /\ previous.off \in Nat /\ previous.len \in Nat
      /\ next.off \in Nat /\ next.len \in Nat
      /\ previous.off + previous.len = off /\ next.off = off + len
  BY <1>1, <1>2, <1>4 DEF HeapTypeOK
<1>6. HeapTypeOK'
  BY <1>3, <1>5 DEF HeapTypeOK, Pages
<1>7. /\ \A q \in heap.free : q = previous \/ q.off + q.len # off
      /\ \A q \in heap.free : q = next \/ q.off # off + len
  <2>1. \A q \in heap.free : q.off + q.len = off => q = previous
    BY <1>1, <1>4 DEF HeapIsPartition, HeapTypeOK, Disjoint, Ending
  <2>2. \A q \in heap.free : q.off = off + len => q = next
    BY <1>2, <1>4 DEF HeapIsPartition, HeapTypeOK, Disjoint, Starting
  <2> QED  BY <2>1, <2>2
<1>8. \A q \in heap.free \cup heap.allocations : q.off \in Nat /\ q.len \in Nat \ {0}
  BY DEF HeapTypeOK
<1> HIDE DEF old, previous, next, new
<1>9. \A q \in heap.free : q \notin {previous, next} => Disjoint(q, new)
  <2> SUFFICES ASSUME NEW q \in heap.free, q # previous, q # next
               PROVE  q.off + q.len <= new.off \/ new.off + new.len <= q.off
    BY DEF Disjoint
  <2>1. Disjoint(q, old) /\ (previous \in heap.free => Disjoint(q, previous))
          /\ (next \in heap.free => Disjoint(q, next))
    BY <1>4 DEF HeapIsPartition
  <2>2. \/ q.off + q.len <= off /\ (previous \in heap.free => q.off + q.len <= previous.off)
        \/ off + len <= q.off /\ (next \in heap.free => next.off + next.len <= q.off)
    BY <2>1, <1>4, <1>5, <1>8 DEF Disjoint
  <2> QED  BY <2>2, <1>1, <1>2, <1>4, <1>5, <1>8
<1>10. \A q \in heap.allocations : q = old \/ Disjoint(new, q)
  <2> SUFFICES ASSUME NEW q \in heap.allocations, q # old
               PROVE  q.off + q.len <= new.off \/ new.off + new.len <= q.off
    BY DEF Disjoint
  <2>1. Disjoint(q, old) /\ (previous \in heap.free => Disjoint(previous, q))
          /\ (next \in heap.free => Disjoint(next, q))
    BY <1>4 DEF HeapIsPartition
  <2> QED  BY <2>1, <1>1, <1>2, <1>4, <1>5, <1>8 DEF Disjoint
<1>11. /\ \A p, q \in heap'.free : p = q \/ Disjoint(p, q)
       /\ \A p, q \in heap'.allocations : p = q \/ Disjoint(p, q)
       /\ \A p \in heap'.free, q \in heap'.allocations : Disjoint(p, q)
  BY <1>3, <1>9, <1>10, <1>8, <1>4, <1>5 DEF HeapIsPartition, Disjoint
<1>12. ASSUME NEW page \in 0 .. HeapPages - 1
       PROVE  \E q \in heap'.free \cup heap'.allocations : Contains(q, page)
  <2>1. PICK q \in heap.free \cup heap.allocations : Contains(q, page)
    BY DEF HeapIsPartition
  <2>2. CASE q \in {previous, next, old}
    <3>1. Contains(new, page)
      BY <2>1, <2>2, <1>4, <1>5 DEF Contains
    <3> QED  BY <3>1, <1>3
  <2>3. CASE q \notin {previous, next, old}
    BY <2>1, <2>3, <1>3
  <2> QED  BY <2>2, <2>3
<1>13. \A q \in heap'.free \cup heap'.allocations : q.off + q.len <= HeapPages
  <2>1. next.off + next.len <= HeapPages
    BY <1>2, <1>4, <1>5 DEF HeapIsPartition
  <2> QED  BY <2>1, <1>3, <1>4, <1>5 DEF HeapIsPartition
<1>14. \A p, q \in heap'.free : p.off + p.len # q.off
  <2>1. \A q \in heap.free \ {previous, next} : q.off # new.off + new.len /\ q.off + q.len # new.off
    <3> SUFFICES ASSUME NEW q \in heap.free, q # previous, q # next
                 PROVE  q.off # new.off + new.len /\ q.off + q.len # new.off
      OBVIOUS
    <3>1. /\ next \in heap.free => q.off # next.off + next.len
          /\ previous \in heap.free => q.off + q.len # previous.off
      BY DEF HeapIsPartition
    <3> QED  BY <3>1, <1>1, <1>2, <1>4, <1>5, <1>7, <1>8
  <2>2. new.off + new.len # new.off
    <3>1. new.off \in Nat /\ new.len \in Nat \ {0}
      BY <1>4, <1>5
    <3> QED  BY <3>1
  <2> QED  BY <2>1, <2>2, <1>3 DEF HeapIsPartition
<1> QED  BY <1>3, <1>6, <1>11, <1>12, <1>13, <1>14 DEF HeapIsPartition, old

-----------------------------------------------------------------------------
(* The protocol *)

AnyState ==
  [owner : Owner, limit : Limits, reserved : Int, enabled : BOOLEAN, epoch : Nat,
   handles : Int, locked : BOOLEAN]

AnyCode == [at : Phase, state : Nat, off : Nat, len : Nat, epoch : Nat, pins : Int]

(* The shape of the allocators and of the allocations. *)
Shape ==
  /\ allocator \in Seq(AnyState)
  /\ code \in [Code -> AnyCode]
  /\ \A s \in DOMAIN allocator : (allocator[s].enabled => allocator[s].epoch = 0)
  /\ \A c \in Code :
       /\ code[c].at = "none" => code[c] = NoCode
       /\ code[c].at # "none" => code[c].state \in DOMAIN allocator /\ code[c].len # 0
       /\ (code[c].pins > 0) = (code[c].at = "executable")

(* No step takes an allocator state away or changes whose it is. *)
StatesAreKept ==
  /\ allocator' \in Seq(AnyState)
  /\ Len(allocator) <= Len(allocator')
  /\ \A s \in DOMAIN allocator :
       allocator'[s].owner = allocator[s].owner /\ allocator'[s].limit = allocator[s].limit

(* How a step may change one allocator state. *)
LEMMA OneStateChanges ==
  ASSUME Shape, NEW s \in DOMAIN allocator, NEW v \in AnyState,
         v.owner = allocator[s].owner, v.limit = allocator[s].limit,
         v.enabled => v.epoch = 0,
         allocator' = [allocator EXCEPT ![s] = v]
  PROVE  /\ StatesAreKept
         /\ DOMAIN allocator' = DOMAIN allocator
         /\ \A t \in DOMAIN allocator' : (allocator'[t].enabled => allocator'[t].epoch = 0)
BY DEF Shape, StatesAreKept

(* A step that leaves the allocators alone. *)
LEMMA NoStateChanges ==
  ASSUME Shape, allocator' = allocator
  PROVE  /\ StatesAreKept
         /\ DOMAIN allocator' = DOMAIN allocator
         /\ \A t \in DOMAIN allocator' : (allocator'[t].enabled => allocator'[t].epoch = 0)
BY DEF Shape, StatesAreKept

(* A new allocator state. *)
LEMMA StateIsAdded ==
  ASSUME Shape, NEW o \in Owner, NEW limit \in Limits,
         allocator' = Append(allocator, NewState(o, limit))
  PROVE  /\ StatesAreKept
         /\ DOMAIN allocator \subseteq DOMAIN allocator'
         /\ \A t \in DOMAIN allocator' : (allocator'[t].enabled => allocator'[t].epoch = 0)
<1>1. NewState(o, limit) \in AnyState /\ NewState(o, limit).enabled /\ NewState(o, limit).epoch = 0
  BY DEF NewState, AnyState
<1> HIDE DEF NewState
<1> QED  BY <1>1 DEF Shape, StatesAreKept

(* What the steps on an allocator state make of it. *)
LEMMA AllocatorSteps ==
  ASSUME Shape, MemoryAssumption, MemoryNext
  PROVE  /\ StatesAreKept
         /\ DOMAIN allocator \subseteq DOMAIN allocator'
         /\ \A t \in DOMAIN allocator' : (allocator'[t].enabled => allocator'[t].epoch = 0)
<1> DEFINE Kept ==
             /\ StatesAreKept
             /\ DOMAIN allocator \subseteq DOMAIN allocator'
             /\ \A t \in DOMAIN allocator' : (allocator'[t].enabled => allocator'[t].epoch = 0)
<1>1. ASSUME NEW s \in DOMAIN allocator, NEW v \in AnyState,
             v.owner = allocator[s].owner, v.limit = allocator[s].limit,
             v.enabled => v.epoch = 0,
             allocator' = [allocator EXCEPT ![s] = v]
      PROVE  Kept
  BY <1>1, OneStateChanges
<1>2. ASSUME allocator' = allocator PROVE Kept
  BY <1>2, NoStateChanges
<1>3. \A s \in DOMAIN allocator : allocator[s] \in AnyState
                                  /\ (allocator[s].enabled => allocator[s].epoch = 0)
  BY DEF Shape
<1>4. \A c \in Code : code[c].at # "none" =>
                       code[c].state \in DOMAIN allocator /\ code[c].len \in Nat
  BY DEF Shape, AnyCode
<1>5. ASSUME NEW o \in Owner, NEW limit \in Limits, NewRegistered(o, limit) PROVE Kept
  <2>1. ASSUME NEW s \in LiveOf(o), allocator' = [allocator EXCEPT ![s].handles = @ + 1]
        PROVE  Kept
    <3>1. s \in DOMAIN allocator
      BY DEF LiveOf
    <3>2. [allocator[s] EXCEPT !.handles = @ + 1] \in AnyState
      BY <3>1, <1>3 DEF AnyState
    <3> QED  BY <2>1, <3>1, <3>2, <1>1, <1>3 DEF AnyState
  <2>2. ASSUME allocator' = Append(allocator, NewState(o, limit)) PROVE Kept
    BY <2>2, StateIsAdded
  <2> QED  BY <1>5, <2>1, <2>2 DEF NewRegistered
<1>6. ASSUME NEW s \in 1 .. States, DropAllocator(s) PROVE Kept
  <2>1. [allocator[s] EXCEPT !.handles = @ - 1] \in AnyState
    BY <1>6, <1>3 DEF AnyState, DropAllocator
  <2> QED  BY <1>6, <2>1, <1>1, <1>3 DEF AnyState, DropAllocator
<1>7. ASSUME NEW s \in DOMAIN allocator, allocator' = [allocator EXCEPT ![s] = Disabled(@)] PROVE Kept
  <2> DEFINE v == [allocator[s] EXCEPT !.enabled = FALSE, !.epoch = @ + 1]
  <2>0. allocator[s].epoch + 1 \in Nat
    BY <1>3 DEF AnyState
  <2>1. v \in AnyState /\ v.owner = allocator[s].owner /\ v.limit = allocator[s].limit /\ ~v.enabled
    BY <2>0, <1>3, Zenon DEF AnyState
  <2>2. allocator' = [allocator EXCEPT ![s] = v]
    BY <1>7, Zenon DEF Disabled
  <2> QED  BY <2>1, <2>2, <1>1
<1>8. ASSUME NEW s \in 1 .. States, PageSizeFails(s) PROVE Kept
  BY <1>8, <1>7 DEF PageSizeFails, EntersAllocate
<1>9. ASSUME NEW s \in 1 .. States, NEW c \in Code, NEW len \in Lens, Reserve(c, s, len) PROVE Kept
  <2> DEFINE v == [allocator[s] EXCEPT !.reserved = @ + len, !.locked = TRUE]
  <2>1. s \in DOMAIN allocator /\ allocator[s].reserved + len \in Int
    BY <1>9, <1>3, MemoryAssumption DEF Reserve, EntersAllocate, MemoryAssumption, AnyState
  <2>2. v \in AnyState /\ v.owner = allocator[s].owner /\ v.limit = allocator[s].limit
          /\ v.enabled = allocator[s].enabled /\ v.epoch = allocator[s].epoch
    BY <2>1, <1>3, Zenon DEF AnyState
  <2>3. allocator' = [allocator EXCEPT ![s] = v]
    BY <1>9, Zenon DEF Reserve
  <2> QED  BY <2>1, <2>2, <2>3, <1>1, <1>3
<1>10. ASSUME NEW c \in Code, Map(c) PROVE Kept
  <2> DEFINE s == code[c].state
             v == [allocator[s] EXCEPT !.locked = FALSE]
  <2>1. s \in DOMAIN allocator
    BY <1>10, <1>4 DEF Map
  <2>2. v \in AnyState /\ v.owner = allocator[s].owner /\ v.limit = allocator[s].limit
          /\ v.enabled = allocator[s].enabled /\ v.epoch = allocator[s].epoch
    BY <2>1, <1>3 DEF AnyState
  <2>3. allocator' = [allocator EXCEPT ![s] = v]
    BY <1>10, <2>1 DEF Map
  <2> QED  BY <2>1, <2>2, <2>3, <1>1, <1>3
<1>11. ASSUME NEW c \in Code, MapFails(c) PROVE Kept
  <2> DEFINE s == code[c].state
             d == Disabled(allocator[s])
             v == [d EXCEPT !.locked = FALSE, !.reserved = allocator[s].reserved - code[c].len]
  <2>1. s \in DOMAIN allocator /\ allocator[s].reserved - code[c].len \in Int
          /\ allocator[s].epoch + 1 \in Nat
    BY <1>11, <1>3, <1>4 DEF MapFails, AnyState
  <2>2. d \in AnyState /\ d.owner = allocator[s].owner /\ d.limit = allocator[s].limit /\ ~d.enabled
          /\ d.reserved = allocator[s].reserved
    BY <2>1, <1>3, Zenon DEF AnyState, Disabled
  <2>3. allocator' = [allocator EXCEPT ![s] = v]
    BY <1>11, Zenon DEF MapFails
  <2> HIDE DEF d
  <2>4. v \in AnyState /\ v.owner = d.owner /\ v.limit = d.limit /\ v.enabled = d.enabled
    BY <2>1, <2>2, Zenon DEF AnyState
  <2> QED  BY <2>1, <2>2, <2>3, <2>4, <1>1
<1>12. ASSUME NEW c \in Code, PublishFails(c) PROVE Kept
  BY <1>12, <1>7, <1>4 DEF PublishFails
<1>13. ASSUME NEW c \in Code, DropReservation(c) PROVE Kept
  <2> DEFINE s == code[c].state
             v == [allocator[s] EXCEPT !.reserved = @ - code[c].len]
  <2>1. s \in DOMAIN allocator /\ code[c].len \in Nat
    BY <1>13, <1>4 DEF DropReservation
  <2>2. v \in AnyState /\ v.owner = allocator[s].owner /\ v.limit = allocator[s].limit
          /\ v.enabled = allocator[s].enabled /\ v.epoch = allocator[s].epoch
    BY <2>1, <1>3 DEF AnyState
  <2>3. allocator' = [allocator EXCEPT ![s] = v]
    BY <1>13, <2>1 DEF DropReservation, Unreserved
  <2> QED  BY <2>1, <2>2, <2>3, <1>1, <1>3
<1>14. ASSUME NEW c \in Code,
              \/ Publish(c) \/ PublishRefused(c) \/ DropWritable(c) \/ PinCode(c)
              \/ UnpinCode(c) \/ DropMapping(c)
       PROVE  Kept
  BY <1>14, <1>2 DEF Publish, PublishRefused, DropWritable, PinCode, UnpinCode, DropMapping
<1> QED  BY <1>5, <1>6, <1>8, <1>9, <1>10, <1>11, <1>12, <1>13, <1>14 DEF MemoryNext

(* A value an allocation may take in a step. *)
Fits(v) ==
  /\ v \in AnyCode
  /\ v.at = "none" => v = NoCode
  /\ v.at # "none" => v.state \in DOMAIN allocator /\ v.len # 0
  /\ (v.pins > 0) = (v.at = "executable")

HasPages(v) == v.at \in {"writable", "executable", "dropped"}

(* v has the pages of u, if u has any, and no others. *)
SamePages(u, v) ==
  /\ HasPages(v) <=> HasPages(u)
  /\ HasPages(u) => v.off = u.off /\ v.len = u.len /\ v.state = u.state

(* Every step but the ones that map and unmap leaves the pages of the one
   allocation it changes alone. *)
QuietStep ==
  /\ heap' = heap
  /\ \/ code' = code
     \/ \E c \in Code : \E v \in AnyCode :
          /\ code' = [code EXCEPT ![c] = v]
          /\ Fits(v)
          /\ SamePages(code[c], v)

MapStep ==
  \E c \in Code : \E v \in AnyCode :
    /\ code[c].at = "reserved"
    /\ Candidates(code[c].len) # {}
    /\ heap' = HeapAllocate(code[c].len, allocator[code[c].state].owner)
    /\ code' = [code EXCEPT ![c] = v]
    /\ Fits(v)
    /\ v.at = "writable" /\ v.off = FirstFit(code[c].len).off
    /\ v.len = code[c].len /\ v.state = code[c].state

UnmapStep ==
  \E c \in Code : \E v \in AnyCode :
    /\ code[c].at = "dropped"
    /\ heap' = HeapRelease(code[c].off, code[c].len, allocator[code[c].state].owner)
    /\ code' = [code EXCEPT ![c] = v]
    /\ Fits(v)
    /\ v.at = "unmapped"

(* Every step is one of the three. *)
LEMMA CodeSteps ==
  ASSUME Shape, HeapTypeOK, MemoryAssumption, MemoryNext
  PROVE  QuietStep \/ MapStep \/ UnmapStep
<1>1. \A c \in Code : code[c] \in AnyCode /\ Fits(code[c])
  BY DEF Shape, Fits
<1>2. NoCode \in AnyCode /\ Fits(NoCode) /\ ~HasPages(NoCode)
  BY DEF NoCode, AnyCode, Fits, Phase, HasPages
<1>3. ASSUME NEW c \in Code, code' = [code EXCEPT ![c] = NoCode], heap' = heap,
             ~HasPages(code[c])
      PROVE  QuietStep
  <2>1. SamePages(code[c], NoCode)
    BY <1>2, <1>3 DEF SamePages
  <2> QED  BY <2>1, <1>2, <1>3 DEF QuietStep
<1>4. ASSUME NEW c \in Code, code' = [code EXCEPT ![c].at = "dropped"], heap' = heap,
             code[c].at = "writable"
      PROVE  QuietStep
  <2> DEFINE v == [code[c] EXCEPT !.at = "dropped"]
  <2>1. v \in AnyCode /\ v.at = "dropped" /\ v.off = code[c].off /\ v.len = code[c].len
          /\ v.state = code[c].state /\ v.pins = code[c].pins
    BY <1>1 DEF AnyCode, Phase
  <2>2. code' = [code EXCEPT ![c] = v]
    BY <1>4
  <2> HIDE DEF v
  <2>3. Fits(v) /\ SamePages(code[c], v)
    BY <2>1, <1>1, <1>4 DEF Fits, SamePages, HasPages
  <2> QED  BY <2>1, <2>2, <2>3, <1>4 DEF QuietStep
<1>5. ASSUME NEW o \in Owner, NEW limit \in Limits, NewRegistered(o, limit) PROVE QuietStep
  BY <1>5 DEF NewRegistered, QuietStep
<1>6. ASSUME NEW s \in 1 .. States, DropAllocator(s) \/ PageSizeFails(s) PROVE QuietStep
  BY <1>6 DEF DropAllocator, PageSizeFails, QuietStep
<1>7. ASSUME NEW s \in 1 .. States, NEW c \in Code, NEW len \in Lens, Reserve(c, s, len)
      PROVE  QuietStep
  <2> DEFINE v == [NoCode EXCEPT !.at = "reserved", !.state = s, !.len = len]
  <2>1. s \in Nat /\ len \in Nat /\ "reserved" \in Phase
    BY MemoryAssumption DEF MemoryAssumption, Phase
  <2>2. v \in AnyCode /\ v.at = "reserved" /\ v.len = len /\ v.state = s /\ v.pins = NoCode.pins
    BY <2>1, <1>2, Zenon DEF AnyCode
  <2>3. code' = [code EXCEPT ![c] = v] /\ heap' = heap
    BY <1>7, Zenon DEF Reserve
  <2> HIDE DEF v
  <2>4. Fits(v) /\ SamePages(code[c], v)
    BY <2>2, <1>2, <1>7 DEF Fits, SamePages, HasPages, Reserve, EntersAllocate, NoCode
  <2> QED  BY <2>2, <2>3, <2>4 DEF QuietStep
<1>8. ASSUME NEW c \in Code, Map(c) PROVE MapStep
  <2> DEFINE s == code[c].state
             off == FirstFit(code[c].len).off
             v == [code[c] EXCEPT !.at = "writable", !.off = off, !.epoch = allocator[s].epoch]
  <2>1. s \in DOMAIN allocator /\ code[c].len \in Nat
    BY <1>1, <1>8 DEF Map, Fits, AnyCode
  <2>2. allocator[s].epoch \in Nat
    <3>1. allocator[s] \in AnyState
      BY <2>1 DEF Shape
    <3> QED  BY <3>1 DEF AnyState
  <2>3. off \in Nat /\ "writable" \in Phase
    BY <1>8, <2>1, FirstFitIsFree DEF Map, Candidates, HeapTypeOK, Phase
  <2>4. v \in AnyCode /\ v.at = "writable" /\ v.off = off /\ v.len = code[c].len
          /\ v.state = s /\ v.pins = code[c].pins
    BY <2>2, <2>3, <1>1, Zenon DEF AnyCode
  <2>5. code' = [code EXCEPT ![c] = v]
    BY <1>8, Zenon DEF Map
  <2> HIDE DEF v
  <2>6. Fits(v)
    BY <2>4, <1>1, <1>8 DEF Fits, Map
  <2> QED  BY <2>4, <2>5, <2>6, <1>8 DEF MapStep, Map
<1>9. ASSUME NEW c \in Code, MapFails(c) PROVE QuietStep
  BY <1>9, <1>3 DEF MapFails, HasPages
<1>10. ASSUME NEW c \in Code, Publish(c) PROVE QuietStep
  <2> DEFINE v == [code[c] EXCEPT !.at = "executable", !.pins = 1]
  <2>1. "executable" \in Phase /\ 1 \in Int
    BY DEF Phase
  <2>2. v \in AnyCode /\ v.at = "executable" /\ v.off = code[c].off /\ v.len = code[c].len
          /\ v.state = code[c].state /\ v.pins = 1
    BY <2>1, <1>1, Zenon DEF AnyCode
  <2>3. code' = [code EXCEPT ![c] = v] /\ heap' = heap
    BY <1>10, Zenon DEF Publish
  <2> HIDE DEF v
  <2>4. Fits(v) /\ SamePages(code[c], v)
    BY <2>2, <1>1, <1>10 DEF Fits, SamePages, HasPages, Publish
  <2> QED  BY <2>2, <2>3, <2>4 DEF QuietStep
<1>11. ASSUME NEW c \in Code, PublishRefused(c) \/ PublishFails(c) \/ DropWritable(c)
       PROVE  QuietStep
  BY <1>11, <1>4 DEF PublishRefused, PublishFails, DropWritable
<1>12. ASSUME NEW c \in Code, PinCode(c) \/ UnpinCode(c) PROVE QuietStep
  <2>1. code[c].at = "executable" /\ heap' = heap
    BY <1>12 DEF PinCode, UnpinCode
  <2>2. ASSUME NEW v \in AnyCode, code' = [code EXCEPT ![c] = v],
               v.at \in {"executable", "dropped"}, (v.pins > 0) = (v.at = "executable"),
               v.off = code[c].off, v.len = code[c].len, v.state = code[c].state
        PROVE  QuietStep
    <3>1. Fits(v) /\ SamePages(code[c], v)
      BY <1>1, <2>1, <2>2 DEF Fits, SamePages, HasPages
    <3> QED  BY <3>1, <2>1, <2>2 DEF QuietStep
  <2>3. code[c].pins \in Int /\ code[c].pins > 0
    BY <1>1, <2>1 DEF Fits, AnyCode
  <2>4. CASE PinCode(c)
    <3> DEFINE v == [code[c] EXCEPT !.pins = @ + 1]
    <3>1. v \in AnyCode /\ v.at = code[c].at /\ v.off = code[c].off /\ v.len = code[c].len
            /\ v.state = code[c].state /\ v.pins = code[c].pins + 1
      BY <1>1 DEF AnyCode
    <3>2. code' = [code EXCEPT ![c] = v]
      BY <2>4 DEF PinCode
    <3> HIDE DEF v
    <3>3. (v.pins > 0) = (v.at = "executable")
      BY <3>1, <2>1, <2>3
    <3> QED  BY <3>1, <3>2, <3>3, <2>1, <2>2
  <2>5. CASE UnpinCode(c)
    <3> DEFINE at == IF code[c].pins = 1 THEN "dropped" ELSE code[c].at
               v == [code[c] EXCEPT !.pins = @ - 1, !.at = at]
    <3>1. at \in Phase /\ at \in {"dropped", "executable"} /\ code[c].pins - 1 \in Int
            /\ (code[c].pins - 1 > 0) = (at = "executable")
      BY <2>1, <2>3 DEF Phase
    <3>2. code' = [code EXCEPT ![c] = v]
      BY <2>5, Zenon DEF UnpinCode
    <3> HIDE DEF at
    <3>3. v \in AnyCode /\ v.at = at /\ v.off = code[c].off /\ v.len = code[c].len
            /\ v.state = code[c].state /\ v.pins = code[c].pins - 1
      BY <3>1, <1>1, Zenon DEF AnyCode
    <3> HIDE DEF v
    <3> QED  BY <3>1, <3>2, <3>3, <2>2
  <2> QED  BY <1>12, <2>4, <2>5
<1>13. ASSUME NEW c \in Code, DropMapping(c) PROVE UnmapStep
  <2> DEFINE v == [code[c] EXCEPT !.at = "unmapped"]
  <2>1. v \in AnyCode /\ v.at = "unmapped" /\ v.len = code[c].len
          /\ v.state = code[c].state /\ v.pins = code[c].pins
    BY <1>1 DEF AnyCode, Phase
  <2>2. code' = [code EXCEPT ![c] = v]
    BY <1>13 DEF DropMapping
  <2> HIDE DEF v
  <2>3. Fits(v)
    BY <2>1, <1>1, <1>13 DEF Fits, DropMapping
  <2> QED  BY <2>1, <2>2, <2>3, <1>13 DEF UnmapStep, DropMapping, Unmapped
<1>14. ASSUME NEW c \in Code, DropReservation(c) PROVE QuietStep
  BY <1>14, <1>3 DEF DropReservation, HasPages
<1> QED  BY <1>5, <1>6, <1>7, <1>8, <1>9, <1>10, <1>11, <1>12, <1>13, <1>14 DEF MemoryNext

MemoryInv == Shape /\ HeapTypeOK /\ HeapIsPartition /\ CodeOwnsItsPages

(* The shape is inductive by itself. *)
LEMMA ShapeIsKept ==
  ASSUME Shape, HeapTypeOK, MemoryAssumption, MemoryNext
  PROVE  Shape'
<1>1. /\ StatesAreKept
      /\ DOMAIN allocator \subseteq DOMAIN allocator'
      /\ \A t \in DOMAIN allocator' : (allocator'[t].enabled => allocator'[t].epoch = 0)
  BY AllocatorSteps
<1>2. code' = code \/ \E c \in Code : \E v \in AnyCode : code' = [code EXCEPT ![c] = v] /\ Fits(v)
  BY CodeSteps DEF QuietStep, MapStep, UnmapStep
<1>3. code' \in [Code -> AnyCode]
  BY <1>2 DEF Shape
<1>4. \A c \in Code : Fits(code'[c])
  BY <1>2 DEF Shape, Fits
<1> QED  BY <1>1, <1>3, <1>4 DEF Shape, Fits, StatesAreKept

(* The mapped allocations, and the ranges of the heap that are theirs. *)
LEMMA OwnershipIsKept ==
  ASSUME MemoryInv, MemoryAssumption, MemoryNext
  PROVE  HeapTypeOK' /\ HeapIsPartition' /\ CodeOwnsItsPages'
<1> DEFINE Record(c) == [off |-> code[c].off, len |-> code[c].len,
                         owner |-> allocator[code[c].state].owner]
<1>1. HeapPages \in Nat
  BY MemoryAssumption DEF MemoryAssumption
<1>2. Shape' /\ StatesAreKept
  BY ShapeIsKept, AllocatorSteps DEF MemoryInv
<1>3. \A c \in Code : (code'[c].pins > 0) = (code'[c].at = "executable")
  BY <1>2 DEF Shape
<1>4. \A c \in Code : IsMapped(c) => code[c].off \in Nat /\ code[c].len \in Nat \ {0}
                                    /\ code[c].state \in DOMAIN allocator
  BY DEF MemoryInv, Shape, AnyCode, IsMapped
<1>5. \A s \in DOMAIN allocator : allocator[s].owner \in Owner
                                  /\ allocator'[s].owner = allocator[s].owner
  <2>1. \A s \in DOMAIN allocator : allocator[s] \in AnyState
    BY DEF MemoryInv, Shape
  <2> QED  BY <2>1, <1>2 DEF AnyState, StatesAreKept
<1>6. /\ \A c \in Code : IsMapped(c) => Record(c) \in heap.allocations
      /\ \A c, d \in Code : c # d /\ IsMapped(c) /\ IsMapped(d) => code[c].off # code[d].off
      /\ \A r \in heap.allocations : \E c \in Code : IsMapped(c) /\ code[c].off = r.off
  BY DEF MemoryInv, CodeOwnsItsPages
<1>7. CASE QuietStep
  <2>1. HeapTypeOK' /\ HeapIsPartition'
    BY <1>7 DEF QuietStep, MemoryInv, HeapTypeOK, HeapIsPartition
  <2>2. \A c \in Code :
          /\ IsMapped(c)' <=> IsMapped(c)
          /\ IsMapped(c) => code'[c].off = code[c].off /\ code'[c].len = code[c].len
                            /\ code'[c].state = code[c].state
    BY <1>7 DEF QuietStep, SamePages, HasPages, IsMapped, MemoryInv, Shape
  <2>3. \A c \in Code : IsMapped(c)' => Record(c)' = Record(c)
    BY <2>2, <1>4, <1>5
  <2> HIDE DEF Record
  <2>4. /\ \A c \in Code : IsMapped(c)' => Record(c)' \in heap'.allocations
        /\ \A c, d \in Code : c # d /\ IsMapped(c)' /\ IsMapped(d)' => code'[c].off # code'[d].off
        /\ \A r \in heap'.allocations : \E c \in Code : IsMapped(c)' /\ code'[c].off = r.off
    BY <2>2, <2>3, <1>6, <1>7 DEF QuietStep
  <2> QED  BY <2>1, <2>4, <1>3 DEF CodeOwnsItsPages, Record
<1>8. CASE MapStep
  <2>1. PICK c \in Code, v \in AnyCode :
          /\ code[c].at = "reserved"
          /\ Candidates(code[c].len) # {}
          /\ heap' = HeapAllocate(code[c].len, allocator[code[c].state].owner)
          /\ code' = [code EXCEPT ![c] = v]
          /\ v.at = "writable" /\ v.off = FirstFit(code[c].len).off
          /\ v.len = code[c].len /\ v.state = code[c].state
    BY <1>8 DEF MapStep
  <2> DEFINE len == code[c].len
             o == allocator[code[c].state].owner
             r == FirstFit(len)
             new == [off |-> r.off, len |-> len, owner |-> o]
  <2>2. len \in Nat \ {0} /\ code[c].state \in DOMAIN allocator /\ o \in Owner
    BY <2>1, <1>5 DEF MemoryInv, Shape, AnyCode
  <2>3. HeapTypeOK' /\ HeapIsPartition'
    BY <2>1, <2>2, <1>1, AllocateKeepsPartition DEF MemoryInv
  <2>4. r \in heap.free
    BY <2>1, <2>2, FirstFitIsFree DEF Candidates, MemoryInv
  <2>5. \A q \in heap.allocations : q.off # r.off
    BY <2>4 DEF MemoryInv, HeapIsPartition, HeapTypeOK, Disjoint
  <2>6. heap'.allocations = heap.allocations \cup {new}
    BY <2>1 DEF HeapAllocate
  <2>7. \A d \in Code : d # c => code'[d] = code[d] /\ (IsMapped(d)' <=> IsMapped(d))
    BY <2>1 DEF MemoryInv, Shape, IsMapped
  <2>8. code'[c] = v /\ ~IsMapped(c)
    BY <2>1 DEF MemoryInv, Shape, IsMapped
  <2>9. \A d \in Code : IsMapped(d)' => Record(d)' \in heap'.allocations
    BY <2>1, <2>2, <2>6, <2>7, <2>8, <1>4, <1>5, <1>6, SMTT(30)
  <2>10. \A d \in Code : d # c /\ IsMapped(d) => code[d].off # r.off
    BY <2>5, <1>6
  <2>11. \A d, e \in Code : d # e /\ IsMapped(d)' /\ IsMapped(e)' => code'[d].off # code'[e].off
    BY <2>1, <2>7, <2>8, <2>10, <1>6, SMTT(30)
  <2>12. \A q \in heap'.allocations : \E d \in Code : IsMapped(d)' /\ code'[d].off = q.off
    <3>1. IsMapped(c)' /\ code'[c].off = new.off
      BY <2>1, <2>8 DEF IsMapped
    <3> QED  BY <3>1, <2>6, <2>7, <2>8, <1>6
  <2> QED  BY <2>3, <2>9, <2>11, <2>12, <1>3 DEF CodeOwnsItsPages
<1>9. CASE UnmapStep
  <2>1. PICK c \in Code, v \in AnyCode :
          /\ code[c].at = "dropped"
          /\ heap' = HeapRelease(code[c].off, code[c].len, allocator[code[c].state].owner)
          /\ code' = [code EXCEPT ![c] = v]
          /\ v.at = "unmapped"
    BY <1>9 DEF UnmapStep
  <2>2. IsMapped(c) /\ Record(c) \in heap.allocations
    BY <2>1, <1>6 DEF IsMapped
  <2>3. HeapTypeOK' /\ HeapIsPartition' /\ heap'.allocations = heap.allocations \ {Record(c)}
    BY <2>1, <2>2, <1>1, <1>4, <1>5, ReleaseKeepsPartition DEF MemoryInv
  <2>4. \A d \in Code : d # c => code'[d] = code[d] /\ (IsMapped(d)' <=> IsMapped(d))
    BY <2>1 DEF MemoryInv, Shape, IsMapped
  <2>5. ~IsMapped(c)'
    BY <2>1 DEF MemoryInv, Shape, IsMapped
  <2>6. \A d \in Code : IsMapped(d)' => d # c /\ IsMapped(d) /\ Record(d)' = Record(d)
                                        /\ code'[d].off = code[d].off
    BY <2>4, <2>5, <1>4, <1>5
  <2>7. \A d \in Code : d # c /\ IsMapped(d) => Record(d) # Record(c)
    BY <2>2, <1>6
  <2>8. \A q \in heap.allocations : q.off = code[c].off => q = Record(c)
    BY <2>2, <1>4, SMTT(30) DEF MemoryInv, HeapIsPartition, HeapTypeOK, Disjoint
  <2> HIDE DEF Record
  <2>9. \A d \in Code : IsMapped(d)' => Record(d)' \in heap'.allocations
    BY <2>3, <2>6, <2>7, <1>6
  <2>10. \A d, e \in Code : d # e /\ IsMapped(d)' /\ IsMapped(e)' => code'[d].off # code'[e].off
    BY <2>6, <1>6
  <2>11. \A q \in heap'.allocations : \E d \in Code : IsMapped(d)' /\ code'[d].off = q.off
    BY <2>3, <2>4, <2>8, <1>6
  <2> QED  BY <2>3, <2>9, <2>10, <2>11, <1>3 DEF CodeOwnsItsPages, Record
<1> QED  BY <1>7, <1>8, <1>9, CodeSteps DEF MemoryInv

(* The heap is empty to begin with. *)
LEMMA MemoryStarts ==
  ASSUME MemoryInit, MemoryAssumption
  PROVE  MemoryInv
<1>1. /\ heap.free = {Pages(0, HeapPages)} /\ heap.allocations = {}
      /\ HeapPages \in Nat \ {0}
      /\ Pages(0, HeapPages).off = 0 /\ Pages(0, HeapPages).len = HeapPages
      /\ Pages(0, HeapPages) \in [off : Nat, len : Nat \ {0}]
  BY MemoryAssumption DEF MemoryInit, MemoryAssumption, Pages
<1>2. HeapTypeOK
  BY <1>1 DEF HeapTypeOK
<1>3. HeapIsPartition
  BY <1>1 DEF HeapIsPartition, Disjoint, Contains
<1>4. NoCode \in AnyCode /\ NoCode.at = "none" /\ NoCode.pins = 0
  BY DEF NoCode, AnyCode, Phase
<1>5. Shape
  BY <1>4 DEF MemoryInit, Shape
<1>6. CodeOwnsItsPages
  BY <1>1, <1>4 DEF MemoryInit, CodeOwnsItsPages, IsMapped
<1> QED  BY <1>2, <1>3, <1>5, <1>6 DEF MemoryInv

(* MemoryInv is an invariant: what the allocators and the heap agree on. *)
THEOREM MemoryInvariant == MemorySpec => []MemoryInv
<1>1. MemoryInit => MemoryInv
  BY MemoryStarts, MemoryAssumption
<1>2. MemoryInv /\ [MemoryNext]_memoryVars => MemoryInv'
  <2> SUFFICES ASSUME MemoryInv, [MemoryNext]_memoryVars PROVE MemoryInv'
    OBVIOUS
  <2>1. CASE MemoryNext
    BY <2>1, ShapeIsKept, OwnershipIsKept, MemoryAssumption DEF MemoryInv
  <2>2. CASE UNCHANGED memoryVars
    BY <2>2 DEF memoryVars, MemoryInv, Shape, Fits, HeapTypeOK, HeapIsPartition,
                CodeOwnsItsPages, IsMapped
  <2> QED  BY <2>1, <2>2
<1> QED  BY <1>1, <1>2, PTL DEF MemorySpec

(* The shared heap is tiled by its free and its allocated ranges, and its free
   ranges are joined, after any sequence of allocations and releases. *)
THEOREM HeapStaysPartitioned == MemorySpec => []HeapIsPartition
<1>1. MemoryInv => HeapIsPartition
  BY DEF MemoryInv
<1> QED  BY <1>1, MemoryInvariant, PTL

(* Mapped code has its pages to itself, and pinned code is mapped. *)
THEOREM MappedCodeIsSeparate == MemorySpec => []CodeOwnsItsPages
<1>1. MemoryInv => CodeOwnsItsPages
  BY DEF MemoryInv
<1> QED  BY <1>1, MemoryInvariant, PTL

(* The two together: code that can be written or executed shares no page. *)
THEOREM MappedCodeStaysApart == MemorySpec => []MappedCodeIsApart
<1>1. MemoryInv => MappedCodeIsApart
  BY DEF MemoryInv, MappedCodeIsApart
<1> QED  BY <1>1, MemoryInvariant, PTL

-----------------------------------------------------------------------------
(* The quota *)

(* What the quota of a runtime rests on: a state has reserved what its
   allocations ask for, within its limit, and a runtime has one live state. *)
QuotaInv ==
  /\ \A s \in DOMAIN allocator : /\ allocator[s].reserved = PagesOf(code, CodeOf(code, s))
                                 /\ allocator[s].reserved <= allocator[s].limit
  /\ \A s, t \in DOMAIN allocator :
       allocator[s].owner = allocator[t].owner /\ IsLive(s) /\ IsLive(t) => s = t

(* The reservations other than those of s, and the handles, stay as they are. *)
OnlyReservedOf(s) ==
  /\ DOMAIN allocator' = DOMAIN allocator
  /\ \A t \in DOMAIN allocator : /\ allocator'[t].handles = allocator[t].handles
                                 /\ t # s => allocator'[t].reserved = allocator[t].reserved

(* A step that leaves what is reserved alone, and revives no state. *)
KeepsReservations ==
  /\ DOMAIN allocator' = DOMAIN allocator
  /\ \A t \in DOMAIN allocator : /\ allocator'[t].reserved = allocator[t].reserved
                                 /\ allocator'[t].handles > 0 => IsLive(t)
  /\ \A c \in Code : code'[c].state = code[c].state /\ code'[c].len = code[c].len

AddsState ==
  \E o \in Owner, limit \in Limits :
    LiveOf(o) = {} /\ allocator' = Append(allocator, NewState(o, limit)) /\ code' = code

(* Reservation::acquire *)
TakesPages ==
  \E c \in Code, s \in DOMAIN allocator :
    /\ code[c] = NoCode
    /\ allocator[s].handles > 0
    /\ OnlyReservedOf(s)
    /\ code'[c].state = s /\ code'[c].len \in Nat
    /\ allocator'[s].reserved = allocator[s].reserved + code'[c].len
    /\ allocator'[s].reserved <= allocator[s].limit
    /\ \A d \in Code \ {c} : code'[d] = code[d]

(* Drop for Reservation *)
ReturnsPages ==
  \E c \in Code :
    /\ code[c].at # "none"
    /\ OnlyReservedOf(code[c].state)
    /\ allocator'[code[c].state].reserved = allocator[code[c].state].reserved - code[c].len
    /\ code'[c] = NoCode
    /\ \A d \in Code \ {c} : code'[d] = code[d]

(* Every step is one of the four. *)
LEMMA QuotaSteps ==
  ASSUME Shape, MemoryAssumption, MemoryNext
  PROVE  KeepsReservations \/ AddsState \/ TakesPages \/ ReturnsPages
<1>1. \A c \in Code : code[c] \in AnyCode
                      /\ (code[c].at # "none" => code[c].state \in DOMAIN allocator)
  BY DEF Shape
<1>2. \A s \in DOMAIN allocator : allocator[s] \in AnyState
  BY DEF Shape
<1>3. ASSUME NEW s \in DOMAIN allocator, NEW v, allocator' = [allocator EXCEPT ![s] = v],
             v.reserved = allocator[s].reserved, v.handles > 0 => IsLive(s),
             \A c \in Code : code'[c].state = code[c].state /\ code'[c].len = code[c].len
      PROVE  KeepsReservations
  <2>1. /\ DOMAIN allocator' = DOMAIN allocator /\ allocator'[s] = v
        /\ \A t \in DOMAIN allocator : t # s => allocator'[t] = allocator[t]
    BY <1>3 DEF Shape
  <2> QED  BY <1>3, <2>1 DEF KeepsReservations, IsLive
<1>4. ASSUME allocator' = allocator,
             \A c \in Code : code'[c].state = code[c].state /\ code'[c].len = code[c].len
      PROVE  KeepsReservations
  BY <1>4 DEF KeepsReservations, IsLive
<1>5. ASSUME NEW s \in DOMAIN allocator, NEW v, allocator' = [allocator EXCEPT ![s] = v],
             v.handles = allocator[s].handles
      PROVE  OnlyReservedOf(s) /\ allocator'[s] = v
  BY <1>5 DEF OnlyReservedOf, Shape
<1>6. ASSUME NEW o \in Owner, NEW limit \in Limits, NewRegistered(o, limit)
      PROVE  KeepsReservations \/ AddsState
  <2>1. ASSUME NEW s \in LiveOf(o), allocator' = [allocator EXCEPT ![s].handles = @ + 1], code' = code
        PROVE  KeepsReservations
    <3> DEFINE v == [allocator[s] EXCEPT !.handles = @ + 1]
    <3>1. s \in DOMAIN allocator /\ IsLive(s)
      BY DEF LiveOf
    <3>2. v.reserved = allocator[s].reserved
      BY <3>1, <1>2 DEF AnyState
    <3>3. allocator' = [allocator EXCEPT ![s] = v]
      BY <2>1
    <3> HIDE DEF v
    <3> QED  BY <2>1, <3>1, <3>2, <3>3, <1>3
  <2> QED  BY <1>6, <2>1 DEF NewRegistered, AddsState
<1>7. ASSUME NEW s \in 1 .. States, DropAllocator(s) PROVE KeepsReservations
  <2> DEFINE v == [allocator[s] EXCEPT !.handles = @ - 1]
  <2>1. s \in DOMAIN allocator /\ allocator[s].handles \in Int
          /\ v.reserved = allocator[s].reserved /\ v.handles = allocator[s].handles - 1
    BY <1>7, <1>2 DEF AnyState, DropAllocator
  <2>2. allocator' = [allocator EXCEPT ![s] = v] /\ code' = code
    BY <1>7 DEF DropAllocator
  <2>3. v.handles > 0 => IsLive(s)
    BY <2>1 DEF IsLive
  <2> HIDE DEF v
  <2> QED  BY <2>1, <2>2, <2>3, <1>3
<1>8. ASSUME NEW s \in DOMAIN allocator, allocator' = [allocator EXCEPT ![s] = Disabled(@)],
             \A c \in Code : code'[c].state = code[c].state /\ code'[c].len = code[c].len
      PROVE  KeepsReservations
  <2> DEFINE v == Disabled(allocator[s])
  <2>1. v.reserved = allocator[s].reserved /\ v.handles = allocator[s].handles
    BY <1>2, Zenon DEF AnyState, Disabled
  <2>2. allocator' = [allocator EXCEPT ![s] = v]
    BY <1>8
  <2> HIDE DEF v
  <2> QED  BY <2>1, <2>2, <1>3, <1>8 DEF IsLive
<1>9. ASSUME NEW s \in 1 .. States, PageSizeFails(s) PROVE KeepsReservations
  BY <1>9, <1>8 DEF PageSizeFails, EntersAllocate
<1>10. ASSUME NEW s \in 1 .. States, NEW c \in Code, NEW len \in Lens, Reserve(c, s, len)
       PROVE  TakesPages
  <2> DEFINE v == [allocator[s] EXCEPT !.reserved = @ + len, !.locked = TRUE]
             u == [NoCode EXCEPT !.at = "reserved", !.state = s, !.len = len]
  <2>1. /\ s \in DOMAIN allocator /\ allocator[s].handles > 0 /\ len \in Nat /\ code[c] = NoCode
        /\ allocator[s].reserved + len <= allocator[s].limit
    BY <1>10, MemoryAssumption DEF Reserve, EntersAllocate, MemoryAssumption
  <2>2. v.handles = allocator[s].handles /\ v.reserved = allocator[s].reserved + len
    BY <2>1, <1>2, Zenon DEF AnyState
  <2>3. allocator' = [allocator EXCEPT ![s] = v] /\ code' = [code EXCEPT ![c] = u]
    BY <1>10, Zenon DEF Reserve
  <2>4. u.state = s /\ u.len = len
    BY Zenon DEF NoCode
  <2> HIDE DEF v, u
  <2>5. OnlyReservedOf(s) /\ allocator'[s] = v
    BY <2>1, <2>2, <2>3, <1>5
  <2>6. code'[c] = u /\ \A d \in Code \ {c} : code'[d] = code[d]
    BY <2>3 DEF Shape
  <2> QED  BY <2>1, <2>2, <2>4, <2>5, <2>6 DEF TakesPages
<1>11. ASSUME NEW c \in Code, Map(c) PROVE KeepsReservations
  <2> DEFINE s == code[c].state
             v == [allocator[s] EXCEPT !.locked = FALSE]
             u == [code[c] EXCEPT !.at = "writable", !.off = FirstFit(code[c].len).off,
                                  !.epoch = allocator[s].epoch]
  <2>1. s \in DOMAIN allocator
    BY <1>1, <1>11 DEF Map
  <2>2. v.reserved = allocator[s].reserved /\ v.handles = allocator[s].handles
    BY <2>1, <1>2 DEF AnyState
  <2>3. u.state = s /\ u.len = code[c].len
    BY <1>1, Zenon DEF AnyCode
  <2>4. allocator' = [allocator EXCEPT ![s] = v] /\ code' = [code EXCEPT ![c] = u]
    BY <1>11, Zenon DEF Map
  <2> HIDE DEF v, u
  <2>5. \A d \in Code : code'[d].state = code[d].state /\ code'[d].len = code[d].len
    BY <2>3, <2>4 DEF Shape
  <2> HIDE DEF s
  <2> QED  BY <2>1, <2>2, <2>4, <2>5, <1>3 DEF IsLive
<1>12. ASSUME NEW c \in Code, NEW v, code[c].at # "none",
              allocator' = [allocator EXCEPT ![code[c].state] = v],
              v.handles = allocator[code[c].state].handles,
              v.reserved = allocator[code[c].state].reserved - code[c].len,
              code' = [code EXCEPT ![c] = NoCode]
       PROVE  ReturnsPages
  <2>1. OnlyReservedOf(code[c].state) /\ allocator'[code[c].state] = v
    BY <1>1, <1>5, <1>12
  <2>2. code'[c] = NoCode /\ \A d \in Code \ {c} : code'[d] = code[d]
    BY <1>12 DEF Shape
  <2> QED  BY <1>12, <2>1, <2>2 DEF ReturnsPages
<1>13. ASSUME NEW c \in Code, MapFails(c) PROVE ReturnsPages
  <2> DEFINE s == code[c].state
             d == Disabled(allocator[s])
             v == [d EXCEPT !.locked = FALSE, !.reserved = allocator[s].reserved - code[c].len]
  <2>1. s \in DOMAIN allocator /\ allocator[s].epoch + 1 \in Nat
    BY <1>1, <1>2, <1>13 DEF MapFails, AnyState
  <2>2. d \in AnyState /\ d.handles = allocator[s].handles
    BY <2>1, <1>2, Zenon DEF AnyState, Disabled
  <2>3. /\ allocator' = [allocator EXCEPT ![s] = v] /\ code' = [code EXCEPT ![c] = NoCode]
        /\ code[c].at = "reserved"
    BY <1>13, Zenon DEF MapFails
  <2> HIDE DEF d
  <2>4. v.handles = d.handles /\ v.reserved = allocator[s].reserved - code[c].len
    BY <2>2, Zenon DEF AnyState
  <2> HIDE DEF v
  <2> QED  BY <2>2, <2>3, <2>4, <1>12
<1>14. ASSUME NEW c \in Code, DropReservation(c) PROVE ReturnsPages
  <2> DEFINE s == code[c].state
             v == [allocator[s] EXCEPT !.reserved = @ - code[c].len]
  <2>1. s \in DOMAIN allocator
    BY <1>1, <1>14 DEF DropReservation
  <2>2. v.handles = allocator[s].handles /\ v.reserved = allocator[s].reserved - code[c].len
    BY <2>1, <1>2 DEF AnyState
  <2>3. allocator' = [allocator EXCEPT ![s] = v] /\ code' = [code EXCEPT ![c] = NoCode]
    BY <1>14, <2>1 DEF DropReservation, Unreserved
  <2>4. code[c].at = "unmapped"
    BY <1>14 DEF DropReservation
  <2> HIDE DEF v
  <2> QED  BY <2>2, <2>3, <2>4, <1>12
<1>15. ASSUME NEW c \in Code, NEW x, code' = [code EXCEPT ![c].at = x]
       PROVE  \A d \in Code : code'[d].state = code[d].state /\ code'[d].len = code[d].len
  BY <1>1, <1>15 DEF Shape, AnyCode
<1>16. ASSUME NEW c \in Code, NEW x, NEW y, code' = [code EXCEPT ![c].at = x, ![c].pins = y]
       PROVE  \A d \in Code : code'[d].state = code[d].state /\ code'[d].len = code[d].len
  <2> DEFINE u == [code[c] EXCEPT !.at = x, !.pins = y]
  <2>1. u.state = code[c].state /\ u.len = code[c].len
    BY <1>1, Zenon DEF AnyCode
  <2>2. code' = [code EXCEPT ![c] = u]
    BY <1>16, Zenon
  <2> HIDE DEF u
  <2> QED  BY <2>1, <2>2 DEF Shape
<1>17. ASSUME NEW c \in Code, NEW x, NEW y, code' = [code EXCEPT ![c].pins = y, ![c].at = x]
       PROVE  \A d \in Code : code'[d].state = code[d].state /\ code'[d].len = code[d].len
  <2> DEFINE u == [code[c] EXCEPT !.pins = y, !.at = x]
  <2>1. u.state = code[c].state /\ u.len = code[c].len
    BY <1>1, Zenon DEF AnyCode
  <2>2. code' = [code EXCEPT ![c] = u]
    BY <1>17, Zenon
  <2> HIDE DEF u
  <2> QED  BY <2>1, <2>2 DEF Shape
<1>18. ASSUME NEW c \in Code, Publish(c) PROVE KeepsReservations
  BY <1>18, <1>16, <1>4, Zenon DEF Publish
<1>19. ASSUME NEW c \in Code, PublishRefused(c) \/ DropWritable(c) \/ DropMapping(c)
       PROVE  KeepsReservations
  BY <1>19, <1>15, <1>4 DEF PublishRefused, DropWritable, DropMapping
<1>20. ASSUME NEW c \in Code, PublishFails(c) PROVE KeepsReservations
  BY <1>20, <1>15, <1>8, <1>1 DEF PublishFails
<1>21. ASSUME NEW c \in Code, PinCode(c) PROVE KeepsReservations
  <2>1. \A d \in Code : code'[d].state = code[d].state /\ code'[d].len = code[d].len
    BY <1>1, <1>21 DEF Shape, AnyCode, PinCode
  <2> QED  BY <2>1, <1>21, <1>4 DEF PinCode
<1>22. ASSUME NEW c \in Code, UnpinCode(c) PROVE KeepsReservations
  <2>1. PICK x, y : code' = [code EXCEPT ![c].pins = y, ![c].at = x]
    BY <1>22, Zenon DEF UnpinCode
  <2> QED  BY <2>1, <1>17, <1>22, <1>4, Zenon DEF UnpinCode
<1> QED  BY <1>6, <1>7, <1>9, <1>10, <1>11, <1>13, <1>14, <1>18, <1>19, <1>20, <1>21, <1>22
         DEF MemoryNext

(* What the sums need: lengths are natural numbers, and the sets are finite. *)
LEMMA LengthsAreNatural ==
  ASSUME Shape, MemoryAssumption
  PROVE  /\ \A c \in Code : code[c].len \in Nat
         /\ \A S \in SUBSET Code : IsFiniteSet(S) /\ PagesOf(code, S) \in Nat
<1>1. \A c \in Code : code[c].len \in Nat
  BY DEF Shape, AnyCode
<1>2. \A S \in SUBSET Code : IsFiniteSet(S)
  BY FS_Subset, MemoryAssumption DEF MemoryAssumption
<1> DEFINE f == [c \in Code |-> code[c].len]
<1>3. \A S \in SUBSET Code : \A c \in S : f[c] \in Nat
  BY <1>1
<1> HIDE DEF f
<1>4. \A S \in SUBSET Code : SumFunctionOnSet(f, S) \in Nat
  BY <1>2, <1>3, SumType
<1> QED  BY <1>1, <1>2, <1>4 DEF PagesOf, f

(* Allocations that keep their lengths keep their pages. *)
LEMMA PagesAreKept ==
  ASSUME Shape, MemoryAssumption, NEW S \in SUBSET Code,
         \A c \in S : code'[c].len = code[c].len
  PROVE  PagesOf(code', S) = PagesOf(code, S)
<1> DEFINE f == [c \in Code |-> code[c].len]
           h == [c \in Code |-> code'[c].len]
<1>1. IsFiniteSet(S) /\ \A c \in S : f[c] \in Nat /\ h[c] = f[c]
  BY LengthsAreNatural
<1> HIDE DEF f, h
<1>2. SumFunctionOnSet(h, S) = SumFunctionOnSet(f, S)
  BY <1>1, SumEqual
<1> QED  BY <1>2 DEF PagesOf, f, h

(* One allocation more or less is its length more or less. *)
LEMMA PagesWithout ==
  ASSUME NEW g, NEW S \in SUBSET Code, IsFiniteSet(S), \A d \in S : g[d].len \in Nat, NEW c \in S
  PROVE  PagesOf(g, S) = g[c].len + PagesOf(g, S \ {c})
<1> DEFINE f == [d \in Code |-> g[d].len]
<1>1. f[c] = g[c].len /\ \A d \in S : f[d] \in Nat
  OBVIOUS
<1> HIDE DEF f
<1>2. SumFunctionOnSet(f, S) = f[c] + SumFunctionOnSet(f, S \ {c})
  BY <1>1, SumRemove
<1> QED  BY <1>1, <1>2 DEF PagesOf, f

(* The four kinds of steps keep the quota's invariant. *)
LEMMA QuotaKept ==
  ASSUME Shape, Shape', StatesAreKept, MemoryAssumption, QuotaInv, KeepsReservations
  PROVE  QuotaInv'
<1>1. \A s : CodeOf(code', s) = CodeOf(code, s) /\ CodeOf(code, s) \in SUBSET Code
  BY DEF KeepsReservations, CodeOf
<1>2. \A s : PagesOf(code', CodeOf(code', s)) = PagesOf(code, CodeOf(code, s))
  BY <1>1, PagesAreKept DEF KeepsReservations
<1>3. \A s \in DOMAIN allocator' : IsLive(s)' => IsLive(s)
  BY DEF KeepsReservations, IsLive
<1>4. \A s \in DOMAIN allocator' :
        /\ s \in DOMAIN allocator /\ allocator'[s].reserved = allocator[s].reserved
        /\ allocator'[s].owner = allocator[s].owner /\ allocator'[s].limit = allocator[s].limit
  BY DEF KeepsReservations, StatesAreKept
<1> QED  BY <1>2, <1>3, <1>4 DEF QuotaInv

(* A new state starts empty, and its owner has no other that is live. *)
LEMMA QuotaOfNewState ==
  ASSUME Shape, MemoryAssumption, QuotaInv, AddsState
  PROVE  QuotaInv'
<1>1. PICK o \in Owner, limit \in Limits :
        LiveOf(o) = {} /\ allocator' = Append(allocator, NewState(o, limit)) /\ code' = code
  BY DEF AddsState
<1> DEFINE n == Len(allocator) + 1
           new == NewState(o, limit)
<1>2. new.owner = o /\ new.reserved = 0 /\ new.limit = limit /\ limit \in Nat /\ 0 <= limit
  BY MemoryAssumption DEF NewState, MemoryAssumption
<1> HIDE DEF new
<1>3. /\ DOMAIN allocator' = DOMAIN allocator \cup {n} /\ n \notin DOMAIN allocator
      /\ allocator'[n] = new /\ n # 0
      /\ \A s \in DOMAIN allocator : allocator'[s] = allocator[s]
  BY <1>1, SMTT(30) DEF Shape, new
<1> HIDE DEF n
<1>4. CodeOf(code, n) = {}
  <2>1. \A c \in Code : code[c].state # n
    BY <1>3 DEF Shape, NoCode
  <2> QED  BY <2>1 DEF CodeOf
<1>5. PagesOf(code, {}) = 0
  BY SumEmpty DEF PagesOf
<1>6. \A s \in DOMAIN allocator : IsLive(s)' => IsLive(s) /\ allocator[s].owner # o
  BY <1>1, <1>3 DEF IsLive, LiveOf
<1>7. \A s \in DOMAIN allocator' : /\ allocator'[s].reserved = PagesOf(code', CodeOf(code', s))
                                   /\ allocator'[s].reserved <= allocator'[s].limit
  <2>1. allocator'[n].reserved = PagesOf(code', CodeOf(code', n))
    BY <1>1, <1>2, <1>3, <1>4, <1>5, Zenon
  <2>2. \A s \in DOMAIN allocator : /\ allocator'[s].reserved = PagesOf(code', CodeOf(code', s))
                                    /\ allocator'[s].reserved <= allocator'[s].limit
    BY <1>1, <1>3, Zenon DEF QuotaInv
  <2>3. allocator'[n].reserved <= allocator'[n].limit
    BY <1>2, <1>3
  <2> QED  BY <1>3, <2>1, <2>2, <2>3, Zenon
<1>8. \A s, t \in DOMAIN allocator' :
        allocator'[s].owner = allocator'[t].owner /\ IsLive(s)' /\ IsLive(t)' => s = t
  BY <1>2, <1>3, <1>6 DEF QuotaInv
<1> QED  BY <1>7, <1>8 DEF QuotaInv

(* A reservation adds its pages on both sides. *)
LEMMA QuotaAfterTaking ==
  ASSUME Shape, Shape', StatesAreKept, MemoryAssumption, QuotaInv, TakesPages
  PROVE  QuotaInv'
<1>1. PICK c \in Code, s \in DOMAIN allocator :
        /\ code[c] = NoCode
        /\ allocator[s].handles > 0
        /\ OnlyReservedOf(s)
        /\ code'[c].state = s /\ code'[c].len \in Nat
        /\ allocator'[s].reserved = allocator[s].reserved + code'[c].len
        /\ allocator'[s].reserved <= allocator[s].limit
        /\ \A d \in Code \ {c} : code'[d] = code[d]
  BY DEF TakesPages
<1>2. code[c].state = 0 /\ 0 \notin DOMAIN allocator
  BY <1>1, SMTT(30) DEF NoCode, Shape
<1>3. /\ CodeOf(code', s) \ {c} = CodeOf(code, s) /\ c \in CodeOf(code', s)
      /\ \A t \in DOMAIN allocator : t # s => CodeOf(code', t) = CodeOf(code, t)
      /\ \A t \in DOMAIN allocator : CodeOf(code, t) \in SUBSET Code /\ c \notin CodeOf(code, t)
      /\ CodeOf(code', s) \in SUBSET Code
  BY <1>1, <1>2 DEF CodeOf
<1>4. \A t \in DOMAIN allocator : PagesOf(code', CodeOf(code, t)) = PagesOf(code, CodeOf(code, t))
  <2> TAKE t \in DOMAIN allocator
  <2>1. \A d \in CodeOf(code, t) : code'[d].len = code[d].len
    BY <1>1, <1>3
  <2> QED  BY <2>1, <1>3, PagesAreKept
<1>5. IsFiniteSet(CodeOf(code', s)) /\ \A d \in CodeOf(code', s) : code'[d].len \in Nat
  BY <1>1, <1>3, LengthsAreNatural
<1>6. PagesOf(code', CodeOf(code', s)) = code'[c].len + PagesOf(code', CodeOf(code', s) \ {c})
  BY <1>3, <1>5, PagesWithout
<1>7. PagesOf(code, CodeOf(code, s)) \in Nat
  BY <1>3, LengthsAreNatural
<1>8. /\ DOMAIN allocator' = DOMAIN allocator
      /\ \A t \in DOMAIN allocator : t # s => allocator'[t].reserved = allocator[t].reserved
      /\ \A t \in DOMAIN allocator :
           allocator'[t].owner = allocator[t].owner /\ allocator'[t].limit = allocator[t].limit
  BY <1>1 DEF OnlyReservedOf, StatesAreKept
<1>9. \A t \in DOMAIN allocator' : IsLive(t)' => IsLive(t)
  BY <1>1, <1>8 DEF IsLive, OnlyReservedOf
<1>10. \A t \in DOMAIN allocator' : /\ allocator'[t].reserved = PagesOf(code', CodeOf(code', t))
                                    /\ allocator'[t].reserved <= allocator'[t].limit
  <2> TAKE t \in DOMAIN allocator'
  <2>1. CASE t = s
    <3>1. allocator[s].reserved = PagesOf(code, CodeOf(code, s))
      BY DEF QuotaInv
    <3>2. PagesOf(code', CodeOf(code', s)) = code'[c].len + PagesOf(code, CodeOf(code, s))
      BY <1>3, <1>4, <1>6, Zenon
    <3> QED  BY <3>1, <3>2, <2>1, <1>1, <1>7, <1>8, SMTT(30)
  <2>2. CASE t # s
    BY <2>2, <1>3, <1>4, <1>8 DEF QuotaInv
  <2> QED  BY <2>1, <2>2
<1> QED  BY <1>8, <1>9, <1>10 DEF QuotaInv

(* A reservation that is dropped takes its pages from both sides. *)
LEMMA QuotaAfterReturning ==
  ASSUME Shape, Shape', StatesAreKept, MemoryAssumption, QuotaInv, ReturnsPages
  PROVE  QuotaInv'
<1>1. PICK c \in Code :
        /\ code[c].at # "none"
        /\ OnlyReservedOf(code[c].state)
        /\ allocator'[code[c].state].reserved = allocator[code[c].state].reserved - code[c].len
        /\ code'[c] = NoCode
        /\ \A d \in Code \ {c} : code'[d] = code[d]
  BY DEF ReturnsPages
<1> DEFINE s == code[c].state
<1>2. s \in DOMAIN allocator /\ code'[c].state = 0 /\ 0 \notin DOMAIN allocator
  BY <1>1, SMTT(30) DEF NoCode, Shape
<1>3. /\ CodeOf(code', s) = CodeOf(code, s) \ {c} /\ c \in CodeOf(code, s)
      /\ \A t \in DOMAIN allocator : t # s => CodeOf(code', t) = CodeOf(code, t)
      /\ \A t \in DOMAIN allocator : CodeOf(code', t) \in SUBSET Code /\ c \notin CodeOf(code', t)
      /\ CodeOf(code, s) \in SUBSET Code
  BY <1>1, <1>2 DEF CodeOf
<1>4. \A t \in DOMAIN allocator : PagesOf(code', CodeOf(code', t)) = PagesOf(code, CodeOf(code', t))
  <2> TAKE t \in DOMAIN allocator
  <2>1. \A d \in CodeOf(code', t) : code'[d].len = code[d].len
    BY <1>1, <1>3
  <2> QED  BY <2>1, <1>3, PagesAreKept
<1>5. /\ IsFiniteSet(CodeOf(code, s)) /\ \A d \in CodeOf(code, s) : code[d].len \in Nat
      /\ code[c].len \in Nat
  BY <1>3, LengthsAreNatural
<1>6. PagesOf(code, CodeOf(code, s)) = code[c].len + PagesOf(code, CodeOf(code, s) \ {c})
  BY <1>3, <1>5, PagesWithout
<1>7. PagesOf(code, CodeOf(code', s)) \in Nat
  BY <1>2, <1>3, LengthsAreNatural
<1>8. /\ DOMAIN allocator' = DOMAIN allocator
      /\ \A t \in DOMAIN allocator : t # s => allocator'[t].reserved = allocator[t].reserved
      /\ \A t \in DOMAIN allocator :
           allocator'[t].owner = allocator[t].owner /\ allocator'[t].limit = allocator[t].limit
  BY <1>1 DEF OnlyReservedOf, StatesAreKept
<1>9. \A t \in DOMAIN allocator' : IsLive(t)' => IsLive(t)
  BY <1>1, <1>2, <1>8 DEF IsLive, OnlyReservedOf
<1>10. allocator[s].limit \in Nat
  <2>1. allocator[s] \in AnyState
    BY <1>2 DEF Shape
  <2> QED  BY <2>1, MemoryAssumption DEF AnyState, MemoryAssumption
<1>11. \A t \in DOMAIN allocator' : /\ allocator'[t].reserved = PagesOf(code', CodeOf(code', t))
                                    /\ allocator'[t].reserved <= allocator'[t].limit
  <2> TAKE t \in DOMAIN allocator'
  <2>1. CASE t = s
    <3>1. /\ allocator[s].reserved = PagesOf(code, CodeOf(code, s))
          /\ allocator[s].reserved <= allocator[s].limit
      BY <1>2 DEF QuotaInv
    <3>2. PagesOf(code, CodeOf(code, s)) = code[c].len + PagesOf(code', CodeOf(code', s))
      BY <1>2, <1>3, <1>4, <1>6, Zenon
    <3>3. PagesOf(code', CodeOf(code', s)) \in Nat
      BY <1>2, <1>4, <1>7, Zenon
    <3>4. allocator'[s].reserved = allocator[s].reserved - code[c].len
      BY <1>1
    <3>5. allocator'[s].limit = allocator[s].limit
      BY <1>2, <1>8
    <3> HIDE DEF s
    <3>6. allocator'[s].reserved = PagesOf(code', CodeOf(code', s))
      BY <3>1, <3>2, <3>3, <3>4, <1>5
    <3>7. allocator'[s].reserved <= allocator'[s].limit
      BY <3>1, <3>2, <3>3, <3>5, <3>6, <1>5, <1>10
    <3> QED  BY <3>6, <3>7, <2>1, Zenon
  <2>2. CASE t # s
    BY <2>2, <1>3, <1>4, <1>8 DEF QuotaInv
  <2> QED  BY <2>1, <2>2
<1> QED  BY <1>8, <1>9, <1>11 DEF QuotaInv

(* The code a runtime has mapped is code of its one live state. *)
LEMMA QuotaBounds ==
  ASSUME Shape, MemoryAssumption, QuotaInv
  PROVE  QuotaBoundsMappedPages
<1> SUFFICES ASSUME NEW o \in Owner
             PROVE  LET mapped == {c \in Code : IsMapped(c) /\ allocator[code[c].state].owner = o}
                    IN mapped # {} => \E s \in LiveOf(o) :
                                        PagesOf(code, mapped) <= allocator[s].limit
  BY DEF QuotaBoundsMappedPages, QuotaInv
<1> DEFINE mapped == {c \in Code : IsMapped(c) /\ allocator[code[c].state].owner = o}
<1> SUFFICES ASSUME mapped # {}
             PROVE  \E s \in LiveOf(o) : PagesOf(code, mapped) <= allocator[s].limit
  OBVIOUS
<1>1. PICK c \in mapped : TRUE
  OBVIOUS
<1> DEFINE s == code[c].state
           all == CodeOf(code, s)
           f == [d \in Code |-> code[d].len]
<1>2. \A d \in mapped : code[d].state \in DOMAIN allocator /\ IsLive(code[d].state)
                        /\ allocator[code[d].state].owner = o
  BY DEF Shape, IsMapped, IsLive
<1>3. s \in LiveOf(o)
  BY <1>1, <1>2 DEF LiveOf
<1>4. mapped \in SUBSET all /\ all \in SUBSET Code /\ all \ mapped \in SUBSET Code
  BY <1>1, <1>2 DEF QuotaInv, CodeOf
<1>5. /\ IsFiniteSet(all) /\ \A d \in all : f[d] \in Nat
      /\ PagesOf(code, mapped) \in Nat /\ PagesOf(code, all \ mapped) \in Nat
      /\ PagesOf(code, all) \in Nat
  BY <1>4, LengthsAreNatural
<1>6. /\ s \in DOMAIN allocator /\ allocator[s].reserved = PagesOf(code, all)
      /\ allocator[s].reserved <= allocator[s].limit
  BY <1>1, <1>2 DEF QuotaInv
<1>7. allocator[s].limit \in Nat
  <2>1. allocator[s] \in AnyState
    BY <1>6 DEF Shape
  <2> QED  BY <2>1, MemoryAssumption DEF AnyState, MemoryAssumption
<1> HIDE DEF f, mapped, all, s
<1>8. SumFunctionOnSet(f, all) = SumFunctionOnSet(f, mapped) + SumFunctionOnSet(f, all \ mapped)
  BY <1>4, <1>5, SumSplit
<1>9. PagesOf(code, all) = PagesOf(code, mapped) + PagesOf(code, all \ mapped)
  BY <1>8 DEF PagesOf, f
<1>10. PagesOf(code, mapped) <= allocator[s].limit
  BY <1>5, <1>6, <1>7, <1>9
<1> QED  BY <1>3, <1>10

(* QuotaInv is an invariant. *)
THEOREM QuotaInvariant == MemorySpec => []QuotaInv
<1>1. MemoryInit => QuotaInv
  BY DEF MemoryInit, QuotaInv
<1>2. MemoryInv /\ MemoryInv' /\ QuotaInv /\ [MemoryNext]_memoryVars => QuotaInv'
  <2> SUFFICES ASSUME MemoryInv, MemoryInv', QuotaInv, [MemoryNext]_memoryVars PROVE QuotaInv'
    OBVIOUS
  <2>1. CASE MemoryNext
    <3>1. Shape /\ Shape' /\ StatesAreKept
      BY <2>1, AllocatorSteps, MemoryAssumption DEF MemoryInv
    <3>2. KeepsReservations \/ AddsState \/ TakesPages \/ ReturnsPages
      BY <2>1, <3>1, QuotaSteps, MemoryAssumption
    <3> QED  BY <3>1, <3>2, QuotaKept, QuotaOfNewState, QuotaAfterTaking, QuotaAfterReturning,
                MemoryAssumption
  <2>2. CASE UNCHANGED memoryVars
    BY <2>2 DEF memoryVars, QuotaInv, IsLive, CodeOf, PagesOf
  <2> QED  BY <2>1, <2>2
<1> QED  BY <1>1, <1>2, MemoryInvariant, PTL DEF MemorySpec

(* No runtime ever has more mapped than its quota, whatever allocators were
   made for it and in whatever order code and reservations are dropped. *)
THEOREM QuotaIsKept == MemorySpec => []QuotaBoundsMappedPages
<1>1. MemoryInv /\ QuotaInv => QuotaBoundsMappedPages
  BY QuotaBounds, MemoryAssumption DEF MemoryInv
<1> QED  BY <1>1, QuotaInvariant, MemoryInvariant, PTL

-----------------------------------------------------------------------------
(* Failures *)

(* A state that failed is off; a call of allocate that has its reservation
   holds the lock of a state that is on, and no other call does. *)
FailureInv ==
  /\ \A s \in failed : s \in DOMAIN allocator /\ ~allocator[s].enabled
  /\ \A c \in Code :
       code[c].at = "reserved" =>
         allocator[code[c].state].locked /\ allocator[code[c].state].enabled
  /\ \A c, d \in Code :
       code[c].at = "reserved" /\ code[d].at = "reserved" /\ code[c].state = code[d].state
         => c = d

(* A step that starts no allocation: it changes the states in S alone, turns
   off the ones that fail, and leaves no call of allocate in them. *)
ChangesOnly(S) ==
  /\ DOMAIN allocator \subseteq DOMAIN allocator' /\ S \subseteq DOMAIN allocator
  /\ \A t \in DOMAIN allocator \ S : /\ allocator'[t].enabled = allocator[t].enabled
                                     /\ allocator'[t].locked = allocator[t].locked
  /\ \A c \in Code : code'[c].at = "reserved" =>
       code[c].at = "reserved" /\ code'[c].state = code[c].state /\ code[c].state \notin S
  /\ failed' \subseteq failed \cup S
  /\ \A t \in failed' \cap S : ~allocator'[t].enabled

(* Such a step keeps FailureInv. *)
LEMMA ChangesKeepFailures ==
  ASSUME Shape, FailureInv, NEW S, ChangesOnly(S)
  PROVE  FailureInv'
<1>1. \A c \in Code : code[c].at = "reserved" => code[c].state \in DOMAIN allocator
  BY DEF Shape
<1>2. ASSUME NEW s \in failed'
      PROVE  s \in DOMAIN allocator' /\ ~allocator'[s].enabled
  BY <1>2, Zenon DEF ChangesOnly, FailureInv
<1>3. ASSUME NEW c \in Code, code'[c].at = "reserved"
      PROVE  allocator'[code'[c].state].locked /\ allocator'[code'[c].state].enabled
  BY <1>1, <1>3, Zenon DEF ChangesOnly, FailureInv
<1>4. ASSUME NEW c \in Code, NEW d \in Code, code'[c].at = "reserved", code'[d].at = "reserved",
             code'[c].state = code'[d].state
      PROVE  c = d
  <2>1. /\ code[c].at = "reserved" /\ code'[c].state = code[c].state
        /\ code[d].at = "reserved" /\ code'[d].state = code[d].state
    BY <1>4, Zenon DEF ChangesOnly
  <2>2. code[c].state = code[d].state
    BY <1>4, <2>1, Zenon
  <2> QED  BY <2>1, <2>2, Zenon DEF FailureInv
<1> QED  BY <1>2, <1>3, <1>4, Zenon DEF FailureInv

(* A call of allocate begins. *)
LEMMA ReserveKeepsFailures ==
  ASSUME Shape, FailureInv, NEW c \in Code, NEW s, NEW len, Reserve(c, s, len)
  PROVE  FailureInv'
<1> DEFINE new == [NoCode EXCEPT !.at = "reserved", !.state = s, !.len = len]
<1>1. /\ s \in DOMAIN allocator /\ ~allocator[s].locked /\ allocator[s].enabled
      /\ code' = [code EXCEPT ![c] = new] /\ failed' = failed
  BY DEF Reserve, EntersAllocate
<1>2. new.at = "reserved" /\ new.state = s
  BY DEF NoCode
<1> HIDE DEF new
<1>3. \A d \in Code : code'[d] = IF d = c THEN new ELSE code[d]
  BY <1>1 DEF Shape
<1>4. /\ DOMAIN allocator' = DOMAIN allocator
      /\ \A t \in DOMAIN allocator : /\ allocator'[t].enabled = allocator[t].enabled
                                     /\ t # s => allocator'[t].locked = allocator[t].locked
      /\ allocator'[s].locked
  <2> DEFINE v == [allocator[s] EXCEPT !.reserved = @ + len, !.locked = TRUE]
  <2>1. allocator[s] \in AnyState
    BY <1>1 DEF Shape
  <2>2. v.enabled = allocator[s].enabled /\ v.locked
    BY <2>1 DEF AnyState
  <2>3. allocator' = [allocator EXCEPT ![s] = v]
    BY DEF Reserve
  <2> HIDE DEF v
  <2>4. /\ DOMAIN allocator' = DOMAIN allocator /\ allocator'[s] = v
        /\ \A t \in DOMAIN allocator \ {s} : allocator'[t] = allocator[t]
    BY <1>1, <2>3 DEF Shape
  <2> QED  BY <2>2, <2>4, Zenon
<1>5. \A d \in Code : code[d].at = "reserved" =>
                        code[d].state \in DOMAIN allocator /\ code[d].state # s
  BY <1>1, Zenon DEF Shape, FailureInv
<1>6. \A t \in failed' : t \in DOMAIN allocator' /\ ~allocator'[t].enabled
  BY <1>1, <1>4, Zenon DEF FailureInv
<1>7. ASSUME NEW d \in Code, code'[d].at = "reserved"
      PROVE  allocator'[code'[d].state].locked /\ allocator'[code'[d].state].enabled
  <2>1. CASE d = c
    BY <1>1, <1>2, <1>3, <1>4, <2>1, Zenon
  <2>2. CASE d # c
    <3>1. code'[d] = code[d]
      BY <1>3, <2>2, Zenon
    <3>2. code[d].at = "reserved"
      BY <1>7, <3>1, Zenon
    <3>3. allocator[code[d].state].locked /\ allocator[code[d].state].enabled
      BY <3>2, Zenon DEF FailureInv
    <3> QED  BY <1>4, <1>5, <3>1, <3>2, <3>3, Zenon
  <2> QED  BY <2>1, <2>2
<1>8. ASSUME NEW d \in Code, NEW e \in Code, code'[d].at = "reserved", code'[e].at = "reserved",
             code'[d].state = code'[e].state
      PROVE  d = e
  <2>1. \A f \in Code : f # c /\ code'[f].at = "reserved" =>
                           /\ code'[f].state = code[f].state /\ code[f].state # s
                           /\ code[f].at = "reserved"
    BY <1>3, <1>5, Zenon
  <2>2. code'[c].state = s
    BY <1>2, <1>3, Zenon
  <2>3. CASE d = c \/ e = c
    BY <1>8, <2>1, <2>2, <2>3, Zenon
  <2>4. CASE d # c /\ e # c
    <3>1. code[d].state = code[e].state /\ code[d].at = "reserved" /\ code[e].at = "reserved"
      BY <1>8, <2>1, <2>4, Zenon
    <3> QED  BY <3>1, Zenon DEF FailureInv
  <2> QED  BY <2>3, <2>4
<1> QED  BY <1>6, <1>7, <1>8, Zenon DEF FailureInv

(* A step that changes no allocator and starts no allocation. *)
LEMMA QuietKeepsFailures ==
  ASSUME Shape, FailureInv, allocator' = allocator, failed' = failed,
         \A d \in Code : code'[d].at = "reserved" =>
                           code[d].at = "reserved" /\ code'[d].state = code[d].state
  PROVE  FailureInv'
<1>1. ChangesOnly({})
  BY Zenon DEF ChangesOnly
<1> QED  BY <1>1, ChangesKeepFailures

(* Every step keeps FailureInv. *)
LEMMA NextKeepsFailures ==
  ASSUME Shape, FailureInv, MemoryNext
  PROVE  FailureInv'
<1>1. \A s \in DOMAIN allocator : allocator[s] \in AnyState
  BY DEF Shape
<1>2. code \in [Code -> AnyCode] /\ \A c \in Code : code[c] \in AnyCode
  BY DEF Shape
<1>3. \A c \in Code : code[c].at # "none" => code[c].state \in DOMAIN allocator
  BY DEF Shape
<1>4. ASSUME NEW s \in DOMAIN allocator, ~allocator[s].locked, failed' = failed \cup {s},
             allocator' = [allocator EXCEPT ![s] = Disabled(@)],
             \A d \in Code : code'[d].at = "reserved" =>
                               code[d].at = "reserved" /\ code'[d].state = code[d].state
      PROVE  FailureInv'
  <2>1. /\ DOMAIN allocator' = DOMAIN allocator
        /\ \A t \in DOMAIN allocator \ {s} : allocator'[t] = allocator[t]
        /\ allocator'[s] = Disabled(allocator[s])
    BY <1>4 DEF Shape
  <2>2. ~Disabled(allocator[s]).enabled
    BY <1>1, Zenon DEF Disabled, AnyState
  <2>3. \A d \in Code : code[d].at = "reserved" => code[d].state # s
    BY <1>4, Zenon DEF FailureInv
  <2>4. ChangesOnly({s})
    BY <1>4, <2>1, <2>2, <2>3, Zenon DEF ChangesOnly
  <2> QED  BY <2>4, ChangesKeepFailures
<1>5. ASSUME NEW o \in Owner, NEW limit \in Limits, NewRegistered(o, limit)  PROVE FailureInv'
  <2> DEFINE Kept ==
               /\ DOMAIN allocator \subseteq DOMAIN allocator'
               /\ \A t \in DOMAIN allocator : /\ allocator'[t].enabled = allocator[t].enabled
                                              /\ allocator'[t].locked = allocator[t].locked
  <2>1. Kept
    <3>1. ASSUME NEW s \in LiveOf(o), allocator' = [allocator EXCEPT ![s].handles = @ + 1]
          PROVE  Kept
      BY <1>1, <3>1 DEF Shape, LiveOf, AnyState
    <3>2. ASSUME allocator' = Append(allocator, NewState(o, limit))  PROVE Kept
      <4>1. NewState(o, limit) \in AnyState
        BY DEF NewState, AnyState
      <4> HIDE DEF NewState
      <4> QED  BY <3>2, <4>1 DEF Shape
    <3> QED  BY <1>5, <3>1, <3>2 DEF NewRegistered
  <2>2. ChangesOnly({})
    BY <1>5, <2>1 DEF ChangesOnly, NewRegistered
  <2> QED  BY <2>2, ChangesKeepFailures
<1>6. ASSUME NEW s \in 1 .. States, DropAllocator(s)  PROVE FailureInv'
  <2>1. /\ DOMAIN allocator' = DOMAIN allocator
        /\ \A t \in DOMAIN allocator : /\ allocator'[t].enabled = allocator[t].enabled
                                       /\ allocator'[t].locked = allocator[t].locked
    BY <1>1, <1>6 DEF DropAllocator, Shape, AnyState
  <2>2. ChangesOnly({})
    BY <1>6, <2>1 DEF ChangesOnly, DropAllocator
  <2> QED  BY <2>2, ChangesKeepFailures
<1>7. ASSUME NEW s \in 1 .. States, PageSizeFails(s)  PROVE FailureInv'
  BY <1>4, <1>7, Zenon DEF PageSizeFails, EntersAllocate
<1>8. ASSUME NEW c \in Code, Map(c)  PROVE FailureInv'
  <2> DEFINE s == code[c].state
  <2>1. s \in DOMAIN allocator /\ code[c].at = "reserved" /\ failed' = failed
    BY <1>3, <1>8 DEF Map
  <2>2. allocator' = [allocator EXCEPT ![s].locked = FALSE]
    BY <1>8 DEF Map
  <2>3. /\ \A d \in Code \ {c} : code'[d] = code[d]
        /\ code'[c].at = "writable"
    BY <1>2, <1>8 DEF Map, AnyCode
  <2> HIDE DEF s
  <2>4. /\ DOMAIN allocator' = DOMAIN allocator
        /\ \A t \in DOMAIN allocator \ {s} : allocator'[t] = allocator[t]
        /\ allocator'[s].enabled = allocator[s].enabled
    BY <1>1, <2>1, <2>2 DEF Shape, AnyState
  <2>5. \A d \in Code \ {c} : code[d].at = "reserved" => code[d].state # s
    BY <2>1, Zenon DEF FailureInv, s
  <2>6. allocator[s].enabled /\ s \notin failed
    BY <2>1, Zenon DEF FailureInv, s
  <2>7. ChangesOnly({s})
    BY <2>1, <2>3, <2>4, <2>5, <2>6 DEF ChangesOnly
  <2> QED  BY <2>7, ChangesKeepFailures
<1>9. ASSUME NEW c \in Code, MapFails(c)  PROVE FailureInv'
  <2> DEFINE s == code[c].state
             d == Disabled(allocator[s])
             v == [d EXCEPT !.locked = FALSE, !.reserved = allocator[s].reserved - code[c].len]
  <2>1. s \in DOMAIN allocator /\ code[c].at = "reserved" /\ failed' = failed \cup {s}
    BY <1>3, <1>9 DEF MapFails
  <2>2. allocator' = [allocator EXCEPT ![s] = v] /\ code' = [code EXCEPT ![c] = NoCode]
    BY <1>9, Zenon DEF MapFails
  <2>3. d \in AnyState /\ ~d.enabled
    <3>1. allocator[s].epoch + 1 \in Nat
      BY <1>1, <2>1 DEF AnyState
    <3> QED  BY <1>1, <2>1, <3>1, Zenon DEF Disabled, AnyState
  <2> HIDE DEF d
  <2>4. ~v.enabled
    BY <2>3, Zenon DEF AnyState
  <2> HIDE DEF s, v
  <2>5. /\ DOMAIN allocator' = DOMAIN allocator
        /\ \A t \in DOMAIN allocator \ {s} : allocator'[t] = allocator[t]
        /\ allocator'[s] = v
    BY <2>1, <2>2 DEF Shape
  <2>6. (\A e \in Code \ {c} : code'[e] = code[e]) /\ code'[c].at = "none"
    BY <1>2, <2>2 DEF NoCode
  <2>7. \A e \in Code \ {c} : code[e].at = "reserved" => code[e].state # s
    BY <2>1, Zenon DEF FailureInv, s
  <2>8. ChangesOnly({s})
    BY <2>1, <2>4, <2>5, <2>6, <2>7 DEF ChangesOnly
  <2> QED  BY <2>8, ChangesKeepFailures
<1>10. ASSUME NEW c \in Code, PublishFails(c)  PROVE FailureInv'
  <2>1. \A d \in Code : code'[d].at = "reserved" =>
                          code[d].at = "reserved" /\ code'[d].state = code[d].state
    BY <1>2, <1>10 DEF PublishFails, AnyCode
  <2> QED  BY <1>3, <1>4, <1>10, <2>1 DEF PublishFails
<1>11. ASSUME NEW c \in Code, Publish(c) \/ PublishRefused(c) \/ DropWritable(c)
       PROVE  FailureInv'
  <2>1. \A d \in Code : code'[d].at = "reserved" =>
                          code[d].at = "reserved" /\ code'[d].state = code[d].state
    BY <1>2, <1>11 DEF Publish, PublishRefused, DropWritable, AnyCode
  <2> QED  BY <1>11, <2>1, QuietKeepsFailures DEF Publish, PublishRefused, DropWritable
<1>12. ASSUME NEW c \in Code, PinCode(c) \/ UnpinCode(c) \/ DropMapping(c)
       PROVE  FailureInv'
  <2>1. \A d \in Code : code'[d].at = "reserved" =>
                          code[d].at = "reserved" /\ code'[d].state = code[d].state
    BY <1>2, <1>12 DEF PinCode, UnpinCode, DropMapping, AnyCode
  <2> QED  BY <1>12, <2>1, QuietKeepsFailures DEF PinCode, UnpinCode, DropMapping
<1>13. ASSUME NEW c \in Code, DropReservation(c)  PROVE FailureInv'
  <2>1. code[c].state \in DOMAIN allocator /\ code' = [code EXCEPT ![c] = NoCode]
    BY <1>3, <1>13 DEF DropReservation
  <2>2. /\ DOMAIN allocator' = DOMAIN allocator
        /\ \A t \in DOMAIN allocator : /\ allocator'[t].enabled = allocator[t].enabled
                                       /\ allocator'[t].locked = allocator[t].locked
    BY <1>1, <1>13, <2>1 DEF DropReservation, Unreserved, Shape, AnyState
  <2>3. (\A e \in Code \ {c} : code'[e] = code[e]) /\ code'[c].at = "none"
    BY <1>2, <2>1 DEF NoCode
  <2>4. ChangesOnly({})
    BY <1>13, <2>2, <2>3 DEF ChangesOnly, DropReservation
  <2> QED  BY <2>4, ChangesKeepFailures
<1> QED  BY <1>5, <1>6, <1>7, <1>8, <1>9, <1>10, <1>11, <1>12, <1>13, ReserveKeepsFailures
         DEF MemoryNext

(* Memory becomes writable or executable only through an allocator that is on. *)
LEMMA OnlyWhileEnabled ==
  ASSUME Shape, FailureInv, MemoryNext, NEW d \in Code,
         code'[d].at # code[d].at, code'[d].at \in {"writable", "executable"}
  PROVE  code[d].at # "none" /\ allocator[code[d].state].enabled
<1>1. code \in [Code -> AnyCode]
  BY DEF Shape
<1>2. \A o \in Owner, limit \in Limits : ~NewRegistered(o, limit)
  BY DEF NewRegistered
<1>3. \A s \in 1 .. States : ~DropAllocator(s) /\ ~PageSizeFails(s)
  BY DEF DropAllocator, PageSizeFails
<1>4. \A s \in 1 .. States, c \in Code, len \in Lens : ~Reserve(c, s, len)
  <2> SUFFICES ASSUME NEW s \in 1 .. States, NEW c \in Code, NEW len \in Lens, Reserve(c, s, len)
               PROVE  FALSE
    OBVIOUS
  <2> DEFINE new == [NoCode EXCEPT !.at = "reserved", !.state = s, !.len = len]
  <2>1. code' = [code EXCEPT ![c] = new]
    BY DEF Reserve
  <2>2. new.at = "reserved"
    BY DEF NoCode
  <2> HIDE DEF new
  <2>3. code'[d] = IF d = c THEN new ELSE code[d]
    BY <1>1, <2>1
  <2> QED  BY <2>2, <2>3
<1>5. \A c \in Code : ~MapFails(c) /\ ~DropReservation(c)
  BY <1>1 DEF MapFails, DropReservation, NoCode
<1>6. \A c \in Code : ~PublishRefused(c) /\ ~PublishFails(c) /\ ~DropWritable(c)
  BY <1>1 DEF PublishRefused, PublishFails, DropWritable, AnyCode
<1>7. \A c \in Code : ~PinCode(c)
  BY <1>1 DEF PinCode, AnyCode
<1>8. \A c \in Code : ~UnpinCode(c)
  BY <1>1 DEF UnpinCode, AnyCode
<1>9. \A c \in Code : ~DropMapping(c)
  BY <1>1 DEF DropMapping, AnyCode
<1>10. \A c \in Code : Publish(c) => c = d
  BY <1>1 DEF Publish, AnyCode
<1>11. \A c \in Code : Map(c) => c = d
  BY <1>1 DEF Map, AnyCode
<1>12. Publish(d) \/ Map(d)
  BY <1>2, <1>3, <1>4, <1>5, <1>6, <1>7, <1>8, <1>9, <1>10, <1>11 DEF MemoryNext
<1>13. CASE Publish(d)
  BY <1>13 DEF Publish
<1>14. CASE Map(d)
  BY <1>14 DEF Map, FailureInv
<1> QED  BY <1>12, <1>13, <1>14

(* FailureInv is an invariant. *)
THEOREM FailureInvariant == MemorySpec => []FailureInv
<1>1. MemoryInit => FailureInv
  BY DEF MemoryInit, FailureInv, NoCode
<1>2. MemoryInv /\ FailureInv /\ [MemoryNext]_memoryVars => FailureInv'
  <2> SUFFICES ASSUME MemoryInv, FailureInv, [MemoryNext]_memoryVars PROVE FailureInv'
    OBVIOUS
  <2>1. CASE MemoryNext
    BY <2>1, NextKeepsFailures DEF MemoryInv
  <2>2. CASE UNCHANGED memoryVars
    BY <2>2 DEF memoryVars, FailureInv
  <2> QED  BY <2>1, <2>2
<1> QED  BY <1>1, <1>2, MemoryInvariant, PTL DEF MemorySpec

(* After a failure of its allocator a runtime installs nothing more, whatever
   was allocated before and whatever handles it is given afterwards. *)
THEOREM NothingIsInstalledAfterFailure == MemorySpec => FailureEndsInstallation
<1> DEFINE Installed ==
             \A c \in Code :
               code'[c].at # code[c].at /\ code'[c].at \in {"writable", "executable"} =>
                 LiveOf(allocator[code[c].state].owner) \cap failed = {}
<1>1. MemoryInv /\ QuotaInv /\ FailureInv /\ [MemoryNext]_memoryVars => [Installed]_memoryVars
  <2> SUFFICES ASSUME MemoryInv, QuotaInv, FailureInv, MemoryNext, NEW c \in Code,
                      code'[c].at # code[c].at, code'[c].at \in {"writable", "executable"}
               PROVE  LiveOf(allocator[code[c].state].owner) \cap failed = {}
    OBVIOUS
  <2> DEFINE s == code[c].state
  <2>1. Shape
    BY DEF MemoryInv
  <2>2. code[c].at # "none" /\ allocator[s].enabled
    BY <2>1, OnlyWhileEnabled
  <2>3. s \in DOMAIN allocator /\ IsLive(s)
    BY <2>1, <2>2, Zenon DEF Shape, IsLive
  <2>4. \A t \in LiveOf(allocator[s].owner) : t = s
    BY <2>3, Zenon DEF LiveOf, QuotaInv
  <2>5. s \notin failed
    BY <2>2, Zenon DEF FailureInv
  <2> QED  BY <2>4, <2>5, Zenon
<1> QED  BY <1>1, MemoryInvariant, QuotaInvariant, FailureInvariant, PTL
         DEF MemorySpec, FailureEndsInstallation
=============================================================================
