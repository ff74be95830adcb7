-------------------------- MODULE ExecutableMemory --------------------------
(***************************************************************************)
(* The memory native code lives in: the allocators of                      *)
(* jit/src/platform/mod.rs, one per runtime, each with its quota, and the  *)
(* heap they share in jit/src/platform/macos.rs.                           *)
(*                                                                         *)
(* Lengths are pages.  An allocation is writable until it is published and *)
(* executable from then on; it is given back in two steps, first its       *)
(* mapping and then its share of the quota, and the steps of two           *)
(* allocations interleave.  An allocator state lives as long as something  *)
(* refers to it: an allocator handle or an allocation.  A failure of the   *)
(* operating system, which the code also injects in its tests, turns the   *)
(* allocator's native installation off for good.                           *)
(***************************************************************************)
EXTENDS Integers, Sequences, FiniteSets, Functions

CONSTANTS
  Owner,       \* runtimes
  Code,        \* allocations, live and free ones
  States,      \* allocator states a behaviour may create
  Lens,        \* lengths asked for, in pages; 0 is refused
  Limits,      \* quotas a runtime may ask for
  HeapPages,   \* PROCESS_HEAP_BYTES, in pages
  MaxClones,   \* bound on the clones of one executable
  MaxHandles   \* bound on the clones of one allocator

ASSUME MemoryAssumption ==
  /\ IsFiniteSet(Owner) /\ IsFiniteSet(Code) /\ States \in Nat
  /\ Lens \subseteq Nat /\ Limits \subseteq Nat
  /\ HeapPages \in Nat \ {0} /\ MaxClones \in Nat \ {0} /\ MaxHandles \in Nat \ {0}

VARIABLES
  allocator,   \* AllocatorState: one record for each state created so far
  code,        \* WritableCode and ExecutableAllocation
  heap,        \* ProcessHeap: the free ranges and the allocated ones
  failed       \* the allocator states that reported a failure (the code keeps no
               \* such record)

memoryVars == <<allocator, code, heap, failed>>

Pages(off, len) == [off |-> off, len |-> len]

NoCode == [at |-> "none", state |-> 0, off |-> 0, len |-> 0, epoch |-> 0, pins |-> 0]

MemoryInit ==
  /\ allocator = << >>
  /\ code = [c \in Code |-> NoCode]
  /\ heap = [free |-> {Pages(0, HeapPages)}, allocations |-> {}]
  /\ failed = {}

-----------------------------------------------------------------------------
(* Allocator states *)

(* Arc: the handles on a state and the allocations that keep it. *)
IsLive(s) == allocator[s].handles > 0 \/ \E c \in Code : code[c].state = s

LiveOf(o) == {s \in DOMAIN allocator : allocator[s].owner = o /\ IsLive(s)}

NewState(o, limit) ==
  [owner |-> o, limit |-> limit, reserved |-> 0, enabled |-> TRUE, epoch |-> 0,
   handles |-> 1, locked |-> FALSE]

(* A registry that forgets states of which only allocations are left. *)
NewRegisteredByHandles(o, limit) ==
  /\ UNCHANGED <<code, heap, failed>>
  /\ \/ \E s \in LiveOf(o) :
          /\ allocator[s].handles \in 1 .. MaxHandles - 1
          /\ allocator[s].limit = limit
          /\ allocator' = [allocator EXCEPT ![s].handles = @ + 1]
     \/ /\ \A s \in LiveOf(o) : allocator[s].handles = 0
        /\ Len(allocator) < States
        /\ allocator' = Append(allocator, NewState(o, limit))

(* new_registered: an owner whose state is alive gets that state back, and is
   refused under another configuration. *)
NewRegistered(o, limit) ==
  /\ UNCHANGED <<code, heap, failed>>
  /\ \/ \E s \in LiveOf(o) :
          /\ allocator[s].handles < MaxHandles
          /\ allocator[s].limit = limit
          /\ allocator' = [allocator EXCEPT ![s].handles = @ + 1]
     \/ /\ LiveOf(o) = {}
        /\ Len(allocator) < States
        /\ allocator' = Append(allocator, NewState(o, limit))

(* An allocator is dropped; a call of allocate borrows one. *)
DropAllocator(s) ==
  /\ s \in DOMAIN allocator
  /\ allocator[s].handles > (IF allocator[s].locked THEN 1 ELSE 0)
  /\ allocator' = [allocator EXCEPT ![s].handles = @ - 1]
  /\ UNCHANGED <<code, heap, failed>>

(* disable_native *)
Disabled(state) == [state EXCEPT !.enabled = FALSE, !.epoch = @ + 1]

-----------------------------------------------------------------------------
(* The process heap *)

Candidates(len) == {r \in heap.free : r.len >= len}

(* ProcessHeap::allocate: the first free range that is long enough. *)
FirstFit(len) ==
  CHOOSE r \in Candidates(len) : \A q \in Candidates(len) : r.off <= q.off

HeapAllocate(len, o) ==
  LET r == FirstFit(len)
      rest == IF r.len > len THEN {Pages(r.off + len, r.len - len)} ELSE {}
  IN [free |-> (heap.free \ {r}) \cup rest,
      allocations |-> heap.allocations \cup {[off |-> r.off, len |-> len, owner |-> o]}]

(* The free range that ends at a page, and the one that starts there. *)
Ending(off) == {r \in heap.free : r.off + r.len = off}

Starting(off) == {r \in heap.free : r.off = off}

OnlyOr(ranges, r) == IF ranges = {} THEN r ELSE CHOOSE q \in ranges : TRUE

(* ProcessHeap::release: the range joins its free neighbours. *)
HeapRelease(off, len, o) ==
  LET allocation == [off |-> off, len |-> len, owner |-> o]
      previous == OnlyOr(Ending(off), Pages(off, 0))
      next == OnlyOr(Starting(off + len), Pages(off + len, 0))
  IN IF allocation \notin heap.allocations
     THEN heap
     ELSE [free |-> (heap.free \ {previous, next})
                      \cup {Pages(previous.off, previous.len + len + next.len)},
           allocations |-> heap.allocations \ {allocation}]

-----------------------------------------------------------------------------
(* Allocation *)

(* The code of allocator state s that is on its way through `allocate`. *)
Allocating(s) == {c \in Code : code[c].at = "reserved" /\ code[c].state = s}

(* CodeAllocator::allocate takes the lock of the native state and finds it on. *)
EntersAllocate(s) ==
  /\ s \in DOMAIN allocator
  /\ allocator[s].handles > 0
  /\ ~allocator[s].locked
  /\ allocator[s].enabled

(* allocate, up to Reservation::acquire, which keeps the quota. *)
Reserve(c, s, len) ==
  /\ code[c] = NoCode
  /\ EntersAllocate(s)
  /\ len > 0
  /\ allocator[s].reserved + len <= allocator[s].limit
  /\ allocator' = [allocator EXCEPT ![s].reserved = @ + len, ![s].locked = TRUE]
  /\ code' = [code EXCEPT ![c] = [NoCode EXCEPT !.at = "reserved", !.state = s, !.len = len]]
  /\ UNCHANGED <<heap, failed>>

(* allocate, when the page size cannot be read. *)
PageSizeFails(s) ==
  /\ EntersAllocate(s)
  /\ allocator' = [allocator EXCEPT ![s] = Disabled(@)]
  /\ failed' = failed \cup {s}
  /\ UNCHANGED <<code, heap>>

(* allocate, after the reservation: the mapping, and the lock is released. *)
Map(c) ==
  LET s == code[c].state
      len == code[c].len
  IN /\ code[c].at = "reserved"
     /\ Candidates(len) # {}
     /\ heap' = HeapAllocate(len, allocator[s].owner)
     /\ code' = [code EXCEPT ![c].at = "writable", ![c].off = FirstFit(len).off,
                             ![c].epoch = allocator[s].epoch]
     /\ allocator' = [allocator EXCEPT ![s].locked = FALSE]
     /\ UNCHANGED failed

(* allocate, when the heap is full or the mapping fails: the reservation is
   dropped with the error, and native installation is off. *)
MapFails(c) ==
  LET s == code[c].state
  IN /\ code[c].at = "reserved"
     /\ code' = [code EXCEPT ![c] = NoCode]
     /\ allocator' = [allocator EXCEPT ![s] =
                       [Disabled(allocator[s]) EXCEPT
                         !.locked = FALSE, !.reserved = allocator[s].reserved - code[c].len]]
     /\ failed' = failed \cup {s}
     /\ UNCHANGED heap

-----------------------------------------------------------------------------
(* Publication and release *)

(* WritableCode::publish, under the lock. *)
Publish(c) ==
  LET s == code[c].state
  IN /\ code[c].at = "writable"
     /\ ~allocator[s].locked
     /\ allocator[s].enabled
     /\ allocator[s].epoch = code[c].epoch
     /\ code' = [code EXCEPT ![c].at = "executable", ![c].pins = 1]
     /\ UNCHANGED <<allocator, heap, failed>>

(* publish, when native installation was turned off since the allocation. *)
PublishRefused(c) ==
  LET s == code[c].state
  IN /\ code[c].at = "writable"
     /\ ~allocator[s].locked
     /\ ~allocator[s].enabled \/ allocator[s].epoch # code[c].epoch
     /\ code' = [code EXCEPT ![c].at = "dropped"]
     /\ UNCHANGED <<allocator, heap, failed>>

(* A failed publication that is only reported. *)
PublishFailsOnly(c) ==
  LET s == code[c].state
  IN /\ code[c].at = "writable"
     /\ ~allocator[s].locked
     /\ allocator[s].enabled
     /\ allocator[s].epoch = code[c].epoch
     /\ code' = [code EXCEPT ![c].at = "dropped"]
     /\ failed' = failed \cup {s}
     /\ UNCHANGED <<allocator, heap>>

(* publish, when the bytes cannot be written, protected or registered. *)
PublishFails(c) ==
  LET s == code[c].state
  IN /\ code[c].at = "writable"
     /\ ~allocator[s].locked
     /\ allocator[s].enabled
     /\ allocator[s].epoch = code[c].epoch
     /\ code' = [code EXCEPT ![c].at = "dropped"]
     /\ allocator' = [allocator EXCEPT ![s] = Disabled(@)]
     /\ failed' = failed \cup {s}
     /\ UNCHANGED heap

(* Code that is never published is dropped. *)
DropWritable(c) ==
  /\ code[c].at = "writable"
  /\ code' = [code EXCEPT ![c].at = "dropped"]
  /\ UNCHANGED <<allocator, heap, failed>>

(* ExecutableCode::clone, entry and the pin of call0_i32. *)
PinCode(c) ==
  /\ code[c].at = "executable"
  /\ code[c].pins < MaxClones
  /\ code' = [code EXCEPT ![c].pins = @ + 1]
  /\ UNCHANGED <<allocator, heap, failed>>

(* A drop that gives the code up although clones are left. *)
UnpinCodeEagerly(c) ==
  /\ code[c].at = "executable"
  /\ code' = [code EXCEPT ![c].pins = @ - 1, ![c].at = "dropped"]
  /\ UNCHANGED <<allocator, heap, failed>>

(* A clone is dropped; the last one drops the allocation. *)
UnpinCode(c) ==
  /\ code[c].at = "executable"
  /\ code' = [code EXCEPT ![c].pins = @ - 1,
                          ![c].at = IF code[c].pins = 1 THEN "dropped" ELSE @]
  /\ UNCHANGED <<allocator, heap, failed>>

Unmapped(c) == HeapRelease(code[c].off, code[c].len, allocator[code[c].state].owner)

Unreserved(c) == [allocator EXCEPT ![code[c].state].reserved = @ - code[c].len]

(* The mapping is the first field of both structures, so it is dropped first:
   Drop for Mapping. *)
DropMapping(c) ==
  /\ code[c].at = "dropped"
  /\ code' = [code EXCEPT ![c].at = "unmapped"]
  /\ heap' = Unmapped(c)
  /\ UNCHANGED <<allocator, failed>>

(* Drop for Reservation. *)
DropReservation(c) ==
  /\ code[c].at = "unmapped"
  /\ code' = [code EXCEPT ![c] = NoCode]
  /\ allocator' = Unreserved(c)
  /\ UNCHANGED <<heap, failed>>

MemoryNext ==
  \/ \E o \in Owner, limit \in Limits : NewRegistered(o, limit)
  \/ \E s \in 1 .. States :
       \/ DropAllocator(s)
       \/ PageSizeFails(s)
       \/ \E c \in Code, len \in Lens : Reserve(c, s, len)
  \/ \E c \in Code :
       \/ Map(c) \/ MapFails(c)
       \/ Publish(c) \/ PublishRefused(c) \/ PublishFails(c)
       \/ DropWritable(c) \/ PinCode(c) \/ UnpinCode(c)
       \/ DropMapping(c) \/ DropReservation(c)

MemorySpec == MemoryInit /\ [][MemoryNext]_memoryVars

-----------------------------------------------------------------------------
(* Properties *)

Phase == {"none", "reserved", "writable", "executable", "dropped", "unmapped"}

IsMapped(c) == code[c].at \in {"writable", "executable", "dropped"}

Disjoint(q, r) == q.off + q.len <= r.off \/ r.off + r.len <= q.off

Contains(r, page) == r.off <= page /\ page < r.off + r.len

(* Every page of the heap is in exactly one range, free or allocated, whatever
   the order in which ranges of different lengths are given back; two free
   ranges never touch, so a request fails only when no run of free pages is
   long enough (ProcessHeap::release joins a range with both neighbours). *)
HeapIsPartition ==
  /\ \A q, r \in heap.free : q = r \/ Disjoint(q, r)
  /\ \A q, r \in heap.allocations : q = r \/ Disjoint(q, r)
  /\ \A q \in heap.free, r \in heap.allocations : Disjoint(q, r)
  /\ \A page \in 0 .. HeapPages - 1 :
       \E r \in heap.free \cup heap.allocations : Contains(r, page)
  /\ \A r \in heap.free \cup heap.allocations : r.off + r.len <= HeapPages
  /\ \A q, r \in heap.free : q.off + q.len # r.off

(* The pages of every piece of code that is still mapped are its own: the heap
   records them for its owner and for nothing else, so publishing one function
   never writes over another and a clone that is still pinned stays mapped
   (Mapping, its Drop, and the Arc of ExecutableAllocation). *)
CodeOwnsItsPages ==
  /\ \A c \in Code :
       IsMapped(c) =>
         [off |-> code[c].off, len |-> code[c].len,
          owner |-> allocator[code[c].state].owner] \in heap.allocations
  /\ \A c, d \in Code : c # d /\ IsMapped(c) /\ IsMapped(d) => code[c].off # code[d].off
  /\ \A r \in heap.allocations : \E c \in Code : IsMapped(c) /\ code[c].off = r.off
  /\ \A c \in Code : (code[c].pins > 0) = (code[c].at = "executable")

(* Code that can be written or executed never shares a page: the heap is    *)
(* partitioned, and every mapping is one range of it.                       *)
MappedCodeIsApart == HeapIsPartition /\ CodeOwnsItsPages

(* The pages the allocations in S ask for. *)
PagesOf(f, S) == SumFunctionOnSet([c \in Code |-> f[c].len], S)

CodeOf(f, s) == {c \in Code : f[c].state = s}

(* A runtime never has more pages mapped than the quota it was created with,
   through all the allocators ever made for it: a new one is handed the state
   of the old while any code of that runtime is left, and the quota of an
   allocation is given back only after its pages (new_registered, and the order
   of the fields of WritableCode and ExecutableAllocation). *)
QuotaBoundsMappedPages ==
  /\ \A s \in DOMAIN allocator :
       allocator[s].reserved = PagesOf(code, CodeOf(code, s))
  /\ \A o \in Owner :
       LET mapped == {c \in Code : IsMapped(c) /\ allocator[code[c].state].owner = o}
       IN mapped # {} => \E s \in LiveOf(o) : PagesOf(code, mapped) <= allocator[s].limit

(* Once the operating system has refused a runtime anything, no memory of that
   runtime becomes writable or executable again while anything refers to the
   allocator that failed: not what another thread allocated before the failure
   and publishes after it, and not what is allocated through a new handle (each
   error path of allocate and publish calls disable_native; new_registered hands
   the failed state out again). *)
FailureEndsInstallation ==
  [][\A c \in Code :
       code'[c].at # code[c].at /\ code'[c].at \in {"writable", "executable"} =>
         LiveOf(allocator[code[c].state].owner) \cap failed = {}]_memoryVars
=============================================================================
