---------------------- MODULE BackgroundCompilerProofs ----------------------
(***************************************************************************)
(* The places a request can be in, for any requests, workers, channel      *)
(* capacities and limits.                                                  *)
(*                                                                         *)
(* The places partition the requests (PlacesInv), and each step moves      *)
(* requests from one place to another.  Two facts make this inductive: who *)
(* has a request in hand is told by its program counter, and a worker that *)
(* only has its usage left to release holds a request that already is with *)
(* the runtime thread again.                                               *)
(***************************************************************************)
EXTENDS BackgroundCompiler, TLAPS

------------------------------------------------------------------------------
(* Sequences without repetitions and their elements. *)

(* The elements of a sequence with one appended. *)
LEMMA AppendedElements ==
  ASSUME NEW T, NEW s \in Seq(T), NEW e \in T
  PROVE  /\ Append(s, e) \in Seq(T)
         /\ Elements(Append(s, e)) = Elements(s) \cup {e}
         /\ IsInjective(s) /\ e \notin Elements(s) => IsInjective(Append(s, e))
<1> DEFINE r == Append(s, e)
<1>1. /\ r \in Seq(T) /\ Len(s) \in Nat /\ DOMAIN s = 1 .. Len(s)
      /\ DOMAIN r = 1 .. Len(s) + 1 /\ r[Len(s) + 1] = e
      /\ \A i \in 1 .. Len(s) : r[i] = s[i]
  OBVIOUS
<1> HIDE DEF r
<1>2. Elements(r) = Elements(s) \cup {e}
  <2>1. ASSUME NEW x \in Elements(r)  PROVE x \in Elements(s) \cup {e}
    <3>1. PICK i \in 1 .. Len(s) + 1 : r[i] = x
      BY <1>1 DEF Elements
    <3>2. CASE i = Len(s) + 1
      BY <1>1, <3>1, <3>2
    <3>3. CASE i \in 1 .. Len(s)
      BY <1>1, <3>1, <3>3 DEF Elements
    <3> QED  BY <1>1, <3>2, <3>3
  <2>2. ASSUME NEW x \in Elements(s)  PROVE x \in Elements(r)
    <3>1. PICK i \in 1 .. Len(s) : s[i] = x
      BY <1>1 DEF Elements
    <3>2. i \in 1 .. Len(s) + 1 /\ r[i] = x
      BY <1>1, <3>1
    <3> QED  BY <1>1, <3>2 DEF Elements
  <2>3. e \in Elements(r)
    <3>1. Len(s) + 1 \in 1 .. Len(s) + 1
      BY <1>1
    <3> QED  BY <1>1, <3>1 DEF Elements
  <2> QED  BY <2>1, <2>2, <2>3
<1>3. ASSUME IsInjective(s), e \notin Elements(s), NEW i \in DOMAIN r, NEW j \in DOMAIN r, r[i] = r[j]
      PROVE  i = j
  <2>1. \A k \in 1 .. Len(s) : r[k] # e
    BY <1>1, <1>3 DEF Elements
  <2>2. \A k \in 1 .. Len(s) + 1 : k = Len(s) + 1 \/ k \in 1 .. Len(s)
    BY <1>1
  <2> QED  BY <1>1, <1>3, <2>1, <2>2 DEF IsInjective
<1> QED  BY <1>1, <1>2, <1>3 DEF r, IsInjective

(* What is left of an indexed family without its first n members. *)
LEMMA SuffixElements ==
  ASSUME NEW s, NEW r, NEW m \in Nat, NEW n \in 0 .. m, IsInjective(s),
         DOMAIN s = 1 .. m, DOMAIN r = 1 .. m - n,
         \A i \in 1 .. m - n : r[i] = s[i + n]
  PROVE  /\ {s[i] : i \in 1 .. n} \subseteq Elements(s)
         /\ Elements(r) = Elements(s) \ {s[i] : i \in 1 .. n}
         /\ IsInjective(r)
<1>1. ASSUME NEW e \in Elements(r)
      PROVE  e \in Elements(s) \ {s[i] : i \in 1 .. n}
  <2>1. PICK i \in 1 .. m - n : r[i] = e
    BY DEF Elements
  <2>2. i + n \in 1 .. m /\ i + n \notin 1 .. n /\ s[i + n] = e
    BY <2>1
  <2>3. \A j \in 1 .. n : j \in 1 .. m
    OBVIOUS
  <2> QED  BY <2>2, <2>3 DEF Elements, IsInjective
<1>2. ASSUME NEW e \in Elements(s) \ {s[i] : i \in 1 .. n}
      PROVE  e \in Elements(r)
  <2>1. PICK i \in 1 .. m : s[i] = e
    BY DEF Elements
  <2>2. i \notin 1 .. n
    BY <2>1
  <2>3. i - n \in 1 .. m - n /\ (i - n) + n = i
    BY <2>2
  <2>4. r[i - n] = e
    BY <2>1, <2>3
  <2> QED  BY <2>3, <2>4 DEF Elements
<1>3. IsInjective(r)
  <2> SUFFICES ASSUME NEW i \in 1 .. m - n, NEW j \in 1 .. m - n, r[i] = r[j]  PROVE i = j
    BY DEF IsInjective
  <2>1. i + n \in 1 .. m /\ j + n \in 1 .. m /\ s[i + n] = s[j + n]
    OBVIOUS
  <2>2. i + n = j + n
    BY <2>1 DEF IsInjective
  <2> QED  BY <2>2
<1>4. {s[i] : i \in 1 .. n} \subseteq Elements(s)
  BY DEF Elements
<1> QED  BY <1>1, <1>2, <1>3, <1>4

(* A sequence is its head and its tail. *)
LEMMA HeadAndTail ==
  ASSUME NEW T, NEW s \in Seq(T), s # <<>>, IsInjective(s)
  PROVE  /\ Head(s) \in Elements(s) /\ Head(s) \in T
         /\ Tail(s) \in Seq(T)
         /\ Elements(Tail(s)) = Elements(s) \ {Head(s)}
         /\ IsInjective(Tail(s))
<1>1. /\ Len(s) \in Nat /\ 1 \in 0 .. Len(s) /\ Head(s) = s[1] /\ DOMAIN s = 1 .. Len(s)
      /\ Tail(s) \in Seq(T) /\ DOMAIN Tail(s) = 1 .. Len(s) - 1 /\ Head(s) \in T
      /\ \A i \in 1 .. Len(s) - 1 : Tail(s)[i] = s[i + 1]
  OBVIOUS
<1>2. /\ {s[i] : i \in 1 .. 1} \subseteq Elements(s)
      /\ Elements(Tail(s)) = Elements(s) \ {s[i] : i \in 1 .. 1}
      /\ IsInjective(Tail(s))
  BY <1>1, SuffixElements
<1>3. {s[i] : i \in 1 .. 1} = {Head(s)}
  BY <1>1
<1> QED  BY <1>1, <1>2, <1>3

(* Taking the first n elements off. *)
LEMMA DrainedElements ==
  ASSUME NEW T, NEW s \in Seq(T), IsInjective(s), NEW n \in 0 .. Len(s)
  PROVE  /\ SubSeq(s, n + 1, Len(s)) \in Seq(T)
         /\ Len(SubSeq(s, n + 1, Len(s))) = Len(s) - n
         /\ {s[i] : i \in 1 .. n} \subseteq Elements(s)
         /\ Elements(SubSeq(s, n + 1, Len(s))) = Elements(s) \ {s[i] : i \in 1 .. n}
         /\ IsInjective(SubSeq(s, n + 1, Len(s)))
<1> DEFINE r == SubSeq(s, n + 1, Len(s))
<1>1. /\ r \in Seq(T) /\ Len(r) = Len(s) - n /\ Len(s) \in Nat
      /\ DOMAIN r = 1 .. Len(s) - n /\ DOMAIN s = 1 .. Len(s)
      /\ \A i \in 1 .. Len(s) - n : r[i] = s[i + n]
  OBVIOUS
<1> HIDE DEF r
<1>2. /\ {s[i] : i \in 1 .. n} \subseteq Elements(s)
      /\ Elements(r) = Elements(s) \ {s[i] : i \in 1 .. n}
      /\ IsInjective(r)
  BY <1>1, SuffixElements
<1> QED  BY <1>1, <1>2 DEF r

(* Putting an element in front. *)
LEMMA FrontedElements ==
  ASSUME NEW T, NEW s \in Seq(T), NEW e \in T
  PROVE  /\ <<e>> \o s \in Seq(T)
         /\ Elements(<<e>> \o s) = Elements(s) \cup {e}
         /\ IsInjective(s) /\ e \notin Elements(s) => IsInjective(<<e>> \o s)
<1> DEFINE r == <<e>> \o s
<1>1. /\ r \in Seq(T) /\ Len(s) \in Nat /\ DOMAIN s = 1 .. Len(s)
      /\ DOMAIN r = 1 .. Len(s) + 1 /\ r[1] = e
      /\ \A i \in 2 .. Len(s) + 1 : r[i] = s[i - 1]
  OBVIOUS
<1>2. /\ \A i \in 1 .. Len(s) : i + 1 \in 1 .. Len(s) + 1 /\ r[i + 1] = s[i]
      /\ \A i \in 1 .. Len(s) + 1 : i = 1 \/ (i - 1 \in 1 .. Len(s) /\ r[i] = s[i - 1])
      /\ 1 \in 1 .. Len(s) + 1
  BY <1>1
<1> HIDE DEF r
<1>3. Elements(r) = Elements(s) \cup {e}
  <2>1. ASSUME NEW x \in Elements(r)  PROVE x \in Elements(s) \cup {e}
    BY <1>1, <1>2 DEF Elements
  <2>2. ASSUME NEW x \in Elements(s)  PROVE x \in Elements(r)
    <3>1. PICK i \in 1 .. Len(s) : s[i] = x
      BY <1>1 DEF Elements
    <3>2. i + 1 \in DOMAIN r /\ r[i + 1] = x
      BY <1>1, <1>2, <3>1
    <3> QED  BY <3>2 DEF Elements
  <2>3. e \in Elements(r)
    BY <1>1, <1>2 DEF Elements
  <2> QED  BY <2>1, <2>2, <2>3
<1>4. ASSUME IsInjective(s), e \notin Elements(s), NEW i \in DOMAIN r, NEW j \in DOMAIN r, r[i] = r[j]
      PROVE  i = j
  <2>1. \A k \in 1 .. Len(s) + 1 : k # 1 => r[k] # e
    BY <1>1, <1>2, <1>4, SMTT(30) DEF Elements
  <2>2. CASE i = 1 \/ j = 1
    BY <1>1, <1>4, <2>1, <2>2
  <2>3. CASE i # 1 /\ j # 1
    <3>1. i - 1 \in DOMAIN s /\ j - 1 \in DOMAIN s /\ s[i - 1] = s[j - 1]
      BY <1>1, <1>2, <1>4, <2>3
    <3>2. i - 1 = j - 1
      BY <1>4, <3>1 DEF IsInjective
    <3> QED  BY <1>1, <1>4, <3>2
  <2> QED  BY <2>2, <2>3
<1> QED  BY <1>1, <1>3, <1>4 DEF r, IsInjective

(* The smaller of two naturals. *)
LEMMA MinOfTwo ==
  ASSUME NEW m \in Nat, NEW n \in Nat
  PROVE  Min({m, n}) \in Nat /\ Min({m, n}) <= m /\ Min({m, n}) <= n
<1>1. \E x \in {m, n} : \A y \in {m, n} : x <= y
  <2>1. CASE m <= n
    BY <2>1
  <2>2. CASE n <= m
    BY <2>2
  <2> QED  BY <2>1, <2>2
<1>2. Min({m, n}) \in {m, n} /\ \A y \in {m, n} : Min({m, n}) <= y
  BY <1>1 DEF Min
<1> QED  BY <1>2

------------------------------------------------------------------------------
(* A request is in one place. *)

(* The sets have no element in common and are all of the requests. *)
IsPartition(fr, de, ha, qu, ch, co, ov, ca) ==
  /\ fr \cup de \cup ha \cup qu \cup ch \cup co \cup ov \cup ca = Job
  /\ \A j \in Job :
       /\ j \in fr => j \notin de /\ j \notin ha /\ j \notin qu /\ j \notin ch
                      /\ j \notin co /\ j \notin ov /\ j \notin ca
       /\ j \in de => j \notin ha /\ j \notin qu /\ j \notin ch
                      /\ j \notin co /\ j \notin ov /\ j \notin ca
       /\ j \in ha => j \notin qu /\ j \notin ch /\ j \notin co /\ j \notin ov /\ j \notin ca
       /\ j \in qu => j \notin ch /\ j \notin co /\ j \notin ov /\ j \notin ca
       /\ j \in ch => j \notin co /\ j \notin ov /\ j \notin ca
       /\ j \in co => j \notin ov /\ j \notin ca
       /\ j \in ov => j \notin ca

Partition ==
  IsPartition(fresh, decided, InHand, Elements(queue), Elements(channel),
              Elements(completions), Elements(overflow), Carried)

(* Who has a request in hand.  Workers do nothing before they are started,  *)
(* and a worker keeps its request until its bytes are released.             *)
HandsInv ==
  /\ runtime.job \in Job <=> runtime.pc \in {"start", "admit", "send"}
  /\ \A w \in Worker : worker[w].job \in Job <=> worker[w].pc \notin {"idle", "exited"}
  /\ ~started => \A w \in Worker : worker[w].pc = "idle"

(* A worker here has delivered its completion. *)
Released == {"release", "release_snapshots", "release_ir"}

PlacesInv ==
  /\ PlacesTypeOK
  /\ HandsInv
  /\ IsInjective(queue) /\ IsInjective(channel)
  /\ IsInjective(completions) /\ IsInjective(overflow)
  /\ Partition
  /\ \A v, w \in Worker : worker[v].job \in Job /\ worker[v].job = worker[w].job => v = w
  /\ \A w \in Worker : worker[w].pc \in Released =>
       worker[w].job \in decided \cup Elements(completions) \cup Elements(overflow)

(* A request, or several completions, may move from one place to another. *)
LEMMA MovesKeepPartition ==
  ASSUME NEW fr, NEW de, NEW ha, NEW qu, NEW ch, NEW co, NEW ov, NEW ca,
         IsPartition(fr, de, ha, qu, ch, co, ov, ca)
  PROVE  /\ \A j \in fr : IsPartition(fr \ {j}, de, ha, qu \cup {j}, ch, co, ov, ca)
         /\ \A j \in qu : IsPartition(fr, de, ha \cup {j}, qu \ {j}, ch, co, ov, ca)
         /\ \A j \in ha : IsPartition(fr, de, ha \ {j}, qu \cup {j}, ch, co, ov, ca)
         /\ \A j \in ha : IsPartition(fr, de, ha \ {j}, qu, ch \cup {j}, co, ov, ca)
         /\ \A S \in SUBSET co : IsPartition(fr, de \cup S, ha, qu, ch, co \ S, ov, ca)
         /\ \A S \in SUBSET ov : IsPartition(fr, de \cup S, ha, qu, ch, co, ov \ S, ca)
         /\ \A j \in ch : IsPartition(fr, de, ha, qu, ch \ {j}, co, ov, ca \cup {j})
         /\ \A j \in ca : IsPartition(fr, de, ha, qu, ch, co \cup {j}, ov, ca \ {j})
         /\ \A j \in ca : IsPartition(fr, de, ha, qu, ch, co, ov \cup {j}, ca \ {j})
<1>1. \A j \in fr : IsPartition(fr \ {j}, de, ha, qu \cup {j}, ch, co, ov, ca)
  BY DEF IsPartition
<1>2. \A j \in qu : IsPartition(fr, de, ha \cup {j}, qu \ {j}, ch, co, ov, ca)
  BY DEF IsPartition
<1>3. \A j \in ha : IsPartition(fr, de, ha \ {j}, qu \cup {j}, ch, co, ov, ca)
  BY DEF IsPartition
<1>4. \A j \in ha : IsPartition(fr, de, ha \ {j}, qu, ch \cup {j}, co, ov, ca)
  BY DEF IsPartition
<1>5. \A S \in SUBSET co : IsPartition(fr, de \cup S, ha, qu, ch, co \ S, ov, ca)
  BY DEF IsPartition
<1>6. \A S \in SUBSET ov : IsPartition(fr, de \cup S, ha, qu, ch, co, ov \ S, ca)
  BY DEF IsPartition
<1>7. \A j \in ch : IsPartition(fr, de, ha, qu, ch \ {j}, co, ov, ca \cup {j})
  BY DEF IsPartition
<1>8. \A j \in ca : IsPartition(fr, de, ha, qu, ch, co \cup {j}, ov, ca \ {j})
  BY DEF IsPartition
<1>9. \A j \in ca : IsPartition(fr, de, ha, qu, ch, co, ov \cup {j}, ca \ {j})
  BY DEF IsPartition
<1> QED  BY <1>1, <1>2, <1>3, <1>4, <1>5, <1>6, <1>7, <1>8, <1>9

LEMMA PlacesStart == Init => PlacesInv
<1> SUFFICES ASSUME Init PROVE PlacesInv
  OBVIOUS
<1>1. PlacesTypeOK
  <2>1. runtime \in RuntimeState
    BY DEF Init, At, RuntimeState
  <2>2. worker \in [Worker -> WorkerState]
    BY DEF Init, At, WorkerState
  <2>3. /\ fresh \subseteq Job /\ decided \subseteq Job /\ bodies \subseteq Job
        /\ queue \in Seq(Job) /\ channel \in Seq(Job)
        /\ completions \in Seq(Job) /\ overflow \in Seq(Job)
        /\ pending \in Nat /\ reclaimable \in Nat
    BY WorkerAssumption DEF Init
  <2>4. sender \in BOOLEAN /\ started \in BOOLEAN
    BY DEF Init
  <2> QED  BY <2>1, <2>2, <2>3, <2>4, Zenon DEF PlacesTypeOK
<1>2. HandsInv
  BY WorkerAssumption DEF Init, HandsInv, At
<1>3. /\ IsInjective(queue) /\ IsInjective(channel)
      /\ IsInjective(completions) /\ IsInjective(overflow)
  BY DEF Init, IsInjective
<1>4. /\ Elements(queue) = {} /\ Elements(channel) = {}
      /\ Elements(completions) = {} /\ Elements(overflow) = {}
  BY DEF Init, Elements
<1>5. /\ InHand = {} /\ Carried = {}
      /\ \A w \in Worker : worker[w].pc = "idle" /\ worker[w].job \notin Job
  BY WorkerAssumption DEF Init, InHand, Carried, At
<1>6. Partition
  BY <1>4, <1>5 DEF Partition, IsPartition, Init
<1> QED  BY <1>1, <1>2, <1>3, <1>5, <1>6 DEF PlacesInv, Released

(* The places after a step that leaves the workers alone. *)
LEMMA PlacesKept ==
  ASSUME PlacesInv, PlacesTypeOK', HandsInv', UNCHANGED worker, Partition',
         IsInjective(queue'), IsInjective(channel'),
         IsInjective(completions'), IsInjective(overflow'),
         decided \cup Elements(completions) \cup Elements(overflow)
           \subseteq decided' \cup Elements(completions') \cup Elements(overflow')
  PROVE  PlacesInv'
BY DEF PlacesInv

(* What the provers need of PlacesInv, conjunct by conjunct. *)
LEMMA PlacesFacts ==
  ASSUME PlacesInv
  PROVE  /\ queue \in Seq(Job) /\ IsInjective(queue)
         /\ channel \in Seq(Job) /\ IsInjective(channel)
         /\ completions \in Seq(Job) /\ IsInjective(completions)
         /\ overflow \in Seq(Job) /\ IsInjective(overflow)
         /\ pending \in Nat /\ reclaimable \in Nat
         /\ IsPartition(fresh, decided, InHand, Elements(queue), Elements(channel),
                        Elements(completions), Elements(overflow), Carried)
<1>1. PlacesTypeOK /\ Partition /\ IsInjective(queue) /\ IsInjective(channel)
      /\ IsInjective(completions) /\ IsInjective(overflow)
  BY DEF PlacesInv
<1> QED  BY <1>1, Zenon DEF PlacesTypeOK, Partition

(* The request in the runtime thread's hand is the one it was given. *)
LEMMA HandFacts ==
  ASSUME PlacesInv
  PROVE  /\ runtime.job \in Job => InHand = {runtime.job}
         /\ runtime.job \notin Job => InHand = {}
         /\ runtime.pc \in {"start", "admit", "send"} <=> runtime.job \in Job
         /\ runtime.pc \in {"start", "admit", "send"} => runtime.job \notin Elements(queue)
         /\ runtime.pc \in {"start", "admit", "send"} => runtime.job \notin Elements(channel)
<1>1. runtime.job \in Job => InHand = {runtime.job}
  BY DEF InHand
<1>2. runtime.job \notin Job => InHand = {}
  BY DEF InHand
<1>3. runtime.pc \in {"start", "admit", "send"} <=> runtime.job \in Job
  BY DEF PlacesInv, HandsInv
<1>4. \A j \in InHand : j \notin Elements(queue) /\ j \notin Elements(channel)
  BY DEF PlacesInv, Partition, IsPartition, InHand
<1> QED  BY <1>1, <1>2, <1>3, <1>4

(* What draining the overflow list does. *)
LEMMA OverflowDrained ==
  ASSUME PlacesInv, NEW budget \in Nat, DrainOverflow(budget)
  PROVE  \E S \in SUBSET Elements(overflow) :
           /\ overflow' \in Seq(Job) /\ IsInjective(overflow')
           /\ Elements(overflow') = Elements(overflow) \ S
           /\ decided' = decided \cup S
<1> DEFINE n == Min({budget, Len(overflow)})
<1>1. overflow \in Seq(Job) /\ IsInjective(overflow) /\ Len(overflow) \in Nat
  BY PlacesFacts
<1>2. n \in 0 .. Len(overflow)
  BY <1>1, MinOfTwo
<1>3. /\ overflow' = SubSeq(overflow, n + 1, Len(overflow))
      /\ decided' = decided \cup {overflow[i] : i \in 1 .. n}
  BY DEF DrainOverflow
<1> HIDE DEF n
<1>4. /\ overflow' \in Seq(Job) /\ IsInjective(overflow')
      /\ {overflow[i] : i \in 1 .. n} \subseteq Elements(overflow)
      /\ Elements(overflow') = Elements(overflow) \ {overflow[i] : i \in 1 .. n}
  <2> DEFINE r == SubSeq(overflow, n + 1, Len(overflow))
  <2>1. /\ r \in Seq(Job) /\ IsInjective(r)
        /\ {overflow[i] : i \in 1 .. n} \subseteq Elements(overflow)
        /\ Elements(r) = Elements(overflow) \ {overflow[i] : i \in 1 .. n}
    BY <1>1, <1>2, DrainedElements, Zenon
  <2>2. overflow' = r
    BY <1>3
  <2> HIDE DEF r
  <2> QED  BY <2>1, <2>2, Zenon
<1> QED  BY <1>3, <1>4

(* Each action moves a request from one place to another, or leaves all of
   them. *)
LEMMA SubmitKeepsPlaces ==
  ASSUME PlacesInv, NEW j \in Job, Submit(j)
  PROVE  PlacesInv'
<1>1. /\ queue \in Seq(Job) /\ j \notin Elements(queue) /\ IsInjective(queue)
  BY DEF PlacesInv, PlacesTypeOK, Submit, Partition, IsPartition
<1>2. /\ queue' \in Seq(Job) /\ Elements(queue') = Elements(queue) \cup {j} /\ IsInjective(queue')
  <2>1. queue' = Append(queue, j) \/ queue' = <<j>> \o queue
    BY DEF Submit
  <2>2. CASE queue' = Append(queue, j)
    BY <1>1, <2>2, AppendedElements
  <2>3. CASE queue' = <<j>> \o queue
    BY <1>1, <2>3, FrontedElements
  <2> QED  BY <2>1, <2>2, <2>3
<1>3. /\ UNCHANGED <<decided, runtime, channel, completions, overflow, worker>>
      /\ fresh' = fresh \ {j} /\ j \in fresh
  BY DEF Submit, mailVars
<1>4. PlacesTypeOK'
  BY <1>2, <1>3 DEF PlacesInv, PlacesTypeOK, Submit, mailVars
<1>5. HandsInv'
  BY <1>3 DEF PlacesInv, HandsInv, Submit
<1>6. Partition'
  <2>1. InHand' = InHand /\ Carried' = Carried
    BY <1>3 DEF InHand, Carried
  <2>2. IsPartition(fresh \ {j}, decided, InHand, Elements(queue) \cup {j}, Elements(channel),
                    Elements(completions), Elements(overflow), Carried)
    BY <1>3, MovesKeepPartition DEF PlacesInv, Partition
  <2> QED  BY <1>2, <1>3, <2>1, <2>2 DEF Partition
<1> QED  BY <1>2, <1>3, <1>4, <1>5, <1>6 DEF PlacesInv

LEMMA DispatchKeepsPlaces ==
  ASSUME PlacesInv, DispatchNext
  PROVE  PlacesInv'
<1>1. PICK S \in SUBSET Elements(overflow) :
           /\ overflow' \in Seq(Job) /\ IsInjective(overflow')
           /\ Elements(overflow') = Elements(overflow) \ S
           /\ decided' = decided \cup S
  BY OverflowDrained, WorkerAssumption DEF DispatchNext
<1>2. /\ UNCHANGED <<fresh, pending, completions, sender, started, channel, worker, bodies,
                     reclaimable>>
      /\ runtime.pc = "idle"
  BY DEF DispatchNext, IsIdle
<1>3. InHand = {} /\ Carried' = Carried
  BY <1>2, HandFacts DEF Carried
<1>4. IsPartition(fresh, decided', InHand, Elements(queue), Elements(channel),
                  Elements(completions), Elements(overflow'), Carried)
  <2>1. \A T \in SUBSET Elements(overflow) :
          IsPartition(fresh, decided \cup T, InHand, Elements(queue), Elements(channel),
                      Elements(completions), Elements(overflow) \ T, Carried)
    BY PlacesFacts, MovesKeepPartition
  <2> QED  BY <1>1, <2>1
<1>5. decided' \subseteq Job
  BY <1>4 DEF IsPartition
<1>6. CASE queue' = queue /\ runtime' = runtime
  <2>1. PlacesTypeOK' /\ HandsInv'
    BY <1>1, <1>2, <1>5, <1>6 DEF PlacesInv, PlacesTypeOK, HandsInv
  <2>2. Partition'
    BY <1>2, <1>3, <1>4, <1>6 DEF Partition, InHand
  <2> QED  BY <1>1, <1>2, <1>6, <2>1, <2>2, PlacesKept DEF PlacesInv
<1>7. CASE queue # <<>> /\ queue' = Tail(queue) /\ runtime' = At("start", Head(queue))
  <2>1. /\ Head(queue) \in Elements(queue) /\ Head(queue) \in Job
        /\ queue' \in Seq(Job) /\ IsInjective(queue')
        /\ Elements(queue') = Elements(queue) \ {Head(queue)}
    BY <1>7, HeadAndTail DEF PlacesInv, PlacesTypeOK
  <2>2. /\ runtime' \in RuntimeState /\ runtime'.job = Head(queue) /\ runtime'.pc = "start"
        /\ InHand' = {Head(queue)}
    BY <1>7, <2>1 DEF At, RuntimeState, InHand
  <2>3. PlacesTypeOK'
    BY <1>1, <1>2, <1>5, <2>1, <2>2 DEF PlacesInv, PlacesTypeOK
  <2>4. HandsInv'
    BY <1>2, <2>1, <2>2 DEF PlacesInv, HandsInv
  <2>5. IsPartition(fresh, decided', InHand \cup {Head(queue)}, Elements(queue) \ {Head(queue)},
                    Elements(channel), Elements(completions), Elements(overflow'), Carried)
    BY <1>4, <2>1, MovesKeepPartition
  <2>6. InHand \cup {Head(queue)} = InHand'
    BY <1>3, <2>2
  <2>7. Partition'
    BY <1>2, <1>3, <2>1, <2>5, <2>6 DEF Partition
  <2> QED  BY <1>1, <1>2, <2>1, <2>3, <2>4, <2>7, PlacesKept DEF PlacesInv
<1> QED  BY <1>6, <1>7 DEF DispatchNext

LEMMA StartWorkersKeepsPlaces ==
  ASSUME PlacesInv, StartWorkers
  PROVE  PlacesInv'
<1>1. /\ UNCHANGED <<fresh, queue, decided, pending, completions, overflow, sender, channel, worker,
                     bodies, reclaimable>>
      /\ started' = TRUE /\ runtime.pc = "start" /\ runtime' = At("admit", runtime.job)
  BY DEF StartWorkers, mailVars
<1>2. runtime.job \in Job
  BY <1>1, HandFacts
<1>3. runtime' \in RuntimeState /\ runtime'.job = runtime.job /\ runtime'.pc = "admit"
  BY <1>1, <1>2 DEF At, RuntimeState
<1>4. PlacesTypeOK'
  BY <1>1, <1>3 DEF PlacesInv, PlacesTypeOK
<1>5. HandsInv'
  BY <1>1, <1>2, <1>3 DEF PlacesInv, HandsInv
<1>6. Partition'
  BY <1>1, <1>3 DEF PlacesInv, Partition, InHand, Carried
<1> QED  BY <1>1, <1>4, <1>5, <1>6, PlacesKept DEF PlacesInv

(* A rollback puts the request in hand back into the queue. *)
LEMMA RolledBack ==
  ASSUME PlacesInv, runtime.pc \in {"start", "admit", "send"}, Rollback
  PROVE  /\ queue' \in Seq(Job) /\ IsInjective(queue')
         /\ runtime' \in RuntimeState /\ runtime'.pc = "idle" /\ runtime'.job \notin Job
         /\ InHand' = {}
         /\ IsPartition(fresh, decided, InHand', Elements(queue'), Elements(channel),
                        Elements(completions), Elements(overflow), Carried)
<1>1. queue' = <<runtime.job>> \o queue /\ runtime' = At("idle", NoJob)
  BY DEF Rollback
<1>2. runtime.job \in Job /\ InHand = {runtime.job} /\ runtime.job \notin Elements(queue)
  BY HandFacts
<1>3. /\ queue' \in Seq(Job) /\ IsInjective(queue')
      /\ Elements(queue') = Elements(queue) \cup {runtime.job}
  BY <1>1, <1>2, PlacesFacts, FrontedElements
<1>4. /\ runtime' \in RuntimeState /\ runtime'.pc = "idle" /\ runtime'.job \notin Job
      /\ InHand' = {}
  BY <1>1, WorkerAssumption DEF At, RuntimeState, InHand
<1>5. IsPartition(fresh, decided, InHand \ {runtime.job}, Elements(queue) \cup {runtime.job},
                  Elements(channel), Elements(completions), Elements(overflow), Carried)
  BY <1>2, MovesKeepPartition DEF PlacesInv, Partition
<1>6. InHand \ {runtime.job} = InHand'
  BY <1>2, <1>4
<1> QED  BY <1>3, <1>4, <1>5, <1>6

LEMMA StartFailsKeepsPlaces ==
  ASSUME PlacesInv, StartFails
  PROVE  PlacesInv'
<1>1. /\ UNCHANGED <<fresh, decided, pending, completions, overflow, channel, bodies, reclaimable>>
      /\ started' = TRUE /\ sender' = FALSE /\ ~started /\ runtime.pc = "start" /\ Rollback
      /\ worker' = [w \in Worker |-> At("exited", NoJob)]
  BY DEF StartFails, mailVars
<1>2. /\ queue' \in Seq(Job) /\ IsInjective(queue')
      /\ runtime' \in RuntimeState /\ runtime'.pc = "idle" /\ runtime'.job \notin Job
      /\ IsPartition(fresh, decided, InHand', Elements(queue'), Elements(channel),
                     Elements(completions), Elements(overflow), Carried)
  BY <1>1, RolledBack
<1>3. worker' \in [Worker -> WorkerState]
  BY <1>1 DEF At, WorkerState
<1>4. \A w \in Worker : worker'[w].pc = "exited" /\ worker'[w].job \notin Job
  BY <1>1, WorkerAssumption DEF At
<1>5. Carried = {} /\ Carried' = {}
  BY <1>1, <1>4 DEF Carried, PlacesInv, HandsInv
<1>6. PlacesTypeOK'
  BY <1>1, <1>2, <1>3 DEF PlacesInv, PlacesTypeOK
<1>7. HandsInv'
  BY <1>1, <1>2, <1>4 DEF HandsInv
<1>8. Partition'
  BY <1>1, <1>2, <1>5 DEF Partition
<1> QED  BY <1>1, <1>2, <1>4, <1>6, <1>7, <1>8 DEF PlacesInv, Released

LEMMA AdmitKeepsPlaces ==
  ASSUME PlacesInv, Admit
  PROVE  PlacesInv'
<1>1. /\ UNCHANGED <<fresh, decided, pending, completions, overflow, sender, started, channel,
                     worker, reclaimable>>
      /\ runtime.pc = "admit" /\ bodies' \subseteq bodies
  BY DEF Admit, mailVars
<1>2. runtime.job \in Job /\ Carried' = Carried
  BY <1>1, HandFacts DEF Carried
<1>3. CASE queue' = queue /\ runtime' = At("send", runtime.job)
  <2>1. runtime' \in RuntimeState /\ runtime'.job = runtime.job /\ runtime'.pc = "send"
    BY <1>2, <1>3 DEF At, RuntimeState
  <2>2. PlacesTypeOK'
    BY <1>1, <1>3, <2>1 DEF PlacesInv, PlacesTypeOK
  <2>3. HandsInv'
    BY <1>1, <1>2, <2>1 DEF PlacesInv, HandsInv
  <2>4. Partition'
    BY <1>1, <1>2, <1>3, <2>1 DEF PlacesInv, Partition, InHand
  <2> QED  BY <1>1, <1>3, <2>2, <2>3, <2>4, PlacesKept DEF PlacesInv
<1>4. CASE Rollback
  <2>1. /\ queue' \in Seq(Job) /\ IsInjective(queue')
        /\ runtime' \in RuntimeState /\ runtime'.pc = "idle" /\ runtime'.job \notin Job
        /\ IsPartition(fresh, decided, InHand', Elements(queue'), Elements(channel),
                       Elements(completions), Elements(overflow), Carried)
    BY <1>1, <1>4, RolledBack
  <2>2. PlacesTypeOK'
    BY <1>1, <2>1 DEF PlacesInv, PlacesTypeOK
  <2>3. HandsInv'
    BY <1>1, <2>1 DEF PlacesInv, HandsInv
  <2>4. Partition'
    BY <1>1, <1>2, <2>1 DEF Partition
  <2> QED  BY <1>1, <2>1, <2>2, <2>3, <2>4, PlacesKept DEF PlacesInv
<1> QED  BY <1>3, <1>4 DEF Admit

LEMMA SendKeepsPlaces ==
  ASSUME PlacesInv, Send
  PROVE  PlacesInv'
<1>1. /\ UNCHANGED <<fresh, decided, pending, completions, overflow, sender, started, worker,
                     bodies, reclaimable>>
      /\ runtime.pc = "send"
  BY DEF Send, mailVars
<1>2. Carried' = Carried /\ runtime.job \in Job /\ InHand = {runtime.job}
      /\ runtime.job \notin Elements(channel)
  BY <1>1, HandFacts DEF Carried
<1>3. CASE queue' = queue /\ channel' = Append(channel, runtime.job) /\ runtime' = At("idle", NoJob)
  <2>1. /\ channel' \in Seq(Job) /\ IsInjective(channel')
        /\ Elements(channel') = Elements(channel) \cup {runtime.job}
    BY <1>2, <1>3, PlacesFacts, AppendedElements
  <2>2. /\ runtime' \in RuntimeState /\ runtime'.pc = "idle" /\ runtime'.job \notin Job
        /\ InHand' = {}
    BY <1>3, WorkerAssumption DEF At, RuntimeState, InHand
  <2>3. IsPartition(fresh, decided, InHand \ {runtime.job}, Elements(queue),
                    Elements(channel) \cup {runtime.job}, Elements(completions),
                    Elements(overflow), Carried)
    BY <1>2, PlacesFacts, MovesKeepPartition
  <2>4. InHand \ {runtime.job} = InHand'
    BY <1>2, <2>2
  <2>5. Partition'
    BY <1>1, <1>2, <1>3, <2>1, <2>3, <2>4 DEF Partition
  <2>6. PlacesTypeOK'
    BY <1>1, <1>3, <2>1, <2>2 DEF PlacesInv, PlacesTypeOK
  <2>7. HandsInv'
    BY <1>1, <2>2 DEF PlacesInv, HandsInv
  <2> QED  BY <1>1, <1>3, <2>1, <2>5, <2>6, <2>7, PlacesKept, PlacesFacts
<1>4. CASE Rollback /\ channel' = channel
  <2>1. /\ queue' \in Seq(Job) /\ IsInjective(queue')
        /\ runtime' \in RuntimeState /\ runtime'.pc = "idle" /\ runtime'.job \notin Job
        /\ IsPartition(fresh, decided, InHand', Elements(queue'), Elements(channel),
                       Elements(completions), Elements(overflow), Carried)
    BY <1>1, <1>4, RolledBack
  <2>2. PlacesTypeOK'
    BY <1>1, <1>4, <2>1 DEF PlacesInv, PlacesTypeOK
  <2>3. HandsInv'
    BY <1>1, <2>1 DEF PlacesInv, HandsInv
  <2>4. Partition'
    BY <1>1, <1>2, <1>4, <2>1 DEF Partition
  <2> QED  BY <1>1, <1>4, <2>1, <2>2, <2>3, <2>4, PlacesKept, PlacesFacts
<1> QED  BY <1>3, <1>4 DEF Send

(* What draining the completion channel does. *)
LEMMA CompletionsDrained ==
  ASSUME PlacesInv, DrainCompletions
  PROVE  /\ \E S \in SUBSET Elements(completions) :
              /\ completions' \in Seq(Job) /\ IsInjective(completions')
              /\ Elements(completions') = Elements(completions) \ S
              /\ decided' = decided \cup S
         /\ \E n \in 0 .. Len(completions) :
              /\ Len(completions') = Len(completions) - n
              /\ pending' = IF n =< pending THEN pending - n ELSE 0
         /\ reclaimable' \in Nat
         /\ runtime' = runtime \/ (runtime.pc = "drain" /\ runtime' = At("stopped", NoJob))
<1> DEFINE reclaimed == Min({DrainBudget, reclaimable})
           n == Min({DrainBudget - reclaimed, Len(completions)})
<1>1. /\ completions \in Seq(Job) /\ IsInjective(completions) /\ Len(completions) \in Nat
      /\ reclaimable \in Nat /\ DrainBudget \in Nat
  BY PlacesFacts, WorkerAssumption
<1>2. reclaimed \in Nat /\ reclaimed =< DrainBudget /\ reclaimed =< reclaimable
  BY <1>1, MinOfTwo
<1>3. /\ reclaimable' = reclaimable - reclaimed
      /\ completions' = SubSeq(completions, n + 1, Len(completions))
      /\ decided' = decided \cup {completions[i] : i \in 1 .. n}
      /\ pending' = IF n =< pending THEN pending - n ELSE 0
      /\ runtime' = runtime \/ (runtime.pc = "drain" /\ runtime' = At("stopped", NoJob))
  BY DEF DrainCompletions
<1> HIDE DEF reclaimed
<1>4. DrainBudget - reclaimed \in Nat
  BY <1>1, <1>2
<1>5. n \in 0 .. Len(completions)
  BY <1>1, <1>4, MinOfTwo
<1> HIDE DEF n
<1>6. /\ completions' \in Seq(Job) /\ IsInjective(completions')
      /\ Len(completions') = Len(completions) - n
      /\ {completions[i] : i \in 1 .. n} \subseteq Elements(completions)
      /\ Elements(completions') = Elements(completions) \ {completions[i] : i \in 1 .. n}
  <2> DEFINE r == SubSeq(completions, n + 1, Len(completions))
  <2>1. /\ r \in Seq(Job) /\ IsInjective(r) /\ Len(r) = Len(completions) - n
        /\ {completions[i] : i \in 1 .. n} \subseteq Elements(completions)
        /\ Elements(r) = Elements(completions) \ {completions[i] : i \in 1 .. n}
    BY <1>1, <1>5, DrainedElements, Zenon
  <2>2. completions' = r
    BY <1>3
  <2> HIDE DEF r
  <2> QED  BY <2>1, <2>2, Zenon
<1>7. reclaimable' \in Nat
  BY <1>1, <1>2, <1>3
<1>8. \E S \in SUBSET Elements(completions) :
              /\ completions' \in Seq(Job) /\ IsInjective(completions')
              /\ Elements(completions') = Elements(completions) \ S
              /\ decided' = decided \cup S
  BY <1>3, <1>6
<1> QED  BY <1>3, <1>5, <1>6, <1>7, <1>8

LEMMA DrainKeepsPlaces ==
  ASSUME PlacesInv, DrainCompletions,
         UNCHANGED <<fresh, queue, overflow, sender, started, channel, worker, bodies, usage>>
  PROVE  PlacesInv'
<1>1. PICK S \in SUBSET Elements(completions) :
           /\ completions' \in Seq(Job) /\ IsInjective(completions')
           /\ Elements(completions') = Elements(completions) \ S
           /\ decided' = decided \cup S
  BY CompletionsDrained
<1>2. reclaimable' \in Nat /\ pending' \in Nat
  <2>1. PICK n \in 0 .. Len(completions) : pending' = IF n =< pending THEN pending - n ELSE 0
    BY CompletionsDrained
  <2>2. pending \in Nat /\ n \in Nat
    BY PlacesFacts
  <2>3. pending' \in Nat
    BY <2>1, <2>2
  <2> QED  BY <2>3, CompletionsDrained
<1>3. runtime' \in RuntimeState /\ InHand' = InHand
      /\ (runtime'.job \in Job <=> runtime'.pc \in {"start", "admit", "send"})
  <2>1. CASE runtime' = runtime
    BY <2>1, HandFacts DEF InHand, PlacesInv, PlacesTypeOK
  <2>2. CASE runtime.pc = "drain" /\ runtime' = At("stopped", NoJob)
    <3>1. runtime' \in RuntimeState /\ runtime'.job = NoJob /\ runtime'.pc = "stopped"
      BY <2>2 DEF At, RuntimeState
    <3>2. InHand = {}
      BY <2>2, HandFacts
    <3> QED  BY <3>1, <3>2, WorkerAssumption DEF InHand
  <2> QED  BY <2>1, <2>2, CompletionsDrained
<1>4. IsPartition(fresh, decided', InHand, Elements(queue), Elements(channel),
                  Elements(completions'), Elements(overflow), Carried)
  <2>1. \A T \in SUBSET Elements(completions) :
          IsPartition(fresh, decided \cup T, InHand, Elements(queue), Elements(channel),
                      Elements(completions) \ T, Elements(overflow), Carried)
    BY PlacesFacts, MovesKeepPartition
  <2> QED  BY <1>1, <2>1
<1>5. Carried' = Carried /\ decided' \subseteq Job
  BY <1>4 DEF Carried, IsPartition
<1>6. Partition'
  BY <1>3, <1>4, <1>5 DEF Partition
<1>7. PlacesTypeOK'
  BY <1>1, <1>2, <1>3, <1>5 DEF PlacesInv, PlacesTypeOK
<1>8. HandsInv'
  BY <1>3 DEF PlacesInv, HandsInv
<1> QED  BY <1>1, <1>6, <1>7, <1>8, PlacesKept, PlacesFacts

LEMMA ShutdownKeepsPlaces ==
  ASSUME PlacesInv, Shutdown
  PROVE  PlacesInv'
<1>1. /\ UNCHANGED <<fresh, queue, decided, pending, completions, overflow, started, channel,
                     worker, bodies, reclaimable>>
      /\ sender' = FALSE /\ runtime.pc = "idle" /\ runtime' = At("join", NoJob)
  BY DEF Shutdown, mailVars, IsIdle
<1>2. runtime' \in RuntimeState /\ runtime'.job = NoJob /\ runtime'.pc = "join"
  BY <1>1 DEF At, RuntimeState
<1>3. InHand = {} /\ InHand' = {} /\ runtime'.job \notin Job
  BY <1>1, <1>2, HandFacts, WorkerAssumption DEF InHand
<1>4. PlacesTypeOK'
  BY <1>1, <1>2 DEF PlacesInv, PlacesTypeOK
<1>5. HandsInv'
  BY <1>1, <1>2, <1>3 DEF PlacesInv, HandsInv
<1>6. Partition'
  BY <1>1, <1>3 DEF PlacesInv, Partition, Carried
<1> QED  BY <1>1, <1>4, <1>5, <1>6, PlacesKept, PlacesFacts

LEMMA JoinedKeepsPlaces ==
  ASSUME PlacesInv, Joined
  PROVE  PlacesInv'
<1>1. PICK S \in SUBSET Elements(overflow) :
           /\ overflow' \in Seq(Job) /\ IsInjective(overflow')
           /\ Elements(overflow') = Elements(overflow) \ S
           /\ decided' = decided \cup S
  <2>1. Len(overflow) \in Nat
    BY PlacesFacts
  <2> QED  BY <2>1, OverflowDrained DEF Joined
<1>2. /\ UNCHANGED <<fresh, queue, pending, completions, sender, started, channel, worker, bodies,
                     reclaimable>>
      /\ runtime.pc = "join" /\ runtime' = At("drain", NoJob)
  BY DEF Joined
<1>3. runtime' \in RuntimeState /\ runtime'.job = NoJob /\ runtime'.pc = "drain"
  BY <1>2 DEF At, RuntimeState
<1>4. InHand = {} /\ InHand' = {} /\ runtime'.job \notin Job /\ Carried' = Carried
  BY <1>2, <1>3, HandFacts, WorkerAssumption DEF InHand, Carried
<1>5. IsPartition(fresh, decided', InHand, Elements(queue), Elements(channel),
                  Elements(completions), Elements(overflow'), Carried)
  <2>1. \A T \in SUBSET Elements(overflow) :
          IsPartition(fresh, decided \cup T, InHand, Elements(queue), Elements(channel),
                      Elements(completions), Elements(overflow) \ T, Carried)
    BY PlacesFacts, MovesKeepPartition
  <2> QED  BY <1>1, <2>1
<1>6. decided' \subseteq Job
  BY <1>5 DEF IsPartition
<1>7. PlacesTypeOK'
  BY <1>1, <1>2, <1>3, <1>6 DEF PlacesInv, PlacesTypeOK
<1>8. HandsInv'
  BY <1>2, <1>3, <1>4 DEF PlacesInv, HandsInv
<1>9. Partition'
  BY <1>2, <1>4, <1>5 DEF Partition
<1> QED  BY <1>1, <1>2, <1>7, <1>8, <1>9, PlacesKept, PlacesFacts

(* What a step of a worker's loop does to the workers' requests. *)
LEMMA WorkerMoved ==
  ASSUME PlacesInv, NEW w \in Worker, NEW from, NEW to \in WorkerState, WorkerStep(w, from, to),
         to.job \in Job <=> to.pc \notin {"idle", "exited"},
         \A v \in Worker : v # w /\ to.job \in Job => worker[v].job # to.job,
         UNCHANGED hostVars, UNCHANGED started
  PROVE  /\ worker' \in [Worker -> WorkerState] /\ worker[w].pc = from
         /\ worker'[w] = to /\ \A v \in Worker : v # w => worker'[v] = worker[v]
         /\ \A u, v \in Worker :
              worker'[u].job \in Job /\ worker'[u].job = worker'[v].job => u = v
         /\ HandsInv'
         /\ fresh' = fresh /\ queue' = queue /\ decided' = decided /\ runtime' = runtime
         /\ started /\ InHand' = InHand
<1>1. /\ started /\ worker[w].pc = from /\ worker' = [worker EXCEPT ![w] = to]
      /\ fresh' = fresh /\ queue' = queue /\ decided' = decided /\ runtime' = runtime
  BY DEF WorkerStep, hostVars
<1>2. worker \in [Worker -> WorkerState]
  BY DEF PlacesInv, PlacesTypeOK
<1>3. /\ worker' \in [Worker -> WorkerState]
      /\ worker'[w] = to /\ \A v \in Worker : v # w => worker'[v] = worker[v]
  BY <1>1, <1>2
<1>4. \A u, v \in Worker : worker'[u].job \in Job /\ worker'[u].job = worker'[v].job => u = v
  BY <1>3 DEF PlacesInv
<1>5. HandsInv'
  BY <1>1, <1>3 DEF PlacesInv, HandsInv
<1> QED  BY <1>1, <1>3, <1>4, <1>5 DEF InHand

(* The requests the workers carry change by at most the one of the worker   *)
(* that takes the step.                                                     *)
LEMMA CarriedAfter ==
  ASSUME PlacesInv, NEW w \in Worker, NEW to \in WorkerState,
         worker'[w] = to, \A v \in Worker : v # w => worker'[v] = worker[v]
  PROVE  LET busy == {"compile", "send", "overflow"}
         IN  /\ worker[w].pc \notin busy /\ to.pc \notin busy => Carried' = Carried
             /\ worker[w].pc \in busy /\ to.pc \in busy /\ to.job = worker[w].job
                  => Carried' = Carried
             /\ worker[w].pc \notin busy /\ to.pc \in busy => Carried' = Carried \cup {to.job}
             /\ worker[w].pc \in busy /\ to.pc \notin busy
                  => Carried' = Carried \ {worker[w].job}
<1> DEFINE busy == {"compile", "send", "overflow"}
<1>1. \A v \in Worker : worker[v].pc \in busy => worker[v].job \in Job
  BY DEF PlacesInv, HandsInv
<1>2. \A v \in Worker : v # w /\ worker[v].pc \in busy => worker[v].job # worker[w].job
  BY <1>1 DEF PlacesInv
<1>3. \A x : x \in Carried <=> \E v \in Worker : worker[v].pc \in busy /\ worker[v].job = x
  BY DEF Carried
<1>4. \A x : x \in Carried' <=> \E v \in Worker : worker'[v].pc \in busy /\ worker'[v].job = x
  BY DEF Carried
<1> HIDE DEF busy
<1>5. \A x : x \in Carried' <=> \/ to.pc \in busy /\ to.job = x
                               \/ \E v \in Worker : v # w /\ worker[v].pc \in busy /\ worker[v].job = x
  BY <1>4
<1>6. \A x : x \in Carried <=> \/ worker[w].pc \in busy /\ worker[w].job = x
                              \/ \E v \in Worker : v # w /\ worker[v].pc \in busy /\ worker[v].job = x
  BY <1>3
<1>7. worker[w].pc \notin busy /\ to.pc \notin busy => Carried' = Carried
  BY <1>5, <1>6
<1>8. worker[w].pc \in busy /\ to.pc \in busy /\ to.job = worker[w].job => Carried' = Carried
  BY <1>5, <1>6
<1>9. worker[w].pc \notin busy /\ to.pc \in busy => Carried' = Carried \cup {to.job}
  BY <1>5, <1>6
<1>10. worker[w].pc \in busy /\ to.pc \notin busy => Carried' = Carried \ {worker[w].job}
  BY <1>2, <1>5, <1>6
<1> QED  BY <1>7, <1>8, <1>9, <1>10 DEF busy

LEMMA ReceiveKeepsPlaces ==
  ASSUME PlacesInv, NEW w \in Worker, Receive(w)
  PROVE  PlacesInv'
<1> DEFINE j == Head(channel)
           to == At("compile", j)
<1>1. /\ channel # <<>> /\ WorkerStep(w, "idle", to) /\ channel' = Tail(channel)
      /\ UNCHANGED <<hostVars, pending, completions, overflow, sender, started, bodies, reclaimable>>
  BY DEF Receive, mailVars
<1>2. /\ j \in Elements(channel) /\ j \in Job
      /\ channel' \in Seq(Job) /\ IsInjective(channel')
      /\ Elements(channel') = Elements(channel) \ {j}
  BY <1>1, PlacesFacts, HeadAndTail
<1> HIDE DEF j
<1>3. to \in WorkerState /\ to.pc = "compile" /\ to.job = j
  BY <1>2 DEF At, WorkerState
<1> HIDE DEF to
<1>4. \A v \in Worker : worker[v].job # j
  <2> SUFFICES ASSUME NEW v \in Worker, worker[v].job = j  PROVE FALSE
    OBVIOUS
  <2>1. worker[v].pc \notin {"idle", "exited"}
    BY <1>2 DEF PlacesInv, HandsInv
  <2>2. worker[v].pc \in {"compile", "send", "overflow"} \cup Released
    BY <2>1 DEF PlacesInv, PlacesTypeOK, WorkerState, Released
  <2>3. j \in Carried \cup decided \cup Elements(completions) \cup Elements(overflow)
    BY <2>2 DEF PlacesInv, Carried
  <2> QED  BY <1>2, <2>3, PlacesFacts DEF IsPartition
<1>5. /\ worker' \in [Worker -> WorkerState] /\ worker[w].pc = "idle"
      /\ worker'[w] = to /\ \A v \in Worker : v # w => worker'[v] = worker[v]
      /\ \A u, v \in Worker :
           worker'[u].job \in Job /\ worker'[u].job = worker'[v].job => u = v
      /\ HandsInv'
      /\ fresh' = fresh /\ queue' = queue /\ decided' = decided /\ runtime' = runtime
      /\ started /\ InHand' = InHand
  BY <1>1, <1>2, <1>3, <1>4, WorkerMoved
<1>6. Carried' = Carried \cup {j}
  BY <1>3, <1>5, CarriedAfter
<1>7. IsPartition(fresh, decided, InHand, Elements(queue), Elements(channel) \ {j},
                  Elements(completions), Elements(overflow), Carried \cup {j})
  BY <1>2, PlacesFacts, MovesKeepPartition
<1>8. Partition'
  BY <1>1, <1>2, <1>5, <1>6, <1>7 DEF Partition
<1>9. PlacesTypeOK'
  BY <1>1, <1>2, <1>5 DEF PlacesInv, PlacesTypeOK
<1>10. \A v \in Worker : worker'[v].pc \in Released =>
         worker'[v].job \in decided' \cup Elements(completions') \cup Elements(overflow')
  BY <1>1, <1>3, <1>5 DEF PlacesInv, Released
<1> QED  BY <1>1, <1>2, <1>5, <1>8, <1>9, <1>10 DEF PlacesInv

(* A step of a worker's loop after which every request is where it was. *)
LEMMA QuietStepKeepsPlaces ==
  ASSUME PlacesInv, NEW w \in Worker, NEW from, NEW to \in WorkerState, WorkerStep(w, from, to),
         to.job \in Job <=> to.pc \notin {"idle", "exited"},
         to.job \in Job => to.job = worker[w].job,
         from \in {"compile", "send", "overflow"} <=> to.pc \in {"compile", "send", "overflow"},
         to.pc \in Released => from \in Released,
         pending' \in Nat,
         UNCHANGED <<hostVars, completions, overflow, sender, started, channel, bodies, reclaimable>>
  PROVE  PlacesInv'
<1>1. \A v \in Worker : v # w /\ to.job \in Job => worker[v].job # to.job
  BY DEF PlacesInv
<1>2. /\ worker' \in [Worker -> WorkerState] /\ worker[w].pc = from
      /\ worker'[w] = to /\ \A v \in Worker : v # w => worker'[v] = worker[v]
      /\ \A u, v \in Worker :
           worker'[u].job \in Job /\ worker'[u].job = worker'[v].job => u = v
      /\ HandsInv'
      /\ fresh' = fresh /\ queue' = queue /\ decided' = decided /\ runtime' = runtime
      /\ started /\ InHand' = InHand
  BY <1>1, WorkerMoved
<1>3. /\ completions' = completions /\ overflow' = overflow /\ sender' = sender
      /\ started' = started /\ channel' = channel /\ bodies' = bodies /\ reclaimable' = reclaimable
  OBVIOUS
<1>4. Carried' = Carried
  BY <1>2, CarriedAfter
<1>5. Partition'
  BY <1>2, <1>3, <1>4 DEF PlacesInv, Partition
<1>6. PlacesTypeOK'
  BY <1>2, <1>3 DEF PlacesInv, PlacesTypeOK
<1>7. \A v \in Worker : worker'[v].pc \in Released =>
        worker'[v].job \in decided' \cup Elements(completions') \cup Elements(overflow')
  <2> SUFFICES ASSUME NEW v \in Worker, worker'[v].pc \in Released
               PROVE  worker'[v].job \in decided \cup Elements(completions) \cup Elements(overflow)
    BY <1>2, <1>3
  <2>1. CASE v = w
    <3>1. /\ worker[w].pc \in Released /\ worker[w].pc \notin {"idle", "exited"}
          /\ to.pc \notin {"idle", "exited"} /\ to.job = worker[w].job
      BY <1>2, <2>1 DEF Released
    <3> QED  BY <1>2, <2>1, <3>1 DEF PlacesInv
  <2>2. CASE v # w
    BY <1>2, <2>2 DEF PlacesInv
  <2> QED  BY <2>1, <2>2
<1> QED  BY <1>2, <1>3, <1>5, <1>6, <1>7 DEF PlacesInv

(* A step that hands a worker's completion over to the runtime thread. *)
LEMMA CompletedStepKeepsPlaces ==
  ASSUME PlacesInv, NEW w \in Worker, NEW from \in {"send", "overflow"},
         WorkerStep(w, from, At("release", worker[w].job)), pending' \in Nat,
         \/ completions' = Append(completions, worker[w].job) /\ overflow' = overflow
         \/ overflow' = Append(overflow, worker[w].job) /\ completions' = completions,
         UNCHANGED <<hostVars, sender, started, channel, bodies, reclaimable>>
  PROVE  PlacesInv'
<1> DEFINE j == worker[w].job
           to == At("release", j)
<1>1. /\ j \in Job /\ j \in Carried
  BY DEF WorkerStep, PlacesInv, HandsInv, Carried
<1>2. to \in WorkerState /\ to.pc = "release" /\ to.job = j
  BY <1>1 DEF At, WorkerState
<1> HIDE DEF to
<1>3. \A v \in Worker : v # w /\ to.job \in Job => worker[v].job # to.job
  BY <1>2 DEF PlacesInv
<1>4. /\ worker' \in [Worker -> WorkerState] /\ worker[w].pc = from
      /\ worker'[w] = to /\ \A v \in Worker : v # w => worker'[v] = worker[v]
      /\ \A u, v \in Worker :
           worker'[u].job \in Job /\ worker'[u].job = worker'[v].job => u = v
      /\ HandsInv'
      /\ fresh' = fresh /\ queue' = queue /\ decided' = decided /\ runtime' = runtime
      /\ started /\ InHand' = InHand
  BY <1>1, <1>2, <1>3, WorkerMoved DEF to
<1>5. Carried' = Carried \ {j}
  BY <1>2, <1>4, CarriedAfter
<1>6. j \notin Elements(completions) /\ j \notin Elements(overflow)
  BY <1>1, PlacesFacts DEF IsPartition
<1>7. /\ sender' = sender /\ started' = started /\ channel' = channel /\ bodies' = bodies
      /\ reclaimable' = reclaimable
  OBVIOUS
<1>8. /\ completions' \in Seq(Job) /\ IsInjective(completions')
      /\ overflow' \in Seq(Job) /\ IsInjective(overflow')
      /\ \/ Elements(completions') = Elements(completions) \cup {j} /\ overflow' = overflow
         \/ Elements(overflow') = Elements(overflow) \cup {j} /\ completions' = completions
  <2>1. /\ completions \in Seq(Job) /\ IsInjective(completions)
        /\ overflow \in Seq(Job) /\ IsInjective(overflow)
    BY PlacesFacts
  <2>2. CASE completions' = Append(completions, j) /\ overflow' = overflow
    BY <1>1, <1>6, <2>1, <2>2, AppendedElements
  <2>3. CASE overflow' = Append(overflow, j) /\ completions' = completions
    BY <1>1, <1>6, <2>1, <2>3, AppendedElements
  <2> QED  BY <2>2, <2>3
<1>9. IsPartition(fresh, decided, InHand, Elements(queue), Elements(channel),
                  Elements(completions'), Elements(overflow'), Carried')
  <2>1. /\ IsPartition(fresh, decided, InHand, Elements(queue), Elements(channel),
                       Elements(completions) \cup {j}, Elements(overflow), Carried \ {j})
        /\ IsPartition(fresh, decided, InHand, Elements(queue), Elements(channel),
                       Elements(completions), Elements(overflow) \cup {j}, Carried \ {j})
    BY <1>1, PlacesFacts, MovesKeepPartition
  <2> QED  BY <1>5, <1>8, <2>1
<1>10. Partition'
  BY <1>4, <1>7, <1>9 DEF Partition
<1>11. PlacesTypeOK'
  BY <1>4, <1>7, <1>8 DEF PlacesInv, PlacesTypeOK
<1>12. \A v \in Worker : worker'[v].pc \in Released =>
         worker'[v].job \in decided' \cup Elements(completions') \cup Elements(overflow')
  <2> SUFFICES ASSUME NEW v \in Worker, worker'[v].pc \in Released
               PROVE  worker'[v].job \in decided \cup Elements(completions') \cup Elements(overflow')
    BY <1>4
  <2>1. CASE v = w
    BY <1>2, <1>4, <1>8, <2>1
  <2>2. CASE v # w
    BY <1>4, <1>8, <2>2 DEF PlacesInv
  <2> QED  BY <2>1, <2>2
<1> QED  BY <1>4, <1>7, <1>8, <1>10, <1>11, <1>12, PlacesFacts DEF PlacesInv

(* Every step of a worker is one of the steps above. *)
LEMMA WorkerKeepsPlaces ==
  ASSUME PlacesInv, NEW w \in Worker, RunWorker(w)
  PROVE  PlacesInv'
<1>1. CASE Receive(w)
  BY <1>1, ReceiveKeepsPlaces
<1>2. CASE Exit(w)
  <2>1. /\ At("exited", NoJob) \in WorkerState /\ At("exited", NoJob).pc = "exited"
        /\ At("exited", NoJob).job \notin Job
    BY WorkerAssumption DEF At, WorkerState
  <2>2. /\ WorkerStep(w, "idle", At("exited", NoJob)) /\ pending' = pending
        /\ UNCHANGED <<hostVars, completions, overflow, sender, started, channel, bodies, reclaimable>>
    BY <1>2 DEF Exit, mailVars
  <2> HIDE DEF At
  <2> QED  BY <2>1, <2>2, PlacesFacts, QuietStepKeepsPlaces DEF Released
<1>3. CASE Compile(w)
  <2>1. /\ WorkerStep(w, "compile", At("send", worker[w].job)) /\ pending' = pending + 1
        /\ UNCHANGED <<hostVars, completions, overflow, sender, started, channel, bodies, reclaimable>>
    BY <1>3 DEF Compile
  <2>2. worker[w].job \in Job
    BY <2>1 DEF WorkerStep, PlacesInv, HandsInv
  <2>3. /\ At("send", worker[w].job) \in WorkerState /\ At("send", worker[w].job).pc = "send"
        /\ At("send", worker[w].job).job = worker[w].job
    BY <2>2 DEF At, WorkerState
  <2>4. pending' \in Nat
    BY <2>1, PlacesFacts
  <2> QED  BY <2>1, <2>2, <2>3, <2>4, QuietStepKeepsPlaces DEF Released
<1>4. CASE SendCompletion(w)
  <2>1. CASE WorkerStep(w, "send", At("release", worker[w].job))
             /\ completions' = Append(completions, worker[w].job) /\ pending' = pending
    <3>1. UNCHANGED <<hostVars, overflow, sender, started, channel, bodies, reclaimable>>
      BY <1>4 DEF SendCompletion
    <3> QED  BY <2>1, <3>1, PlacesFacts, CompletedStepKeepsPlaces
  <2>2. CASE WorkerStep(w, "send", At("overflow", worker[w].job)) /\ completions' = completions
             /\ pending' = IF pending > 0 THEN pending - 1 ELSE 0
    <3>1. UNCHANGED <<hostVars, completions, overflow, sender, started, channel, bodies, reclaimable>>
      BY <1>4, <2>2 DEF SendCompletion
    <3>2. worker[w].job \in Job
      BY <2>2 DEF WorkerStep, PlacesInv, HandsInv
    <3>3. /\ At("overflow", worker[w].job) \in WorkerState
          /\ At("overflow", worker[w].job).pc = "overflow"
          /\ At("overflow", worker[w].job).job = worker[w].job
      BY <3>2 DEF At, WorkerState
    <3>4. pending' \in Nat
      BY <2>2, PlacesFacts
    <3> QED  BY <2>2, <3>1, <3>2, <3>3, <3>4, QuietStepKeepsPlaces DEF Released
  <2> QED  BY <1>4, <2>1, <2>2 DEF SendCompletion
<1>5. CASE PushOverflow(w)
  <2>1. /\ WorkerStep(w, "overflow", At("release", worker[w].job))
        /\ overflow' = Append(overflow, worker[w].job) /\ pending' = pending
        /\ completions' = completions
        /\ UNCHANGED <<hostVars, sender, started, channel, bodies, reclaimable>>
    BY <1>5 DEF PushOverflow
  <2> QED  BY <2>1, PlacesFacts, CompletedStepKeepsPlaces
<1>6. CASE ReleaseJob(w)
  <2>1. /\ WorkerStep(w, "release", At("release_snapshots", worker[w].job)) /\ pending' = pending
        /\ UNCHANGED <<hostVars, completions, overflow, sender, started, channel, bodies, reclaimable>>
    BY <1>6 DEF ReleaseJob, mailVars
  <2>2. worker[w].job \in Job
    BY <2>1 DEF WorkerStep, PlacesInv, HandsInv
  <2>3. /\ At("release_snapshots", worker[w].job) \in WorkerState
        /\ At("release_snapshots", worker[w].job).pc = "release_snapshots"
        /\ At("release_snapshots", worker[w].job).job = worker[w].job
    BY <2>2 DEF At, WorkerState
  <2>4. "release" \in Released
    BY DEF Released
  <2> QED  BY <2>1, <2>2, <2>3, <2>4, PlacesFacts, QuietStepKeepsPlaces
<1>7. CASE ReleaseSnapshots(w)
  <2>1. /\ WorkerStep(w, "release_snapshots", At("release_ir", worker[w].job)) /\ pending' = pending
        /\ UNCHANGED <<hostVars, completions, overflow, sender, started, channel, bodies, reclaimable>>
    BY <1>7 DEF ReleaseSnapshots, mailVars
  <2>2. worker[w].job \in Job
    BY <2>1 DEF WorkerStep, PlacesInv, HandsInv
  <2>3. /\ At("release_ir", worker[w].job) \in WorkerState
        /\ At("release_ir", worker[w].job).pc = "release_ir"
        /\ At("release_ir", worker[w].job).job = worker[w].job
    BY <2>2 DEF At, WorkerState
  <2>4. "release_snapshots" \in Released
    BY DEF Released
  <2> QED  BY <2>1, <2>2, <2>3, <2>4, PlacesFacts, QuietStepKeepsPlaces
<1>8. CASE ReleaseIr(w)
  <2>1. /\ At("idle", NoJob) \in WorkerState /\ At("idle", NoJob).pc = "idle"
        /\ At("idle", NoJob).job \notin Job /\ "idle" \notin Released
    BY WorkerAssumption DEF At, WorkerState, Released
  <2>2. /\ WorkerStep(w, "release_ir", At("idle", NoJob)) /\ pending' = pending
        /\ UNCHANGED <<hostVars, completions, overflow, sender, started, channel, bodies, reclaimable>>
    BY <1>8 DEF ReleaseIr, mailVars
  <2> QED  BY <2>1, <2>2, PlacesFacts, QuietStepKeepsPlaces
<1> QED  BY <1>1, <1>2, <1>3, <1>4, <1>5, <1>6, <1>7, <1>8 DEF RunWorker

LEMMA NextKeepsPlaces ==
  ASSUME PlacesInv, [Next]_vars
  PROVE  PlacesInv'
<1>1. ASSUME NEW j \in Job, Submit(j)  PROVE PlacesInv'
  BY <1>1, SubmitKeepsPlaces
<1>2. CASE PollCompletions \/ ShutdownDrain
  BY <1>2, DrainKeepsPlaces DEF PollCompletions, ShutdownDrain
<1>3. CASE UNCHANGED vars
  <2>1. UNCHANGED <<fresh, queue, decided, runtime, pending, completions, overflow, sender,
                    started, channel, worker, bodies, usage, reclaimable>>
    BY <1>3 DEF vars, hostVars, mailVars
  <2>2. PlacesTypeOK'
    BY <2>1 DEF PlacesInv, PlacesTypeOK
  <2>3. HandsInv'
    BY <2>1 DEF PlacesInv, HandsInv
  <2>4. Partition'
    BY <2>1 DEF PlacesInv, Partition, InHand, Carried
  <2> QED  BY <2>1, <2>2, <2>3, <2>4, PlacesKept, PlacesFacts
<1> QED  BY <1>1, <1>2, <1>3, DispatchKeepsPlaces, StartWorkersKeepsPlaces, StartFailsKeepsPlaces,
            AdmitKeepsPlaces, SendKeepsPlaces, ShutdownKeepsPlaces, JoinedKeepsPlaces,
            WorkerKeepsPlaces DEF Next

(* PlacesInv holds at every moment: rollbacks, full channels, the overflow   *)
(* list, a failed start and shutdown neither lose nor duplicate a request.  *)
THEOREM PlacesInvariant == Spec => []PlacesInv
<1>1. Init => PlacesInv
  BY PlacesStart
<1>2. PlacesInv /\ [Next]_vars => PlacesInv'
  BY NextKeepsPlaces
<1> QED  BY <1>1, <1>2, PTL DEF Spec
=============================================================================
