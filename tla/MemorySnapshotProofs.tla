------------------------ MODULE MemorySnapshotProofs ------------------------
(***************************************************************************)
(* What the tables of memory objects promise for any ranges, any number of *)
(* operations, and any number of application and analysis threads.         *)
(***************************************************************************)
EXTENDS MemorySnapshot, WellFoundedInduction, TLAPS

-----------------------------------------------------------------------------
(* The inductive invariant *)

\* No two objects of a set share an address.
Apart(mems) == \A m, n \in mems : m # n => ~ Overlaps(m.range, n.range)

Contains(m, addr) == m.range.start <= addr /\ addr < m.range.end

Owned(mems, addr) == \E m \in mems : Contains(m, addr)

Newest(snap, s, o) == s <= o /\ \A r \in DOMAIN snap : r <= o => r <= s

\* The table snap tells the history lv of the live objects up to operation d: a
\* key holds the objects of its operation, which stay the live ones until the
\* next key.
Agrees(snap, lv, d) ==
  /\ DOMAIN snap \subseteq OpIds
  /\ \A s \in DOMAIN snap : s <= d => snap[s] = lv[s]
  /\ \A s \in DOMAIN snap : \A o \in s .. d : Newest(snap, s, o) => lv[o] = lv[s]

\* It tells of nothing else, and is empty only while there was no object.
Exact(snap, lv, d) ==
  /\ Agrees(snap, lv, d)
  /\ \A s \in DOMAIN snap : s <= d
  /\ DOMAIN snap = {} => \A o \in 0 .. d : lv[o] = {}

\* Live objects never share an address.
DeviceInv == \A o \in 0 .. op : Apart(live[o]) /\ Apart(sub_live[o])

\* What a call c says about the objects before and after its operation.
Reports(c, before, after, reg, unreg) ==
  /\ c.kind = reg => /\ after = before \cup {c.mem}
                     /\ \A m \in before : ~ Overlaps(m.range, c.mem.range)
  /\ c.kind = unreg => /\ c.mem \in before
                       /\ after = before \ {c.mem}
                       /\ c.addr = c.mem.range.start
  /\ c.kind \notin {reg, unreg} => after = before

MemReport(c, before, after) == Reports(c, before, after, "register", "unregister")
SubReport(c, before, after) == Reports(c, before, after, "subregister", "subunregister")

CallInv(c) ==
  /\ c.op <= op
  /\ MemReport(c, live[c.op - 1], live[c.op])
  /\ SubReport(c, sub_live[c.op - 1], sub_live[c.op])
  /\ c.kind \in {"copy", "launch"} => Owned(live[c.op], c.addr)

CallsInv ==
  /\ \A t \in AppThreads : call[t].kind # "idle" => CallInv(call[t])
  /\ \A t, u \in AppThreads :
       t # u /\ call[t].kind # "idle" /\ call[u].kind # "idle" => call[t].op # call[u].op

\* Operation d is the last before which nothing is still to be reported.  It is
\* followed by the operations in a call, or by one that was overtaken.
Front(d) ==
  /\ d <= op
  /\ \A t \in AppThreads : call[t].kind # "idle" => d < call[t].op
  /\ \A i \in overtaken : d < i
  /\ overtaken # {} => d + 1 \in overtaken
  /\ overtaken = {} => \A o \in d + 1 .. op :
       \E t \in AppThreads : call[t].kind # "idle" /\ call[t].op = o

TableInv(snap, lv, d) ==
  /\ Agrees(snap, lv, d)
  /\ overtaken = {} => Exact(snap, lv, d)

\* Redshow has a snapshot for every operation up to d with live objects, unless a
\* round of newer kernels has ended.
HasKey(o)  == \E s \in DOMAIN memory_snapshot : s <= o
KeysInv(d) == \A o \in 0 .. d : live[o] = {} \/ HasKey(o) \/ o < discarded

\* A trace accesses an object that was live.
TraceInv(tr, d) ==
  /\ tr.op \in OpIds
  /\ tr.op <= op
  /\ Owned(live[tr.op], tr.addr)
  /\ overtaken = {} => tr.op <= d

TracesInv(d) == \A t \in AppThreads : \A i \in 1 .. Len(traces[t]) : TraceInv(traces[t][i], d)

\* The snapshot key is, or was until newer rounds ended, the one for operation o.
Points(key, o) ==
  /\ key # 0
  /\ Newest(memory_snapshot, key, o)
  /\ live[key] = live[o]
  /\ key \in DOMAIN memory_snapshot \/ o < discarded

ThreadInv(a, d) ==
  /\ apc[a] \in {"fetch", "use"} => TraceInv(cur[a], d)
  /\ apc[a] = "use" /\ cur[a].op <= d => Points(map[a], cur[a].op)

AnalysesInv(d) == \A a \in AnalysisThreads : ThreadInv(a, d)

AnswerInv(d) ==
  /\ answer.op <= op
  /\ overtaken = {} => answer.op <= d
  /\ answer.op <= d => /\ RightAnswer
                       /\ answer.status \in {"refused", "dangling"} => answer.op < discarded

UpTo(d) ==
  /\ Front(d)
  /\ TableInv(memory_snapshot, live, d)
  /\ TableInv(sub_memory_snapshot, sub_live, d)
  /\ KeysInv(d)
  /\ TracesInv(d)
  /\ AnalysesInv(d)
  /\ AnswerInv(d)

(* The tables, and all that is still to be analysed or was answered, agree  *)
(* with the history up to some operation d.  While no operation has been    *)
(* overtaken d is the newest one whose call was made, and the tables hold   *)
(* nothing beyond it; afterwards d stays where it is, and what is stored    *)
(* beyond it may be wrong.                                                  *)
IInv ==
  /\ TypeOK
  /\ DeviceInv
  /\ CallsInv
  /\ \E d \in 0 .. MaxOps : UpTo(d)

-----------------------------------------------------------------------------
(* Numbers *)

\* A set of naturals that is not empty has a least element.
LEMMA LeastOf ==
  ASSUME NEW T \in SUBSET Nat, T # {}
  PROVE  \E x \in T : \A y \in T : x <= y
<1>1. PICK x \in T : \A y \in T : ~ (<<y, x>> \in OpToRel(<, Nat))
  BY NatLessThanWellFounded, WFMin, Zenon
<1>2. \A y \in T : ~ (<<y, x>> \in {p \in Nat \X Nat : p[1] < p[2]})
  BY <1>1, Zenon DEF OpToRel
<1>3. ASSUME NEW y \in T PROVE ~ (y < x)
  <2>1. <<y, x>> \in Nat \X Nat /\ <<y, x>>[1] = y /\ <<y, x>>[2] = x
    OBVIOUS
  <2> QED
    BY <1>2, <2>1, Zenon
<1> QED
  BY <1>3

\* A set of naturals with an upper bound has a greatest element.
LEMMA GreatestOf ==
  ASSUME NEW S \in SUBSET Nat, S # {}, NEW k \in Nat, \A s \in S : s <= k
  PROVE  \E x \in S : \A y \in S : y <= x
<1> DEFINE T == {n \in Nat : k - n \in S}
<1>1. T # {}
  <2>1. PICK s \in S : TRUE
    OBVIOUS
  <2>2. k - s \in T
    BY <2>1
  <2> QED
    BY <2>2
<1>2. PICK n \in T : \A m \in T : n <= m
  BY <1>1, LeastOf
<1>3. ASSUME NEW y \in S PROVE y <= k - n
  <2>1. k - y \in T
    OBVIOUS
  <2> QED
    BY <1>2, <2>1
<1> QED
  BY <1>2, <1>3

\* Prev is the largest key at or below k, or 0 when there is none.
LEMMA PrevIsLargest ==
  ASSUME NEW snap, DOMAIN snap \subseteq OpIds, NEW k \in Nat
  PROVE  \/ Prev(snap, k) = 0 /\ \A s \in DOMAIN snap : s > k
         \/ /\ Prev(snap, k) \in DOMAIN snap
            /\ Prev(snap, k) <= k
            /\ \A r \in DOMAIN snap : r <= k => r <= Prev(snap, k)
<1>0. \A s \in DOMAIN snap : s \in Nat
  BY DEF OpIds
<1>1. CASE \E s \in DOMAIN snap : s <= k
  <2> DEFINE S == {s \in DOMAIN snap : s <= k}
  <2>1. S \in SUBSET Nat /\ S # {} /\ \A s \in S : s <= k
    BY <1>0, <1>1
  <2>2. \E x \in S : \A y \in S : y <= x
    BY <2>1, GreatestOf
  <2>3. \E s \in DOMAIN snap : s <= k /\ \A r \in DOMAIN snap : r <= k => r <= s
    BY <2>2
  <2> QED
    BY <1>1, <2>3 DEF Prev
<1>2. CASE ~ \E s \in DOMAIN snap : s <= k
  BY <1>0, <1>2 DEF Prev
<1> QED
  BY <1>1, <1>2

-----------------------------------------------------------------------------
(* Sets of objects *)

\* Every object has a range of addresses that is not empty.
LEMMA MemRange ==
  ASSUME NEW m \in Mem
  PROVE  /\ m.range.start \in Nat
         /\ m.range.end \in Nat
         /\ m.range.start < m.range.end
<1>1. m.range \in Ranges \cup SubRanges
  BY DEF Mem
<1> QED
  BY <1>1, SnapshotAssumption

\* Two objects with the same start overlap.
LEMMA SameStart ==
  ASSUME NEW m \in Mem, NEW n \in Mem, m.range.start = n.range.start
  PROVE  Overlaps(m.range, n.range)
  BY MemRange DEF Overlaps

\* Two objects that contain the same address overlap.
LEMMA SameAddress ==
  ASSUME NEW m \in Mem, NEW n \in Mem, NEW addr \in Nat,
         Contains(m, addr), Contains(n, addr)
  PROVE  Overlaps(m.range, n.range)
  BY MemRange DEF Overlaps, Contains

\* Among objects that share no address, the one with the largest start at or
\* below an address that has an owner is that owner.
LEMMA BelowIsOwner ==
  ASSUME NEW mems \in SUBSET Mem, Apart(mems), NEW addr \in Nat, NEW m \in mems,
         Contains(m, addr)
  PROVE  /\ Below(mems, addr) = {m}
         /\ {n \in mems : Contains(n, addr)} = {m}
<1>1. ASSUME NEW n \in mems, Contains(n, addr) PROVE n = m
  BY <1>1, SameAddress DEF Apart
<1>2. ASSUME NEW n \in mems, n.range.start <= addr PROVE n.range.start <= m.range.start
  <2>1. CASE n = m
    BY <2>1, MemRange
  <2>2. CASE n # m
    <3>1. ~ Contains(n, addr)
      BY <1>1, <2>2
    <3>2. ~ Overlaps(n.range, m.range)
      BY <2>2 DEF Apart
    <3> QED
      BY <1>2, <3>1, <3>2, MemRange DEF Contains, Overlaps
  <2> QED
    BY <2>1, <2>2
<1>3. m \in Below(mems, addr)
  BY <1>2 DEF Below, Contains
<1>4. ASSUME NEW n \in Below(mems, addr) PROVE n = m
  <2>1. n \in mems /\ n.range.start <= addr /\ m.range.start <= n.range.start
    BY MemRange DEF Below, Contains
  <2>2. n.range.start = m.range.start
    BY <1>2, <2>1, MemRange
  <2>3. Overlaps(n.range, m.range)
    BY <2>1, <2>2, SameStart
  <2> QED
    BY <2>1, <2>3 DEF Apart
<1> QED
  BY <1>1, <1>3, <1>4

\* So a query and the lookup of a trace find the owner and nothing else.
LEMMA LookupIsOwner ==
  ASSUME NEW mems \in SUBSET Mem, Apart(mems), NEW addr \in Nat, Owned(mems, addr)
  PROVE  /\ Query(mems, addr) = {n \in mems : Contains(n, addr)}
         /\ Attribute(mems, addr) = {n \in mems : Contains(n, addr)}
<1>1. PICK m \in mems : Contains(m, addr)
  BY DEF Owned
<1>2. Below(mems, addr) = {m} /\ {n \in mems : Contains(n, addr)} = {m}
  BY <1>1, BelowIsOwner
<1>3. addr <= m.range.end /\ addr + 1 <= m.range.end
  BY <1>1, MemRange DEF Contains
<1> QED
  BY <1>2, <1>3 DEF Query, Attribute

-----------------------------------------------------------------------------
(* Tables *)

\* The snapshot at or before an operation the table tells of.
LEMMA AgreesAt ==
  ASSUME NEW snap, NEW lv, NEW d \in Nat, NEW o \in 0 .. d, Agrees(snap, lv, d)
  PROVE  \/ Prev(snap, o) = 0 /\ \A s \in DOMAIN snap : s > o
         \/ /\ Prev(snap, o) \in DOMAIN snap
            /\ Prev(snap, o) \in OpIds
            /\ Newest(snap, Prev(snap, o), o)
            /\ snap[Prev(snap, o)] = lv[o]
            /\ lv[Prev(snap, o)] = lv[o]
<1>0. DOMAIN snap \subseteq OpIds /\ OpIds \subseteq Nat
  BY DEF Agrees, OpIds
<1>1. PICK p : p = Prev(snap, o)
  OBVIOUS
<1>2. \/ p = 0 /\ \A s \in DOMAIN snap : s > o
      \/ p \in DOMAIN snap /\ p <= o /\ \A r \in DOMAIN snap : r <= o => r <= p
  BY <1>0, <1>1, PrevIsLargest
<1>3. ASSUME p \in DOMAIN snap, Newest(snap, p, o)
      PROVE  p \in OpIds /\ snap[p] = lv[o] /\ lv[p] = lv[o]
  <2>1. p \in OpIds /\ p \in Nat
    BY <1>0, <1>3
  <2>2. p <= o /\ o \in Nat
    BY <1>3 DEF Newest
  <2>3. p <= d /\ o \in p .. d
    BY <2>1, <2>2
  <2> QED
    BY <1>3, <2>1, <2>3 DEF Agrees
<1> QED
  BY <1>1, <1>2, <1>3 DEF Newest

\* The snapshot at or before the last operation an exact table was told of.
LEMMA ExactAt ==
  ASSUME NEW snap, NEW lv, NEW d \in Nat, Exact(snap, lv, d)
  PROVE  /\ Prev(snap, d) = 0 => DOMAIN snap = {}
         /\ Prev(snap, d) # 0 => Prev(snap, d) \in DOMAIN snap /\ snap[Prev(snap, d)] = lv[d]
<1>1. d \in 0 .. d /\ Agrees(snap, lv, d)
  BY DEF Exact
<1>2. \A s \in DOMAIN snap : s \in Nat /\ s <= d /\ s # 0
  BY DEF Exact, Agrees, OpIds
<1>3. ~ \E s \in DOMAIN snap : s > d
  BY <1>2
<1>4. Prev(snap, d) = 0 => DOMAIN snap = {}
  BY <1>1, <1>2, <1>3, AgreesAt
<1>5. Prev(snap, d) # 0 => Prev(snap, d) \in DOMAIN snap /\ snap[Prev(snap, d)] = lv[d]
  BY <1>1, AgreesAt
<1> QED
  BY <1>4, <1>5

\* What SnapshotAt finds for it.
LEMMA ExactNow ==
  ASSUME NEW snap, NEW lv, NEW d \in Nat, Exact(snap, lv, d)
  PROVE  SnapshotAt(snap, d) = lv[d]
<1>1. CASE Prev(snap, d) = 0
  BY <1>1, ExactAt DEF SnapshotAt, Exact
<1>2. CASE Prev(snap, d) # 0
  BY <1>2, ExactAt DEF SnapshotAt
<1> QED
  BY <1>1, <1>2

\* Storing the objects of the next operation keeps a table exact.
LEMMA ExactStore ==
  ASSUME NEW snap, NEW lv, NEW d \in Nat, d + 1 \in OpIds, Exact(snap, lv, d)
  PROVE  Exact(Store(snap, d + 1, lv[d + 1]), lv, d + 1)
<1> DEFINE new == Store(snap, d + 1, lv[d + 1])
<1>0. /\ DOMAIN snap \subseteq OpIds /\ OpIds \subseteq Nat
      /\ \A s \in DOMAIN snap : s \in Nat /\ s <= d /\ snap[s] = lv[s]
  BY DEF Exact, Agrees, Newest, OpIds
<1>1. /\ DOMAIN new = DOMAIN snap \cup {d + 1}
      /\ \A s \in DOMAIN snap : new[s] = snap[s]
      /\ new[d + 1] = lv[d + 1]
  BY <1>0 DEF Store
<1> HIDE DEF new
<1>2. \A s \in DOMAIN new : s <= d + 1 /\ new[s] = lv[s]
  BY <1>0, <1>1
<1>3. ASSUME NEW s \in DOMAIN new, NEW o \in s .. d + 1,
             \A r \in DOMAIN new : r <= o => r <= s
      PROVE  lv[o] = lv[s]
  <2>1. CASE s = d + 1
    BY <1>3, <2>1
  <2>2. CASE s # d + 1
    <3>1. s \in DOMAIN snap /\ s \in Nat /\ s <= d
      BY <1>0, <1>1, <2>2
    <3>2. o # d + 1
      BY <1>1, <1>3, <3>1
    <3>3. o \in s .. d /\ \A r \in DOMAIN snap : r <= o => r <= s
      BY <1>1, <1>3, <3>1, <3>2
    <3> QED
      BY <3>1, <3>3 DEF Exact, Agrees, Newest
  <2> QED
    BY <2>1, <2>2
<1>4. DOMAIN new \subseteq OpIds /\ DOMAIN new # {}
  BY <1>0, <1>1
<1>5. Exact(new, lv, d + 1)
  BY <1>2, <1>3, <1>4 DEF Exact, Agrees, Newest
<1> QED
  BY <1>5 DEF new

\* An operation that leaves the objects alone needs no snapshot.
LEMMA ExactSkip ==
  ASSUME NEW snap, NEW lv, NEW d \in Nat, Exact(snap, lv, d), lv[d + 1] = lv[d]
  PROVE  Exact(snap, lv, d + 1)
<1>0. /\ DOMAIN snap \subseteq OpIds /\ OpIds \subseteq Nat
      /\ \A s \in DOMAIN snap : s \in Nat /\ s <= d /\ snap[s] = lv[s]
  BY DEF Exact, Agrees, Newest, OpIds
<1>1. \A s \in DOMAIN snap : s <= d + 1
  BY <1>0
<1>2. ASSUME NEW s \in DOMAIN snap, NEW o \in s .. d + 1,
             \A r \in DOMAIN snap : r <= o => r <= s
      PROVE  lv[o] = lv[s]
  <2>1. CASE o # d + 1
    <3>1. o \in s .. d
      BY <1>0, <2>1
    <3> QED
      BY <1>2, <3>1 DEF Exact, Agrees, Newest
  <2>2. CASE o = d + 1
    <3>1. d \in s .. d /\ \A r \in DOMAIN snap : r <= d => r <= s
      BY <1>0, <1>2, <2>2
    <3>2. lv[d] = lv[s]
      BY <3>1 DEF Exact, Agrees, Newest
    <3> QED
      BY <2>2, <3>2
  <2> QED
    BY <2>1, <2>2
<1>3. ASSUME DOMAIN snap = {}, NEW o \in 0 .. d + 1 PROVE lv[o] = {}
  <2>1. lv[d] = {} /\ (o # d + 1 => lv[o] = {})
    BY <1>3 DEF Exact, Agrees, Newest
  <2> QED
    BY <2>1
<1> QED
  BY <1>0, <1>1, <1>2, <1>3 DEF Exact, Agrees, Newest

\* What is stored beyond d leaves what a table tells up to d alone.
LEMMA AgreesStore ==
  ASSUME NEW snap, NEW lv, NEW d \in Nat, NEW id \in OpIds, d < id, NEW mems,
         Agrees(snap, lv, d)
  PROVE  Agrees(Store(snap, id, mems), lv, d)
<1> DEFINE new == Store(snap, id, mems)
<1>0. /\ DOMAIN snap \subseteq OpIds /\ OpIds \subseteq Nat /\ id \in Nat
      /\ \A s \in DOMAIN snap : s \in Nat
  BY DEF Agrees, OpIds
<1>1. /\ DOMAIN new = DOMAIN snap \cup {id}
      /\ \A s \in DOMAIN snap : s # id => new[s] = snap[s]
  BY DEF Store
<1> HIDE DEF new
<1>2. ASSUME NEW s \in DOMAIN new, s <= d PROVE s \in DOMAIN snap /\ s # id
  BY <1>0, <1>1, <1>2
<1>3. \A s \in DOMAIN new : s <= d => new[s] = lv[s]
  BY <1>1, <1>2 DEF Agrees
<1>4. ASSUME NEW s \in DOMAIN new, NEW o \in s .. d, Newest(new, s, o)
      PROVE  lv[o] = lv[s]
  <2>1. s \in Nat /\ s <= d
    BY <1>0, <1>1, <1>4
  <2>2. s \in DOMAIN snap /\ Newest(snap, s, o)
    BY <1>1, <1>2, <1>4, <2>1 DEF Newest
  <2> QED
    BY <2>2 DEF Agrees
<1>5. DOMAIN new \subseteq OpIds
  BY <1>0, <1>1
<1>6. Agrees(new, lv, d)
  BY <1>3, <1>4, <1>5 DEF Agrees
<1> QED
  BY <1>6 DEF new

\* So does what a call of a later operation makes of a table.
LEMMA AgreesLater ==
  ASSUME NEW snap, NEW lv, NEW d \in Nat, NEW id \in OpIds, d < id, NEW m, NEW start,
         Agrees(snap, lv, d)
  PROVE  Agrees(Registered(snap, id, m), lv, d) /\ Agrees(Unregistered(snap, id, start), lv, d)
  BY AgreesStore DEF Registered, Unregistered

\* A table tells of the operations up to d only.
LEMMA AgreesHistory ==
  ASSUME NEW snap, NEW lv, NEW lw, NEW d \in Nat, Agrees(snap, lv, d),
         \A o \in 0 .. d : lw[o] = lv[o]
  PROVE  Agrees(snap, lw, d)
<1>0. \A s \in DOMAIN snap : s \in Nat /\ (s <= d => s \in 0 .. d)
  BY DEF Agrees, OpIds
<1>1. \A s \in DOMAIN snap : \A o \in s .. d : o \in 0 .. d /\ s <= d
  BY <1>0
<1> QED
  BY <1>0, <1>1 DEF Agrees

\* A table is about the operations up to d only.
LEMMA ExactHistory ==
  ASSUME NEW snap, NEW lv, NEW lw, NEW d \in Nat, Exact(snap, lv, d),
         \A o \in 0 .. d : lw[o] = lv[o]
  PROVE  Exact(snap, lw, d)
<1>0. \A s \in DOMAIN snap : s \in Nat /\ s \in 0 .. d
  BY DEF Exact, Agrees, Newest, OpIds
<1>1. \A s \in DOMAIN snap : \A o \in s .. d : o \in 0 .. d
  BY <1>0
<1> QED
  BY <1>0, <1>1 DEF Exact, Agrees, Newest

\* The snapshot before the next operation is that of the last one.
LEMMA PrevNext ==
  ASSUME NEW snap, NEW lv, NEW d \in Nat, Exact(snap, lv, d)
  PROVE  Prev(snap, d + 1) = Prev(snap, d)
<1>1. DOMAIN snap \subseteq OpIds /\ \A s \in DOMAIN snap : s \in Nat /\ s <= d
  BY DEF Exact, Agrees, Newest, OpIds
<1>2. \/ Prev(snap, d) = 0 /\ \A s \in DOMAIN snap : s > d
      \/ /\ Prev(snap, d) \in DOMAIN snap
         /\ Prev(snap, d) <= d
         /\ \A r \in DOMAIN snap : r <= d => r <= Prev(snap, d)
  BY <1>1, PrevIsLargest
<1>3. \/ Prev(snap, d + 1) = 0 /\ \A s \in DOMAIN snap : s > d + 1
      \/ /\ Prev(snap, d + 1) \in DOMAIN snap
         /\ Prev(snap, d + 1) <= d + 1
         /\ \A r \in DOMAIN snap : r <= d + 1 => r <= Prev(snap, d + 1)
  BY <1>1, PrevIsLargest, d + 1 \in Nat
<1> QED
  BY <1>1, <1>2, <1>3

\* redshow_memory_register of an object that shares no address with the live ones.
LEMMA ExactRegistered ==
  ASSUME NEW snap, NEW lv, NEW d \in Nat, d + 1 \in OpIds, Exact(snap, lv, d),
         NEW m \in Mem, lv[d] \subseteq Mem, lv[d + 1] = lv[d] \cup {m},
         \A n \in lv[d] : ~ Overlaps(n.range, m.range)
  PROVE  Registered(snap, d + 1, m) = Store(snap, d + 1, lv[d + 1])
<1>0. DOMAIN snap \subseteq OpIds /\ 0 \notin OpIds /\ OpIds \subseteq Nat
  BY DEF Exact, Agrees, Newest, OpIds
<1>1. CASE DOMAIN snap = {}
  <2>1. lv[d] = {}
    BY <1>1 DEF Exact, Agrees, Newest
  <2> QED
    BY <1>1, <2>1 DEF Registered
<1>2. CASE DOMAIN snap # {}
  <2>1. Prev(snap, d) \in DOMAIN snap /\ snap[Prev(snap, d)] = lv[d]
    BY <1>2, ExactAt, d \in 0 .. d
  <2>2. Prev(snap, d + 1) = Prev(snap, d)
    BY PrevNext
  <2>3. ~ HasStart(lv[d], m.range.start)
    BY SameStart DEF HasStart
  <2> QED
    BY <1>0, <1>2, <2>1, <2>2, <2>3 DEF Registered
<1> QED
  BY <1>1, <1>2

\* redshow_memory_unregister of a live object.
LEMMA ExactUnregistered ==
  ASSUME NEW snap, NEW lv, NEW d \in Nat, d + 1 \in OpIds, Exact(snap, lv, d),
         lv[d] \subseteq Mem, Apart(lv[d]),
         NEW m \in lv[d], lv[d + 1] = lv[d] \ {m}
  PROVE  Unregistered(snap, d + 1, m.range.start) = Store(snap, d + 1, lv[d + 1])
<1>0. DOMAIN snap \subseteq OpIds /\ 0 \notin OpIds
  BY DEF Exact, Agrees, Newest, OpIds
<1>1. DOMAIN snap # {}
  BY d \in 0 .. d DEF Exact, Agrees, Newest
<1>2. Prev(snap, d) \in DOMAIN snap /\ snap[Prev(snap, d)] = lv[d]
  BY <1>1, ExactAt, d \in 0 .. d
<1>3. Prev(snap, d + 1) = Prev(snap, d)
  BY PrevNext
<1>4. HasStart(lv[d], m.range.start)
  BY DEF HasStart
<1>5. {n \in lv[d] : n.range.start # m.range.start} = lv[d] \ {m}
  <2>1. ASSUME NEW n \in lv[d], n # m PROVE n.range.start # m.range.start
    BY <2>1, SameStart DEF Apart
  <2> QED
    BY <2>1
<1> QED
  BY <1>0, <1>2, <1>3, <1>4, <1>5 DEF Unregistered

\* A table that is not empty has a newest key.
LEMMA NewestKey ==
  ASSUME NEW snap, NEW k \in Nat, DOMAIN snap \subseteq OpIds,
         \E s \in DOMAIN snap : s <= k
  PROVE  \E s \in DOMAIN snap : s <= k /\ \A r \in DOMAIN snap : r <= k => r <= s
<1>1. Prev(snap, k) \in DOMAIN snap
  <2>1. PICK s \in DOMAIN snap : s <= k
    OBVIOUS
  <2>2. s \in Nat
    BY DEF OpIds
  <2>3. ~ (s > k)
    BY <2>1, <2>2
  <2> QED
    BY <2>1, <2>3, PrevIsLargest
<1>2. 0 \notin DOMAIN snap
  BY DEF OpIds
<1> QED
  BY <1>1, <1>2, PrevIsLargest

\* What redshow_analysis_end keeps has all keys above one it keeps, and a key
\* at or before every operation from the minimum on that had one.
LEMMA KeptKeys ==
  ASSUME NEW snap, NEW mini \in Nat, DOMAIN snap \subseteq OpIds
  PROVE  /\ Kept(snap, mini) \subseteq DOMAIN snap
         /\ \A s \in Kept(snap, mini), r \in DOMAIN snap : s <= r => r \in Kept(snap, mini)
         /\ \A o \in Nat : o >= mini /\ (\E s \in DOMAIN snap : s <= o)
              => \E s \in Kept(snap, mini) : s <= o
         /\ DOMAIN snap # {} => Kept(snap, mini) # {}
<1>0. \A s \in DOMAIN snap : s \in Nat
  BY DEF OpIds
<1>1. Kept(snap, mini) \subseteq DOMAIN snap
  BY DEF Kept
<1>2. ASSUME NEW s \in Kept(snap, mini), NEW r \in DOMAIN snap, s <= r
      PROVE  r \in Kept(snap, mini)
  BY <1>0, <1>2 DEF Kept
<1>3. ASSUME NEW o \in Nat, o >= mini, \E s \in DOMAIN snap : s <= o
      PROVE  \E s \in Kept(snap, mini) : s <= o
  <2>1. PICK s \in DOMAIN snap : s <= o /\ \A r \in DOMAIN snap : r <= o => r <= s
    BY <1>3, NewestKey
  <2>2. \A r \in DOMAIN snap : r < mini => r <= s
    BY <1>0, <1>3, <2>1
  <2> QED
    BY <2>1, <2>2 DEF Kept
<1>4. ASSUME DOMAIN snap # {} PROVE Kept(snap, mini) # {}
  <2>1. PICK s \in DOMAIN snap : TRUE
    BY <1>4
  <2>2. PICK k \in Nat : k >= mini /\ s <= k
    <3>1. CASE s <= mini
      BY <3>1, <1>0
    <3>2. CASE ~ (s <= mini)
      BY <3>2, <1>0
    <3> QED
      BY <3>1, <3>2
  <2> QED
    BY <1>3, <2>1, <2>2
<1> QED
  BY <1>1, <1>2, <1>3, <1>4

\* Discarding the snapshots below mini, all but the newest, makes a table tell of
\* fewer operations, not of other objects.
LEMMA AgreesKept ==
  ASSUME NEW snap, NEW lv, NEW d \in Nat, NEW mini \in Nat, Agrees(snap, lv, d)
  PROVE  Agrees([s \in Kept(snap, mini) |-> snap[s]], lv, d)
<1> DEFINE kept == Kept(snap, mini)
           new == [s \in kept |-> snap[s]]
<1>0. DOMAIN snap \subseteq OpIds /\ \A s \in DOMAIN snap : s \in Nat
  BY DEF Agrees, OpIds
<1>1. /\ kept \subseteq DOMAIN snap
      /\ \A s \in kept, r \in DOMAIN snap : s <= r => r \in kept
  BY <1>0, KeptKeys
<1>2. DOMAIN new = kept /\ \A s \in kept : new[s] = snap[s]
  OBVIOUS
<1> HIDE DEF kept, new
<1>3. \A s \in DOMAIN new : s <= d => new[s] = lv[s]
  BY <1>1, <1>2 DEF Agrees
<1>4. ASSUME NEW s \in DOMAIN new, NEW o \in s .. d, Newest(new, s, o)
      PROVE  lv[o] = lv[s]
  <2>1. s \in DOMAIN snap /\ s \in kept /\ s \in Nat
    BY <1>0, <1>1, <1>2
  <2>2. ASSUME NEW r \in DOMAIN snap, r <= o PROVE r <= s
    BY <1>0, <1>1, <1>2, <1>4, <2>1, <2>2 DEF Newest
  <2>3. Newest(snap, s, o)
    BY <1>4, <2>2 DEF Newest
  <2> QED
    BY <2>1, <2>3 DEF Agrees
<1>5. Agrees(new, lv, d)
  BY <1>0, <1>1, <1>2, <1>3, <1>4 DEF Agrees
<1> QED
  BY <1>5 DEF new, kept

\* It keeps an exact table exact.
LEMMA ExactKept ==
  ASSUME NEW snap, NEW lv, NEW d \in Nat, NEW mini \in Nat, Exact(snap, lv, d)
  PROVE  Exact([s \in Kept(snap, mini) |-> snap[s]], lv, d)
<1>1. DOMAIN snap \subseteq OpIds /\ Agrees(snap, lv, d)
  BY DEF Exact, Agrees
<1>2. Kept(snap, mini) \subseteq DOMAIN snap /\ (DOMAIN snap # {} => Kept(snap, mini) # {})
  BY <1>1, KeptKeys
<1>3. Agrees([s \in Kept(snap, mini) |-> snap[s]], lv, d)
  BY <1>1, AgreesKept
<1> QED
  BY <1>2, <1>3 DEF Exact

\* What is discarded was not the newest snapshot of any operation from mini on.
LEMMA NewestKept ==
  ASSUME NEW snap, NEW mini \in Nat, DOMAIN snap \subseteq OpIds,
         NEW o \in Nat, NEW s \in DOMAIN snap, Newest(snap, s, o)
  PROVE  s \in Kept(snap, mini) \/ o < mini
<1>1. s \in Nat /\ \A r \in DOMAIN snap : r \in Nat
  BY DEF OpIds
<1> QED
  BY <1>1 DEF Newest, Kept

-----------------------------------------------------------------------------
(* Types *)

\* A table of sets of objects.
Table(snap) == DOMAIN snap \subseteq OpIds /\ \A s \in DOMAIN snap : snap[s] \subseteq Mem

\* Storing a set of objects gives a table.
LEMMA StoreTable ==
  ASSUME NEW snap, Table(snap), NEW id \in OpIds, NEW mems \in SUBSET Mem
  PROVE  Table(Store(snap, id, mems))
  BY DEF Table, Store

\* What Map::prev finds in a table is an entry with objects, or nothing.
LEMMA PrevType ==
  ASSUME NEW snap, Table(snap), NEW k \in Nat
  PROVE  /\ Prev(snap, k) \in 0 .. MaxOps
         /\ Prev(snap, k) # 0 => snap[Prev(snap, k)] \subseteq Mem
         /\ SnapshotAt(snap, k) \subseteq Mem
<1>1. Prev(snap, k) = 0 \/ Prev(snap, k) \in DOMAIN snap
  BY PrevIsLargest DEF Table
<1>2. DOMAIN snap \subseteq 0 .. MaxOps
  BY SnapshotAssumption DEF Table, OpIds
<1>3. Prev(snap, k) # 0 => snap[Prev(snap, k)] \subseteq Mem
  BY <1>1 DEF Table
<1>4. SnapshotAt(snap, k) \subseteq Mem
  BY <1>3 DEF SnapshotAt
<1>5. 0 \in 0 .. MaxOps
  BY SnapshotAssumption
<1> QED
  BY <1>1, <1>2, <1>3, <1>4, <1>5

\* Registering and unregistering an object give a table.
LEMMA RegisteredTable ==
  ASSUME NEW snap, Table(snap), NEW id \in OpIds, NEW m \in Mem, NEW start
  PROVE  Table(Registered(snap, id, m)) /\ Table(Unregistered(snap, id, start))
<1>0. id \in Nat
  BY DEF OpIds
<1>1. Prev(snap, id) # 0 => snap[Prev(snap, id)] \subseteq Mem
  BY <1>0, PrevType
<1>2. Table(Registered(snap, id, m))
  <2>1. Table(Store(snap, id, {m}))
    BY StoreTable
  <2>2. ASSUME Prev(snap, id) # 0 PROVE Table(Store(snap, id, snap[Prev(snap, id)] \cup {m}))
    BY <1>1, <2>2, StoreTable
  <2> QED
    BY <2>1, <2>2 DEF Registered
<1>3. Table(Unregistered(snap, id, start))
  <2>1. ASSUME Prev(snap, id) # 0
        PROVE  Table(Store(snap, id, {n \in snap[Prev(snap, id)] : n.range.start # start}))
    BY <1>1, <2>1, StoreTable
  <2> QED
    BY <2>1 DEF Unregistered
<1> QED
  BY <1>2, <1>3

\* An operation id of a call or of a trace, and what an operation hands on.
LEMMA NextOpTypes ==
  ASSUME TypeOK, NEW t \in AppThreads,
         NEW l \in SUBSET Mem, NEW sl \in SUBSET Mem,
         NEW kind \in CallKinds, NEW m \in Mem, NEW addr \in Nat,
         NextOp(t, l, sl, kind, m, addr)
  PROVE  TypeOK'
<1>1. op + 1 \in OpIds /\ op' \in 0 .. MaxOps /\ op + 1 \in 0 .. MaxOps
  BY SnapshotAssumption DEF TypeOK, NextOp, OpIds
<1>2. live' \in [0 .. MaxOps -> SUBSET Mem] /\ sub_live' \in [0 .. MaxOps -> SUBSET Mem]
  BY <1>1 DEF TypeOK, NextOp
<1>3. [kind |-> kind, op |-> op + 1, mem |-> m, addr |-> addr] \in Call
  BY <1>1 DEF Call
<1>4. call' \in [AppThreads -> Call \cup {Idle}]
  BY <1>3 DEF TypeOK, NextOp
<1> QED
  BY <1>1, <1>2, <1>4 DEF TypeOK, NextOp, tables, analyses

-----------------------------------------------------------------------------
(* Operations on the device *)

\* An operation of thread t that keeps the live objects apart and whose call
\* will report what it did.
Faithful(t, l, sl, kind, m, addr) ==
  LET c == [kind |-> kind, op |-> op + 1, mem |-> m, addr |-> addr] IN
  /\ NextOp(t, l, sl, kind, m, addr)
  /\ l \in SUBSET Mem /\ sl \in SUBSET Mem
  /\ kind \in CallKinds /\ m \in Mem /\ addr \in Nat
  /\ Apart(l) /\ Apart(sl)
  /\ MemReport(c, live[op], l)
  /\ SubReport(c, sub_live[op], sl)
  /\ kind \in {"copy", "launch"} => Owned(l, addr)

\* Objects stay apart when one that overlaps none of them joins, or one leaves.
LEMMA ApartJoin ==
  ASSUME NEW mems \in SUBSET Mem, Apart(mems), NEW m \in Mem,
         \A n \in mems : ~ Overlaps(n.range, m.range)
  PROVE  Apart(mems \cup {m})
<1>1. ASSUME NEW n \in mems PROVE ~ Overlaps(m.range, n.range)
  BY <1>1 DEF Overlaps
<1> QED
  BY <1>1 DEF Apart

\* Objects stay apart when one leaves.
LEMMA ApartLeave ==
  ASSUME NEW mems, Apart(mems), NEW m
  PROVE  Apart(mems \ {m})
  BY DEF Apart

\* The objects on the device at the moment.
LEMMA LiveTypes ==
  ASSUME TypeOK, DeviceInv
  PROVE  /\ op \in Nat
         /\ live[op] \in SUBSET Mem /\ Apart(live[op])
         /\ sub_live[op] \in SUBSET Mem /\ Apart(sub_live[op])
<1>1. op \in 0 .. op /\ op \in 0 .. MaxOps /\ op \in Nat
  BY SnapshotAssumption DEF TypeOK
<1> QED
  BY <1>1 DEF TypeOK, DeviceInv

\* The object of a new operation is an object, at its range.
LEMMA NewMem ==
  ASSUME TypeOK, op < MaxOps, NEW r \in Ranges \cup SubRanges
  PROVE  /\ [range |-> r, op |-> op + 1] \in Mem
         /\ [range |-> r, op |-> op + 1].range = r
         /\ r.start \in Nat
<1>1. op + 1 \in OpIds
  BY SnapshotAssumption DEF TypeOK, OpIds
<1> QED
  BY <1>1, SnapshotAssumption DEF Mem

\* An allocation is a faithful operation.
LEMMA MallocFaithful ==
  ASSUME TypeOK, DeviceInv, NEW t \in AppThreads, NEW r \in Ranges, Malloc(t, r)
  PROVE  \E l, sl, kind, m, addr : Faithful(t, l, sl, kind, m, addr)
<1> DEFINE m == [range |-> r, op |-> op + 1]
<1>1. NextOp(t, live[op] \cup {m}, sub_live[op], "register", m, r.start)
  BY DEF Malloc
<1>2. m \in Mem /\ m.range = r /\ r.start \in Nat
  BY <1>1, NewMem DEF NextOp
<1>3. \A n \in live[op] : ~ Overlaps(n.range, m.range)
  BY <1>2 DEF Malloc
<1> HIDE DEF m
<1>4. /\ live[op] \in SUBSET Mem /\ Apart(live[op])
      /\ sub_live[op] \in SUBSET Mem /\ Apart(sub_live[op])
  BY LiveTypes
<1>5. Apart(live[op] \cup {m})
  BY <1>2, <1>3, <1>4, ApartJoin
<1>6. Faithful(t, live[op] \cup {m}, sub_live[op], "register", m, r.start)
  BY <1>1, <1>2, <1>3, <1>4, <1>5
     DEF Faithful, MemReport, SubReport, Reports, CallKinds
<1> QED
  BY <1>6

\* A sub-allocation is a faithful operation.
LEMMA SubMallocFaithful ==
  ASSUME TypeOK, DeviceInv, NEW t \in AppThreads, NEW r \in SubRanges, SubMalloc(t, r)
  PROVE  \E l, sl, kind, m, addr : Faithful(t, l, sl, kind, m, addr)
<1> DEFINE m == [range |-> r, op |-> op + 1]
<1>1. NextOp(t, live[op], sub_live[op] \cup {m}, "subregister", m, r.start)
  BY DEF SubMalloc
<1>2. m \in Mem /\ m.range = r /\ r.start \in Nat
  BY <1>1, NewMem DEF NextOp
<1>3. \A n \in sub_live[op] : ~ Overlaps(n.range, m.range)
  BY <1>2 DEF SubMalloc
<1> HIDE DEF m
<1>4. /\ live[op] \in SUBSET Mem /\ Apart(live[op])
      /\ sub_live[op] \in SUBSET Mem /\ Apart(sub_live[op])
  BY LiveTypes
<1>5. Apart(sub_live[op] \cup {m})
  BY <1>2, <1>3, <1>4, ApartJoin
<1>6. Faithful(t, live[op], sub_live[op] \cup {m}, "subregister", m, r.start)
  BY <1>1, <1>2, <1>3, <1>4, <1>5
     DEF Faithful, MemReport, SubReport, Reports, CallKinds
<1> QED
  BY <1>6

\* A release is a faithful operation.
LEMMA FreeFaithful ==
  ASSUME TypeOK, DeviceInv, NEW t \in AppThreads,
         NEW m, \/ m \in live[op] /\ Free(t, m)
                \/ m \in sub_live[op] /\ SubFree(t, m)
  PROVE  \E l, sl, kind, n, addr : Faithful(t, l, sl, kind, n, addr)
<1>1. /\ live[op] \in SUBSET Mem /\ Apart(live[op])
      /\ sub_live[op] \in SUBSET Mem /\ Apart(sub_live[op])
  BY LiveTypes
<1>2. m \in Mem /\ m.range.start \in Nat
  BY <1>1, MemRange
<1>3. Apart(live[op] \ {m}) /\ Apart(sub_live[op] \ {m})
  BY <1>1, ApartLeave
<1>4. CASE m \in live[op] /\ Free(t, m)
  <2>1. Faithful(t, live[op] \ {m}, sub_live[op], "unregister", m, m.range.start)
    BY <1>1, <1>2, <1>3, <1>4
       DEF Free, Faithful, MemReport, SubReport, Reports, CallKinds
  <2> QED
    BY <2>1
<1>5. CASE m \in sub_live[op] /\ SubFree(t, m)
  <2>1. Faithful(t, live[op], sub_live[op] \ {m}, "subunregister", m, m.range.start)
    BY <1>1, <1>2, <1>3, <1>5
       DEF SubFree, Faithful, MemReport, SubReport, Reports, CallKinds
  <2> QED
    BY <2>1
<1> QED
  BY <1>4, <1>5

\* A copy or a launch is a faithful operation.
LEMMA AccessFaithful ==
  ASSUME TypeOK, DeviceInv, NEW t \in AppThreads,
         NEW m \in live[op], Copy(t, m) \/ Launch(t, m)
  PROVE  \E l, sl, kind, n, addr : Faithful(t, l, sl, kind, n, addr)
<1>1. /\ live[op] \in SUBSET Mem /\ Apart(live[op])
      /\ sub_live[op] \in SUBSET Mem /\ Apart(sub_live[op])
  BY LiveTypes
<1>2. PICK kind \in {"copy", "launch"}, addr \in m.range.start .. m.range.end - 1 :
        NextOp(t, live[op], sub_live[op], kind, m, addr)
  BY DEF Copy, Launch
<1>3. m \in Mem /\ m.range.start \in Nat /\ m.range.end \in Nat
  BY <1>1, MemRange
<1>4. addr \in Nat /\ Contains(m, addr)
  BY <1>3 DEF Contains
<1>5. Owned(live[op], addr)
  BY <1>4 DEF Owned
<1>6. Faithful(t, live[op], sub_live[op], kind, m, addr)
  BY <1>1, <1>2, <1>3, <1>4, <1>5
     DEF Faithful, MemReport, SubReport, Reports, CallKinds
<1> QED
  BY <1>6

-----------------------------------------------------------------------------
(* What stays as it is *)

\* A call that is to be made.
LEMMA CallTypes ==
  ASSUME TypeOK, CallsInv, NEW t \in AppThreads, call[t].kind # "idle"
  PROVE  /\ call[t] \in Call /\ call[t].op \in OpIds /\ call[t].op \in 1 .. op
         /\ call[t].mem \in Mem /\ call[t].addr \in Nat /\ call[t].kind \in CallKinds
<1>1. call[t] \in Call
  BY DEF TypeOK, Idle
<1>2. call[t].op \in OpIds /\ call[t].op <= op
  BY <1>1 DEF CallsInv, CallInv, Call
<1>3. op \in Nat
  BY SnapshotAssumption DEF TypeOK
<1> QED
  BY <1>1, <1>2, <1>3 DEF Call, OpIds

\* The ids of the calls that are to be made.
LEMMA PendingCalls ==
  ASSUME TypeOK
  PROVE  /\ \A t \in AppThreads : call[t].kind # "idle" <=> call[t] # Idle
         /\ \A i : i \in Pending <=>
              \E t \in AppThreads : call[t].kind # "idle" /\ call[t].op = i
<1>1. ASSUME NEW t \in AppThreads PROVE call[t].kind # "idle" <=> call[t] # Idle
  <2>1. call[t] = Idle \/ call[t] \in Call
    BY DEF TypeOK
  <2>2. ASSUME call[t] \in Call PROVE call[t].kind # "idle"
    BY <2>2 DEF Call, CallKinds
  <2>3. Idle.kind = "idle"
    BY DEF Idle
  <2> QED
    BY <2>1, <2>2, <2>3, Zenon
<1> QED
  BY <1>1, Zenon DEF Pending

\* Once an operation was overtaken, those in order are the ones up to d.
LEMMA InOrderUpTo ==
  ASSUME NEW d \in Nat, Front(d), NEW o \in Nat, InOrder(o)
  PROVE  overtaken = {} \/ o <= d
  BY DEF Front, InOrder

\* What a step from UpTo(d) to UpTo(e) leaves alone: the history, and the newest
\* snapshot of every operation up to d, unless a round of newer kernels ends.
Keeps(d, e) ==
  /\ e \in 0 .. MaxOps /\ d <= e
  /\ d < e => overtaken = {}
  /\ overtaken' = {} => overtaken = {}
  /\ op' \in Nat /\ op <= op'
  /\ \A o \in 0 .. op : live'[o] = live[o] /\ sub_live'[o] = sub_live[o]
  /\ discarded' \in Nat /\ discarded <= discarded'
  /\ DOMAIN memory_snapshot' \subseteq OpIds
  /\ \A r \in DOMAIN memory_snapshot' : r \in DOMAIN memory_snapshot \/ d < r
  /\ \A o \in 0 .. d : \A s \in DOMAIN memory_snapshot :
       Newest(memory_snapshot, s, o) => s \in DOMAIN memory_snapshot' \/ o < discarded'

\* What is known of a trace stays.
LEMMA TraceStays ==
  ASSUME TypeOK, NEW d \in Nat, NEW e, Keeps(d, e), NEW tr, TraceInv(tr, d)
  PROVE  TraceInv(tr, e)'
<1>1. /\ tr.op \in OpIds /\ tr.op \in Nat /\ tr.op <= op /\ Owned(live[tr.op], tr.addr)
      /\ overtaken = {} => tr.op <= d
  BY DEF TraceInv, OpIds
<1>2. op \in Nat /\ e \in Nat /\ d <= e /\ op' \in Nat /\ op <= op'
  BY SnapshotAssumption DEF TypeOK, Keeps
<1>3. tr.op <= op'
  BY <1>1, <1>2
<1>4. live'[tr.op] = live[tr.op]
  BY <1>1, <1>2 DEF Keeps
<1>5. overtaken' = {} => tr.op <= e
  BY <1>1, <1>2 DEF Keeps
<1> QED
  BY <1>1, <1>3, <1>4, <1>5 DEF TraceInv

\* What a pointer to a snapshot points to stays.
LEMMA PointsStay ==
  ASSUME TypeOK, NEW d \in Nat, d <= op, NEW e, Keeps(d, e),
         NEW o \in 0 .. d, NEW key \in Nat, Points(key, o)
  PROVE  Points(key, o)'
<1>1. key # 0 /\ Newest(memory_snapshot, key, o) /\ key <= o /\ live[key] = live[o]
  BY DEF Points, Newest
<1>2. op \in Nat /\ o \in 0 .. op /\ key \in 0 .. op
  BY <1>1, SnapshotAssumption DEF TypeOK
<1>3. live'[key] = live'[o]
  BY <1>1, <1>2 DEF Keeps
<1>4. ASSUME NEW r \in DOMAIN memory_snapshot', r <= o PROVE r <= key
  <2>1. r \in DOMAIN memory_snapshot \/ d < r
    BY DEF Keeps
  <2>2. CASE r \in DOMAIN memory_snapshot
    BY <1>1, <1>4, <2>2 DEF Newest
  <2>3. CASE d < r /\ r \notin DOMAIN memory_snapshot
    <3>1. r \in Nat
      BY DEF Keeps, OpIds
    <3> QED
      BY <1>4, <2>3, <3>1
  <2> QED
    BY <2>1, <2>2, <2>3
<1>5. key \in DOMAIN memory_snapshot' \/ o < discarded'
  <2>1. CASE key \in DOMAIN memory_snapshot
    BY <1>1, <2>1 DEF Keeps
  <2>2. CASE o < discarded
    <3>1. discarded \in Nat
      BY SnapshotAssumption DEF TypeOK
    <3> QED
      BY <2>2, <3>1 DEF Keeps
  <2> QED
    BY <2>1, <2>2 DEF Points
<1>6. Newest(memory_snapshot, key, o)'
  BY <1>1, <1>4 DEF Newest
<1> QED
  BY <1>1, <1>3, <1>5, <1>6 DEF Points

\* So a thread that does not move keeps the right snapshot for its trace.
LEMMA ThreadStays ==
  ASSUME TypeOK, NEW d \in Nat, d <= op, NEW e, Keeps(d, e),
         NEW a \in AnalysisThreads, ThreadInv(a, d),
         apc'[a] = apc[a], cur'[a] = cur[a], map'[a] = map[a]
  PROVE  ThreadInv(a, e)'
<1>1. PICK tr, key : tr = cur[a] /\ tr = cur'[a] /\ key = map[a] /\ key = map'[a]
  OBVIOUS
<1>2. ASSUME apc[a] \in {"fetch", "use"} PROVE TraceInv(tr, d) /\ TraceInv(tr, e)'
  BY <1>1, <1>2, TraceStays DEF ThreadInv
<1>3. ASSUME apc[a] = "use", tr.op <= e PROVE Points(key, tr.op)'
  <2>1. tr.op \in Nat /\ (overtaken = {} => tr.op <= d)
    BY <1>2, <1>3 DEF TraceInv, OpIds
  <2>2. tr.op \in 0 .. d
    BY <1>3, <2>1, SnapshotAssumption DEF Keeps
  <2>3. Points(key, tr.op)
    BY <1>1, <1>3, <2>2 DEF ThreadInv
  <2>4. key \in Nat
    BY <1>1, SnapshotAssumption DEF TypeOK
  <2> QED
    BY <2>2, <2>3, <2>4, PointsStay
<1> QED
  BY <1>1, <1>2, <1>3 DEF ThreadInv, TraceInv, Points, Newest

\* Every operation up to d keeps its snapshot, unless a round of newer kernels ends.
LEMMA KeysStay ==
  ASSUME TypeOK, NEW d \in Nat, d <= op, KeysInv(d), NEW e, Keeps(d, e), NEW o \in 0 .. d
  PROVE  live'[o] = {} \/ HasKey(o)' \/ o < discarded'
<1>1. op \in Nat /\ o \in 0 .. op /\ live'[o] = live[o]
  BY SnapshotAssumption DEF TypeOK, Keeps
<1>2. CASE HasKey(o)
  <2>0. /\ o \in Nat /\ DOMAIN memory_snapshot \subseteq OpIds
        /\ \E s \in DOMAIN memory_snapshot : s <= o
    BY <1>2 DEF HasKey, TypeOK
  <2>1. PICK s \in DOMAIN memory_snapshot : Newest(memory_snapshot, s, o)
    <3>1. PICK s \in DOMAIN memory_snapshot :
            s <= o /\ \A r \in DOMAIN memory_snapshot : r <= o => r <= s
      BY <2>0, NewestKey
    <3> QED
      BY <3>1 DEF Newest
  <2>2. s \in DOMAIN memory_snapshot' \/ o < discarded'
    BY <2>1 DEF Keeps
  <2> QED
    BY <2>1, <2>2 DEF HasKey, Newest
<1>3. CASE o < discarded
  <2>1. discarded \in Nat
    BY SnapshotAssumption DEF TypeOK
  <2> QED
    BY <1>3, <2>1 DEF Keeps
<1> QED
  BY <1>1, <1>2, <1>3 DEF KeysInv

\* What is known of traces, analyses and answers stays.
LEMMA HistoryStays ==
  ASSUME TypeOK, NEW d \in Nat, UpTo(d), NEW e, Keeps(d, e)
  PROVE  /\ UNCHANGED traces => TracesInv(e)'
         /\ UNCHANGED analyses => AnalysesInv(e)'
         /\ UNCHANGED answer => AnswerInv(e)'
<1>0. TracesInv(d) /\ AnalysesInv(d) /\ AnswerInv(d) /\ d <= op /\ op \in Nat
  BY SnapshotAssumption DEF UpTo, Front, TypeOK
<1>1. ASSUME UNCHANGED traces PROVE TracesInv(e)'
  BY <1>0, <1>1, TraceStays DEF TracesInv
<1>2. ASSUME UNCHANGED analyses PROVE AnalysesInv(e)'
  BY <1>0, <1>2, ThreadStays DEF AnalysesInv, analyses
<1>3. ASSUME UNCHANGED answer PROVE AnswerInv(e)'
  <2>1. answer.op \in 0 .. op /\ answer.op <= op' /\ discarded \in Nat
    BY <1>0, SnapshotAssumption DEF AnswerInv, TypeOK, Answer, Keeps
  <2>2. live'[answer.op] = live[answer.op] /\ sub_live'[answer.op] = sub_live[answer.op]
    BY <2>1 DEF Keeps
  <2>3. e \in Nat /\ d <= e
    BY SnapshotAssumption DEF Keeps
  <2>4. overtaken' = {} => answer.op <= e
    BY <1>0, <2>1, <2>3 DEF AnswerInv, Keeps
  <2>5. answer.op <= e => answer.op <= d
    BY <1>0, <2>1, <2>3 DEF AnswerInv, Keeps
  <2>6. answer.op < discarded => answer.op < discarded'
    BY <2>1 DEF Keeps
  <2>7. RightAnswer => RightAnswer'
    BY <1>3, <2>2 DEF RightAnswer
  <2>8. answer'.op = answer.op /\ answer'.status = answer.status
    BY <1>3
  <2> QED
    BY <1>0, <2>1, <2>4, <2>5, <2>6, <2>7, <2>8 DEF AnswerInv
<1> QED
  BY <1>1, <1>2, <1>3

-----------------------------------------------------------------------------
(* Preservation of IInv by the application threads *)

\* A faithful operation keeps the invariant: nothing is reported yet.
LEMMA FaithfulStep ==
  ASSUME IInv, NEW t \in AppThreads, NEW l, NEW sl, NEW kind, NEW m, NEW addr,
         Faithful(t, l, sl, kind, m, addr)
  PROVE  IInv'
<1> DEFINE c == [kind |-> kind, op |-> op + 1, mem |-> m, addr |-> addr]
<1>1. /\ NextOp(t, l, sl, kind, m, addr) /\ kind \in CallKinds
      /\ l \in SUBSET Mem /\ sl \in SUBSET Mem /\ m \in Mem /\ addr \in Nat
      /\ Apart(l) /\ Apart(sl)
      /\ MemReport(c, live[op], l) /\ SubReport(c, sub_live[op], sl)
      /\ kind \in {"copy", "launch"} => Owned(l, addr)
  BY DEF Faithful
<1>2. TypeOK /\ TypeOK' /\ DeviceInv /\ CallsInv
  BY <1>1, NextOpTypes DEF IInv
<1>3. /\ op \in Nat /\ op + 1 \in OpIds /\ op' = op + 1
      /\ live'[op + 1] = l /\ sub_live'[op + 1] = sl
      /\ \A o \in 0 .. op : live'[o] = live[o] /\ sub_live'[o] = sub_live[o]
  BY <1>1, <1>2, SnapshotAssumption DEF TypeOK, NextOp, OpIds
<1>4. /\ call[t].kind = "idle" /\ call'[t] = c
      /\ \A u \in AppThreads \ {t} : call'[u] = call[u]
      /\ UNCHANGED <<memory_snapshot, sub_memory_snapshot, overtaken, discarded>>
      /\ UNCHANGED <<traces, analyses, answer>>
  BY <1>1, <1>2 DEF NextOp, Idle, TypeOK, tables
<1>5. PICK d \in 0 .. MaxOps : UpTo(d)
  BY DEF IInv
<1>6. d \in Nat /\ d <= op /\ d \in 0 .. op
  BY <1>3, <1>5, SnapshotAssumption DEF UpTo, Front
<1>7. Keeps(d, d)
  <2>1. discarded \in Nat /\ DOMAIN memory_snapshot \subseteq OpIds
    BY <1>2, SnapshotAssumption DEF TypeOK
  <2> QED
    BY <1>3, <1>4, <1>6, <2>1 DEF Keeps
<1>8. DeviceInv'
  <2>1. ASSUME NEW o \in 0 .. op + 1 PROVE Apart(live'[o]) /\ Apart(sub_live'[o])
    <3>1. CASE o = op + 1
      BY <1>1, <1>3, <3>1
    <3>2. CASE o # op + 1
      BY <1>2, <1>3, <3>2 DEF DeviceInv
    <3> QED
      BY <3>1, <3>2
  <2> QED
    BY <1>3, <2>1 DEF DeviceInv, Apart
<1>9. CallsInv'
  <2>1. ASSUME NEW u \in AppThreads, u # t, call[u].kind # "idle"
        PROVE  CallInv(call[u])' /\ call[u].op <= op
    <3>1. PICK x : x = call[u] /\ x = call'[u]
      BY <1>4, <2>1
    <3>2. x.op \in 1 .. op /\ CallInv(x)
      BY <1>2, <2>1, <3>1, CallTypes DEF CallsInv
    <3>3. x.op - 1 \in 0 .. op /\ x.op \in 0 .. op /\ x.op <= op + 1
      BY <1>3, <3>2
    <3>4. /\ live'[x.op] = live[x.op] /\ live'[x.op - 1] = live[x.op - 1]
          /\ sub_live'[x.op] = sub_live[x.op] /\ sub_live'[x.op - 1] = sub_live[x.op - 1]
      BY <1>3, <3>3
    <3>5. /\ x.op <= op'
          /\ MemReport(x, live'[x.op - 1], live'[x.op])
          /\ SubReport(x, sub_live'[x.op - 1], sub_live'[x.op])
          /\ x.kind \in {"copy", "launch"} => Owned(live'[x.op], x.addr)
      BY <1>3, <3>2, <3>3, <3>4 DEF CallInv
    <3>6. CallInv(x)'
      BY <3>5 DEF CallInv, MemReport, SubReport, Reports, Owned, Contains
    <3> QED
      BY <3>1, <3>2, <3>6 DEF CallInv, MemReport, SubReport, Reports, Owned, Contains
  <2>2. /\ c.op = op + 1 /\ c.op - 1 = op /\ c.kind = kind /\ c.addr = addr
        /\ live'[c.op - 1] = live[op] /\ live'[c.op] = l
        /\ sub_live'[c.op - 1] = sub_live[op] /\ sub_live'[c.op] = sl
    BY <1>3
  <2>3. /\ c.op <= op'
        /\ MemReport(c, live'[c.op - 1], live'[c.op])
        /\ SubReport(c, sub_live'[c.op - 1], sub_live'[c.op])
        /\ c.kind \in {"copy", "launch"} => Owned(live'[c.op], c.addr)
    BY <1>1, <1>3, <2>2
  <2> HIDE DEF c
  <2>4. CallInv(call[t])'
    BY <1>4, <2>3 DEF CallInv, MemReport, SubReport, Reports, Owned, Contains
  <2>5. ASSUME NEW u \in AppThreads, NEW v \in AppThreads, u # v,
               call'[u].kind # "idle", call'[v].kind # "idle"
        PROVE  call'[u].op # call'[v].op
    <3>1. CASE u = t
      <4>1. call'[v] = call[v] /\ call[v].op \in 1 .. op
        BY <1>2, <1>4, <2>5, <3>1, CallTypes
      <4> QED
        BY <1>3, <1>4, <2>2, <3>1, <4>1
    <3>2. CASE v = t
      <4>1. call'[u] = call[u] /\ call[u].op \in 1 .. op
        BY <1>2, <1>4, <2>5, <3>2, CallTypes
      <4> QED
        BY <1>3, <1>4, <2>2, <3>2, <4>1
    <3>3. CASE u # t /\ v # t
      BY <1>2, <1>4, <2>5, <3>3 DEF CallsInv
    <3> QED
      BY <3>1, <3>2, <3>3
  <2>6. ASSUME NEW u \in AppThreads, call'[u].kind # "idle" PROVE CallInv(call[u])'
    <3>1. CASE u = t
      BY <2>4, <3>1
    <3>2. CASE u # t
      <4>1. call[u].kind # "idle"
        BY <1>4, <2>6, <3>2
      <4> QED
        BY <2>1, <3>2, <4>1
    <3> QED
      BY <3>1, <3>2
  <2> QED
    BY <2>5, <2>6 DEF CallsInv
<1>10. Front(d)'
  <2>1. Front(d)
    BY <1>5 DEF UpTo
  <2>2. ASSUME NEW u \in AppThreads, call'[u].kind # "idle" PROVE d < call'[u].op
    <3>1. CASE u = t
      BY <1>3, <1>4, <1>6, <3>1
    <3>2. CASE u # t
      BY <1>4, <2>1, <2>2, <3>2 DEF Front
    <3> QED
      BY <3>1, <3>2
  <2>3. ASSUME overtaken = {}, NEW o \in d + 1 .. op + 1
        PROVE  \E u \in AppThreads : call'[u].kind # "idle" /\ call'[u].op = o
    <3>1. CASE o = op + 1
      <4>1. call'[t].kind # "idle" /\ call'[t].op = o
        BY <1>1, <1>4, <3>1 DEF CallKinds
      <4> QED
        BY <4>1
    <3>2. CASE o # op + 1
      <4>1. PICK u \in AppThreads : call[u].kind # "idle" /\ call[u].op = o
        BY <1>3, <1>6, <2>1, <2>3, <3>2 DEF Front
      <4>2. call'[u] = call[u]
        BY <1>4, <4>1
      <4> QED
        BY <4>1, <4>2
    <3> QED
      BY <3>1, <3>2
  <2>4. d <= op + 1
    BY <1>3, <1>6
  <2> QED
    BY <1>3, <1>4, <2>1, <2>2, <2>3, <2>4 DEF Front
<1>11. TableInv(memory_snapshot, live, d)' /\ TableInv(sub_memory_snapshot, sub_live, d)'
  <2>1. \A o \in 0 .. d : live'[o] = live[o] /\ sub_live'[o] = sub_live[o]
    BY <1>3, <1>6
  <2>2. Agrees(memory_snapshot, live', d) /\ Agrees(sub_memory_snapshot, sub_live', d)
    BY <1>5, <1>6, <2>1, AgreesHistory DEF UpTo, TableInv
  <2>3. overtaken = {} =>
          Exact(memory_snapshot, live', d) /\ Exact(sub_memory_snapshot, sub_live', d)
    BY <1>5, <1>6, <2>1, ExactHistory DEF UpTo, TableInv
  <2> QED
    BY <1>4, <2>2, <2>3 DEF TableInv, Exact, Agrees, Newest
<1>12. KeysInv(d)'
  BY <1>2, <1>5, <1>6, <1>7, KeysStay DEF UpTo, KeysInv
<1>13. TracesInv(d)' /\ AnalysesInv(d)' /\ AnswerInv(d)'
  BY <1>2, <1>4, <1>5, <1>6, <1>7, HistoryStays
<1>14. UpTo(d)'
  BY <1>10, <1>11, <1>12, <1>13 DEF UpTo
<1> QED
  BY <1>2, <1>5, <1>8, <1>9, <1>14 DEF IInv

\* A call returns: in turn, or while an earlier one is still to be made.
LEMMA ReturnStep ==
  ASSUME TypeOK, DeviceInv, CallsInv, NEW d \in Nat, Front(d),
         NEW t \in AppThreads, NEW kind \in CallKinds, Return(t, kind)
  PROVE  /\ call[t].kind = kind /\ call[t].kind # "idle" /\ d < call[t].op
         /\ call' \in [AppThreads -> Call \cup {Idle}] /\ overtaken' \subseteq OpIds
         /\ UNCHANGED <<op, live, sub_live, discarded>> /\ UNCHANGED analyses
         /\ DeviceInv' /\ CallsInv'
         /\ \/ /\ call[t].op = d + 1 /\ overtaken = {} /\ overtaken' = {}
               /\ Front(d + 1)'
            \/ overtaken' # {} /\ Front(d)'
<1> DEFINE late == {i \in Pending : i < call[t].op}
<1>1. call[t].kind = kind /\ kind # "idle"
  BY DEF Return, CallKinds
<1>2. /\ UNCHANGED <<op, live, sub_live, discarded>> /\ UNCHANGED analyses
      /\ call' = [call EXCEPT ![t] = Idle]
      /\ overtaken' = overtaken \cup late
  BY DEF Return, device
<1>3. /\ call'[t].kind = "idle"
      /\ \A u \in AppThreads \ {t} : call'[u] = call[u]
      /\ call' \in [AppThreads -> Call \cup {Idle}]
  BY <1>2 DEF TypeOK, Idle
<1>4. op \in Nat /\ call[t].op \in Nat /\ call[t].op <= op /\ d < call[t].op
  BY <1>1, CallTypes, SnapshotAssumption DEF TypeOK, Front
<1>5. \A i : i \in late <=> /\ i < call[t].op
                            /\ \E u \in AppThreads : call[u].kind # "idle" /\ call[u].op = i
  BY PendingCalls, Zenon
<1> HIDE DEF late
<1>6. ASSUME NEW i \in late PROVE i \in OpIds /\ d < i
  <2>1. PICK u \in AppThreads : call[u].kind # "idle" /\ call[u].op = i
    BY <1>5
  <2> QED
    BY <2>1, CallTypes DEF Front
<1>7. overtaken' \subseteq OpIds
  BY <1>2, <1>6 DEF TypeOK
<1>8. DeviceInv'
  BY <1>2 DEF DeviceInv, Apart
<1>9. CallsInv'
  <2>1. ASSUME NEW u \in AppThreads, call'[u].kind # "idle"
        PROVE  u # t /\ call'[u] = call[u] /\ CallInv(call[u])'
    <3>1. u # t /\ call'[u] = call[u]
      BY <1>3, <2>1
    <3>2. CallInv(call[u])
      BY <2>1, <3>1 DEF CallsInv
    <3> QED
      BY <1>2, <3>1, <3>2 DEF CallInv, MemReport, SubReport, Reports, Owned, Contains
  <2> QED
    BY <2>1 DEF CallsInv
<1>10. ASSUME NEW u \in AppThreads, call'[u].kind # "idle"
       PROVE  /\ call'[u] = call[u] /\ call[u].kind # "idle" /\ call[u].op \in Nat
              /\ d < call[u].op /\ call[u].op # call[t].op
  <2>1. u # t /\ call'[u] = call[u]
    BY <1>3, <1>10
  <2>2. d < call[u].op /\ call[u].op # call[t].op
    BY <1>1, <1>10, <2>1 DEF CallsInv, Front
  <2> QED
    BY <1>10, <2>1, <2>2, CallTypes
<1>11. CASE overtaken = {} /\ call[t].op = d + 1
  <2>1. late = {}
    <3>1. ASSUME NEW i \in late PROVE FALSE
      <4>1. i \in Nat /\ d < i /\ i < d + 1
        BY <1>5, <1>6, <1>11 DEF OpIds
      <4> QED
        BY <4>1
    <3> QED
      BY <3>1
  <2>2. overtaken' = {}
    BY <1>2, <1>11, <2>1
  <2>3. \A u \in AppThreads : call'[u].kind # "idle" => d + 1 < call'[u].op
    BY <1>10, <1>11
  <2>4. ASSUME NEW o \in (d + 1) + 1 .. op
        PROVE  \E u \in AppThreads : call'[u].kind # "idle" /\ call'[u].op = o
    <3>1. o \in d + 1 .. op
      BY <1>4
    <3>2. PICK u \in AppThreads : call[u].kind # "idle" /\ call[u].op = o
      BY <1>11, <3>1 DEF Front
    <3>3. u # t
      BY <1>11, <3>2
    <3>4. call'[u] = call[u]
      BY <1>3, <3>3
    <3> QED
      BY <3>2, <3>4
  <2>5. d + 1 <= op
    BY <1>4, <1>11
  <2>6. Front(d + 1)'
    BY <1>2, <2>2, <2>3, <2>4, <2>5 DEF Front
  <2> QED
    BY <1>1, <1>2, <1>3, <1>4, <1>7, <1>8, <1>9, <1>11, <2>2, <2>6
<1>12. CASE ~ (overtaken = {} /\ call[t].op = d + 1)
  <2>1. d + 1 \in overtaken'
    <3>1. CASE overtaken # {}
      BY <1>2, <3>1 DEF Front
    <3>2. CASE overtaken = {} /\ d + 1 < call[t].op
      <4>1. d + 1 \in d + 1 .. op
        BY <1>4, <3>2
      <4>2. PICK u \in AppThreads : call[u].kind # "idle" /\ call[u].op = d + 1
        BY <3>2, <4>1 DEF Front
      <4>3. d + 1 \in late
        BY <1>5, <3>2, <4>2
      <4> QED
        BY <1>2, <4>3
    <3> QED
      BY <1>4, <1>12, <3>1, <3>2
  <2>2. \A i \in overtaken' : d < i
    BY <1>2, <1>6 DEF Front
  <2>3. \A u \in AppThreads : call'[u].kind # "idle" => d < call'[u].op
    BY <1>10
  <2>4. d <= op
    BY <1>4
  <2>5. Front(d)'
    BY <1>2, <2>1, <2>2, <2>3, <2>4 DEF Front
  <2>6. overtaken' # {}
    BY <2>1
  <2> QED
    BY <1>1, <1>2, <1>3, <1>4, <1>7, <1>8, <1>9, <2>5, <2>6
<1> QED
  BY <1>11, <1>12

\* What a call c leaves of a table.
Told(snap, c, reg, unreg) ==
  IF c.kind = reg THEN Registered(snap, c.op, c.mem)
  ELSE IF c.kind = unreg THEN Unregistered(snap, c.op, c.addr)
  ELSE snap

\* A call of the next operation makes an exact table exact up to it.
LEMMA ToldInTurn ==
  ASSUME NEW snap, NEW lv, NEW d \in Nat, Exact(snap, lv, d),
         lv[d] \in SUBSET Mem, Apart(lv[d]), NEW c \in Call, c.op = d + 1, NEW reg, NEW unreg,
         Reports(c, lv[d], lv[d + 1], reg, unreg)
  PROVE  Exact(Told(snap, c, reg, unreg), lv, d + 1)
<1>0. d + 1 \in OpIds
  BY DEF Call
<1>1. PICK m \in Mem : m = c.mem
  BY DEF Call
<1>2. CASE c.kind = reg
  <2>1. lv[d + 1] = lv[d] \cup {m} /\ \A n \in lv[d] : ~ Overlaps(n.range, m.range)
    BY <1>1, <1>2 DEF Reports
  <2>2. Registered(snap, d + 1, m) = Store(snap, d + 1, lv[d + 1])
    BY <1>0, <2>1, ExactRegistered, ZenonT(40)
  <2>3. Told(snap, c, reg, unreg) = Store(snap, d + 1, lv[d + 1])
    BY <1>1, <1>2, <2>2 DEF Told
  <2> QED
    BY <1>0, <2>3, ExactStore
<1>3. CASE c.kind # reg /\ c.kind = unreg
  <2>1. m \in lv[d] /\ lv[d + 1] = lv[d] \ {m} /\ c.addr = m.range.start
    BY <1>1, <1>3 DEF Reports
  <2>2. Unregistered(snap, d + 1, m.range.start) = Store(snap, d + 1, lv[d + 1])
    BY <1>0, <2>1, ExactUnregistered, ZenonT(40)
  <2>3. Told(snap, c, reg, unreg) = Store(snap, d + 1, lv[d + 1])
    BY <1>3, <2>1, <2>2 DEF Told
  <2> QED
    BY <1>0, <2>3, ExactStore
<1>4. CASE c.kind # reg /\ c.kind # unreg
  <2>1. lv[d + 1] = lv[d] /\ Told(snap, c, reg, unreg) = snap
    BY <1>4 DEF Reports, Told
  <2> QED
    BY <2>1, ExactSkip
<1> QED
  BY <1>2, <1>3, <1>4

\* What any call leaves of a table is a table that has no key less, at most the
\* call's operation more, and tells the same of the operations before.
LEMMA ToldLater ==
  ASSUME NEW snap, Table(snap), NEW lv, NEW d \in Nat, Agrees(snap, lv, d),
         NEW c \in Call, d < c.op, NEW reg, NEW unreg
  PROVE  /\ Table(Told(snap, c, reg, unreg))
         /\ Agrees(Told(snap, c, reg, unreg), lv, d)
         /\ DOMAIN snap \subseteq DOMAIN Told(snap, c, reg, unreg)
         /\ DOMAIN Told(snap, c, reg, unreg) \subseteq DOMAIN snap \cup {c.op}
<1>1. c.op \in OpIds /\ c.mem \in Mem /\ c.addr \in Nat
  BY DEF Call
<1>2. /\ Table(Registered(snap, c.op, c.mem)) /\ Table(Unregistered(snap, c.op, c.addr))
      /\ Agrees(Registered(snap, c.op, c.mem), lv, d)
      /\ Agrees(Unregistered(snap, c.op, c.addr), lv, d)
  BY <1>1, RegisteredTable, AgreesLater
<1>3. ASSUME NEW id, NEW mems
      PROVE  /\ DOMAIN snap \subseteq DOMAIN Store(snap, id, mems)
             /\ DOMAIN Store(snap, id, mems) \subseteq DOMAIN snap \cup {id}
  BY DEF Store
<1>4. /\ DOMAIN snap \subseteq DOMAIN Told(snap, c, reg, unreg)
      /\ DOMAIN Told(snap, c, reg, unreg) \subseteq DOMAIN snap \cup {c.op}
  BY <1>3 DEF Told, Registered, Unregistered
<1>5. /\ Table(Told(snap, c, reg, unreg))
      /\ Agrees(Told(snap, c, reg, unreg), lv, d)
  BY <1>2 DEF Told
<1> QED
  BY <1>4, <1>5

\* What a step of a call does to the tables.
Tells(t) ==
  /\ memory_snapshot' = Told(memory_snapshot, call[t], "register", "unregister")
  /\ sub_memory_snapshot' = Told(sub_memory_snapshot, call[t], "subregister", "subunregister")

\* A call keeps the tables, and all that an analysis thread knows of them.  In
\* turn it finds the objects of its operation.
LEMMA CallStep ==
  ASSUME TypeOK, DeviceInv, CallsInv, NEW d \in 0 .. MaxOps, UpTo(d),
         NEW t \in AppThreads, NEW kind \in CallKinds, Return(t, kind), Tells(t)
  PROVE  \E e \in 0 .. MaxOps :
           /\ Keeps(d, e) /\ Front(e)' /\ KeysInv(e)' /\ AnalysesInv(e)'
           /\ TableInv(memory_snapshot, live, e)' /\ TableInv(sub_memory_snapshot, sub_live, e)'
           /\ overtaken' = {} => call[t].op <= e
           /\ call[t].op <= e =>
                /\ SnapshotAt(memory_snapshot', call[t].op) = live[call[t].op]
                /\ SnapshotAt(sub_memory_snapshot', call[t].op) = sub_live[call[t].op]
<1>0. d \in Nat /\ d <= op /\ op \in Nat /\ d \in 0 .. op /\ op \in 0 .. MaxOps /\ Front(d)
  BY SnapshotAssumption DEF UpTo, Front, TypeOK
<1>1. /\ call[t].kind # "idle" /\ d < call[t].op
      /\ UNCHANGED <<op, live, sub_live, discarded>> /\ UNCHANGED analyses
      /\ \/ /\ call[t].op = d + 1 /\ overtaken = {} /\ overtaken' = {}
            /\ Front(d + 1)'
         \/ overtaken' # {} /\ Front(d)'
  BY <1>0, ReturnStep
<1>2. PICK c \in Call : c = call[t] /\ c.op \in 1 .. op /\ c.op \in OpIds
  BY <1>1, CallTypes
<1>3. /\ Table(memory_snapshot) /\ Table(sub_memory_snapshot)
      /\ TableInv(memory_snapshot, live, d) /\ TableInv(sub_memory_snapshot, sub_live, d)
  BY DEF TypeOK, Table, UpTo
<1>4. /\ Table(memory_snapshot') /\ Table(sub_memory_snapshot')
      /\ Agrees(memory_snapshot', live, d) /\ Agrees(sub_memory_snapshot', sub_live, d)
      /\ DOMAIN memory_snapshot \subseteq DOMAIN memory_snapshot'
      /\ DOMAIN memory_snapshot' \subseteq DOMAIN memory_snapshot \cup {c.op}
  BY <1>0, <1>1, <1>2, <1>3, ToldLater DEF Tells, TableInv
<1>5. ASSUME NEW e \in 0 .. MaxOps, d <= e, d < e => overtaken = {},
             overtaken' = {} => overtaken = {}
      PROVE  Keeps(d, e)
  <2>1. discarded \in Nat /\ DOMAIN memory_snapshot' \subseteq OpIds
    BY <1>4, SnapshotAssumption DEF TypeOK, Table
  <2> QED
    BY <1>0, <1>1, <1>2, <1>4, <1>5, <2>1 DEF Keeps
<1>6. CASE overtaken' # {} /\ Front(d)'
  <2>1. Keeps(d, d)
    BY <1>5, <1>6
  <2>2. TableInv(memory_snapshot, live, d)' /\ TableInv(sub_memory_snapshot, sub_live, d)'
    BY <1>1, <1>4, <1>6 DEF TableInv, Agrees, Newest
  <2>3. KeysInv(d)'
    BY <1>0, <2>1, KeysStay DEF UpTo, KeysInv
  <2>4. AnalysesInv(d)'
    BY <1>0, <1>1, <2>1, HistoryStays
  <2>5. (call[t].op <= d) = FALSE /\ (overtaken' = {}) = FALSE
    BY <1>0, <1>1, <1>2, <1>6
  <2> QED
    BY <1>6, <2>1, <2>2, <2>3, <2>4, <2>5, Zenon
<1>7. CASE call[t].op = d + 1 /\ overtaken = {} /\ overtaken' = {} /\ Front(d + 1)'
  <2>1. PICK e \in 0 .. MaxOps : e = d + 1 /\ c.op = e /\ e \in 0 .. op
    <3>1. c.op = d + 1 /\ d + 1 \in 1 .. op
      BY <1>2, <1>7
    <3>2. d + 1 \in 0 .. MaxOps /\ d + 1 \in 0 .. op
      BY <1>0, <3>1, SnapshotAssumption
    <3> QED
      BY <3>1, <3>2
  <2>2. Keeps(d, e)
    BY <1>0, <1>5, <1>7, <2>1
  <2>3. /\ live[d] \in SUBSET Mem /\ Apart(live[d])
        /\ sub_live[d] \in SUBSET Mem /\ Apart(sub_live[d])
    BY <1>0 DEF TypeOK, DeviceInv
  <2>4. /\ MemReport(c, live[d], live[d + 1])
        /\ SubReport(c, sub_live[d], sub_live[d + 1])
    <3>1. CallInv(c)
      BY <1>1, <1>2 DEF CallsInv
    <3>2. c.op - 1 = d
      BY <1>0, <2>1
    <3> QED
      BY <2>1, <3>1, <3>2 DEF CallInv
  <2>5. Exact(memory_snapshot, live, d) /\ Exact(sub_memory_snapshot, sub_live, d)
    BY <1>3, <1>7 DEF TableInv
  <2>6. Exact(memory_snapshot', live, d + 1)
    BY <1>0, <1>2, <1>7, <2>3, <2>4, <2>5, ToldInTurn DEF MemReport, Tells
  <2>7. Exact(sub_memory_snapshot', sub_live, d + 1)
    BY <1>0, <1>2, <1>7, <2>3, <2>4, <2>5, ToldInTurn DEF SubReport, Tells
  <2>8. /\ SnapshotAt(memory_snapshot', e) = live[e]
        /\ SnapshotAt(sub_memory_snapshot', e) = sub_live[e]
    BY <1>0, <2>1, <2>6, <2>7, ExactNow
  <2>9. TableInv(memory_snapshot, live, e)' /\ TableInv(sub_memory_snapshot, sub_live, e)'
    BY <1>1, <2>1, <2>6, <2>7 DEF TableInv, Exact, Agrees, Newest
  <2>10. KeysInv(e)'
    <3>1. ASSUME NEW o \in 0 .. e PROVE live'[o] = {} \/ HasKey(o)' \/ o < discarded'
      <4>1. CASE o \in 0 .. d
        BY <1>0, <2>2, <4>1, KeysStay DEF UpTo
      <4>2. CASE o \notin 0 .. d
        <5>1. o = e
          BY <1>0, <2>1, <4>2
        <5>2. CASE DOMAIN memory_snapshot' = {}
          BY <1>1, <2>1, <2>6, <5>1, <5>2 DEF Exact
        <5>3. CASE DOMAIN memory_snapshot' # {}
          BY <2>1, <2>6, <5>1, <5>3 DEF Exact, HasKey
        <5> QED
          BY <5>2, <5>3
      <4> QED
        BY <4>1, <4>2
    <3> QED
      BY <3>1 DEF KeysInv
  <2>11. AnalysesInv(e)'
    BY <1>0, <1>1, <2>2, HistoryStays
  <2>12. c.op <= e
    BY <1>0, <2>1
  <2> QED
    BY <1>2, <1>7, <2>1, <2>2, <2>8, <2>9, <2>10, <2>11, <2>12
<1> QED
  BY <1>1, <1>6, <1>7

\* The calls that change a table keep the invariant.
LEMMA MemoryCallStep ==
  ASSUME IInv, NEW t \in AppThreads,
         \/ memory_register(t) \/ memory_unregister(t)
         \/ submemory_register(t) \/ submemory_unregister(t)
  PROVE  IInv'
<1>0. TypeOK /\ DeviceInv /\ CallsInv
  BY DEF IInv
<1>1. PICK kind \in {"register", "unregister", "subregister", "subunregister"} : Return(t, kind)
  BY DEF memory_register, memory_unregister, submemory_register, submemory_unregister
<1>2. kind \in CallKinds
  BY DEF CallKinds
<1>3. PICK d \in 0 .. MaxOps : UpTo(d)
  BY DEF IInv
<1>4. d \in Nat /\ Front(d)
  BY <1>3, SnapshotAssumption DEF UpTo
<1>5. /\ call[t].kind # "idle"
      /\ call' \in [AppThreads -> Call \cup {Idle}] /\ overtaken' \subseteq OpIds
      /\ UNCHANGED <<op, live, sub_live, discarded>> /\ UNCHANGED analyses
      /\ DeviceInv' /\ CallsInv' /\ d < call[t].op
  BY <1>0, <1>1, <1>2, <1>4, ReturnStep
<1>6. Tells(t) /\ UNCHANGED <<traces, answer>>
  BY DEF memory_register, memory_unregister, submemory_register, submemory_unregister,
         Return, Tells, Told
<1>7. PICK e \in 0 .. MaxOps :
        /\ Keeps(d, e) /\ Front(e)' /\ KeysInv(e)' /\ AnalysesInv(e)'
        /\ TableInv(memory_snapshot, live, e)' /\ TableInv(sub_memory_snapshot, sub_live, e)'
  BY <1>0, <1>1, <1>2, <1>3, <1>6, CallStep
<1>8. TracesInv(e)' /\ AnswerInv(e)'
  BY <1>0, <1>3, <1>4, <1>6, <1>7, HistoryStays
<1>9. TypeOK'
  <2>1. Table(memory_snapshot') /\ Table(sub_memory_snapshot')
    <3>1. Table(memory_snapshot) /\ Table(sub_memory_snapshot)
      BY <1>0 DEF TypeOK, Table
    <3>2. call[t] \in Call
      BY <1>0, <1>5, CallTypes
    <3>3. Agrees(memory_snapshot, live, d) /\ Agrees(sub_memory_snapshot, sub_live, d)
      BY <1>3 DEF UpTo, TableInv
    <3> QED
      BY <1>4, <1>5, <1>6, <3>1, <3>2, <3>3, ToldLater DEF Tells
  <2> QED
    BY <1>0, <1>5, <1>6, <2>1 DEF TypeOK, Table, analyses
<1>10. UpTo(e)'
  BY <1>7, <1>8 DEF UpTo
<1> QED
  BY <1>5, <1>9, <1>10 DEF IInv

\* The call of a copy keeps the invariant.
LEMMA CopyStep ==
  ASSUME IInv, NEW t \in AppThreads, memcpy_register(t)
  PROVE  IInv'
<1>0. TypeOK /\ DeviceInv /\ CallsInv
  BY DEF IInv
<1>1. Return(t, "copy") /\ "copy" \in CallKinds
  BY DEF memcpy_register, CallKinds
<1>2. PICK d \in 0 .. MaxOps : UpTo(d)
  BY DEF IInv
<1>3. d \in Nat /\ Front(d)
  BY <1>2, SnapshotAssumption DEF UpTo
<1>4. /\ call[t].kind = "copy"
      /\ call' \in [AppThreads -> Call \cup {Idle}] /\ overtaken' \subseteq OpIds
      /\ UNCHANGED <<op, live, sub_live, discarded>> /\ UNCHANGED analyses
      /\ DeviceInv' /\ CallsInv'
  BY <1>0, <1>1, <1>3, ReturnStep
<1>5. PICK o, addr : o = call[t].op /\ addr = call[t].addr
  OBVIOUS
<1>6. o \in OpIds /\ o \in 1 .. op /\ addr \in Nat /\ o \in 0 .. MaxOps /\ o \in 0 .. op
      /\ op \in Nat
  BY <1>0, <1>4, <1>5, CallTypes, SnapshotAssumption DEF OpIds, TypeOK
<1>7. live[o] \in SUBSET Mem /\ Apart(live[o]) /\ Owned(live[o], addr)
  BY <1>0, <1>4, <1>5, <1>6 DEF TypeOK, DeviceInv, CallsInv, CallInv
<1>8. /\ answer' = [status |-> "owner", op |-> o, addr |-> addr,
                    mems |-> Query(SnapshotAt(memory_snapshot, o), addr)]
      /\ UNCHANGED <<memory_snapshot, sub_memory_snapshot, traces>>
  BY <1>5 DEF memcpy_register, tables
<1>9. Tells(t)
  BY <1>4, <1>8 DEF Tells, Told
<1>10. PICK e \in 0 .. MaxOps :
         /\ Keeps(d, e) /\ Front(e)' /\ KeysInv(e)' /\ AnalysesInv(e)'
         /\ TableInv(memory_snapshot, live, e)' /\ TableInv(sub_memory_snapshot, sub_live, e)'
         /\ overtaken' = {} => o <= e
         /\ o <= e => SnapshotAt(memory_snapshot', o) = live[o]
  BY <1>0, <1>1, <1>2, <1>5, <1>9, CallStep
<1>11. TracesInv(e)'
  BY <1>0, <1>2, <1>3, <1>8, <1>10, HistoryStays
<1>12. AnswerInv(e)'
  <2>1. o <= op' /\ answer'.op = o /\ answer'.status = "owner"
    BY <1>4, <1>6, <1>8
  <2>2. ASSUME o <= e PROVE RightAnswer'
    <3>1. answer'.mems = {n \in live[o] : Contains(n, addr)}
      BY <1>6, <1>7, <1>8, <1>10, <2>2, LookupIsOwner
    <3> QED
      BY <1>4, <1>8, <3>1 DEF RightAnswer, Contains
  <2> QED
    BY <1>10, <2>1, <2>2 DEF AnswerInv
<1>13. TypeOK'
  <2>1. SnapshotAt(memory_snapshot, o) \subseteq Mem
    <3>1. o \in Nat /\ Table(memory_snapshot) /\ Table(sub_memory_snapshot)
      BY <1>0, <1>6 DEF TypeOK, Table
    <3> QED
      BY <3>1, PrevType
  <2>2. answer' \in Answer
    BY <1>6, <1>8, <2>1 DEF Answer, Query, Below
  <2> QED
    BY <1>0, <1>4, <1>8, <2>2 DEF TypeOK, analyses
<1>14. UpTo(e)'
  BY <1>10, <1>11, <1>12 DEF UpTo
<1> QED
  BY <1>4, <1>13, <1>14 DEF IInv

\* The buffers a kernel adds to those still to be analysed.
LEMMA TraceBuffers ==
  ASSUME NEW s \in Seq(Trace), NEW n \in Nat, NEW tr \in Trace
  PROVE  /\ s \o [i \in 1 .. n |-> tr] \in Seq(Trace)
         /\ Len(s \o [i \in 1 .. n |-> tr]) = Len(s) + n
         /\ \A i \in 1 .. Len(s) + n :
              (s \o [j \in 1 .. n |-> tr])[i] = IF i <= Len(s) THEN s[i] ELSE tr
<1> DEFINE q == [i \in 1 .. n |-> tr]
<1>1. q \in Seq(Trace) /\ Len(q) = n /\ \A i \in 1 .. n : q[i] = tr
  OBVIOUS
<1> HIDE DEF q
<1>2. /\ s \o q \in Seq(Trace) /\ Len(s \o q) = Len(s) + n
      /\ \A i \in 1 .. Len(s) + n : (s \o q)[i] = IF i <= Len(s) THEN s[i] ELSE q[i - Len(s)]
  BY <1>1
<1>3. \A i \in 1 .. Len(s) + n : ~ (i <= Len(s)) => i - Len(s) \in 1 .. n
  OBVIOUS
<1>4. \A i \in 1 .. Len(s) + n : (s \o q)[i] = IF i <= Len(s) THEN s[i] ELSE tr
  BY <1>1, <1>2, <1>3
<1> QED
  BY <1>2, <1>4 DEF q

\* A call before a launch keeps the invariant.
LEMMA LaunchStep ==
  ASSUME IInv, NEW t \in AppThreads, NEW n \in 1 .. MaxTraces,
         memory_ranges_get(t, n) \/ submemory_ranges_get(t, n)
  PROVE  IInv'
<1>0. TypeOK /\ DeviceInv /\ CallsInv
  BY DEF IInv
<1>1. Return(t, "launch") /\ "launch" \in CallKinds
  BY DEF memory_ranges_get, submemory_ranges_get, RangesGet, CallKinds
<1>2. PICK d \in 0 .. MaxOps : UpTo(d)
  BY DEF IInv
<1>3. d \in Nat /\ Front(d) /\ TracesInv(d)
  BY <1>2, SnapshotAssumption DEF UpTo
<1>4. /\ call[t].kind = "launch"
      /\ call' \in [AppThreads -> Call \cup {Idle}] /\ overtaken' \subseteq OpIds
      /\ UNCHANGED <<op, live, sub_live, discarded>> /\ UNCHANGED analyses
      /\ DeviceInv' /\ CallsInv'
  BY <1>0, <1>1, <1>3, ReturnStep
<1>5. PICK o, addr : o = call[t].op /\ addr = call[t].addr
  OBVIOUS
<1>6. o \in OpIds /\ o \in 1 .. op /\ addr \in Nat /\ o \in 0 .. MaxOps /\ op \in Nat
  BY <1>0, <1>4, <1>5, CallTypes, SnapshotAssumption DEF OpIds, TypeOK
<1>7. PICK tr \in Trace : tr = [op |-> o, addr |-> addr] /\ tr.op = o /\ tr.addr = addr
  <2>1. [op |-> o, addr |-> addr] \in Trace
    BY <1>6 DEF Trace
  <2> QED
    BY <2>1
<1>8. /\ \/ answer' = [status |-> "ranges", op |-> o, addr |-> 0,
                       mems |-> SnapshotAt(memory_snapshot, o)]
         \/ answer' = [status |-> "subranges", op |-> o, addr |-> 0,
                       mems |-> SnapshotAt(sub_memory_snapshot, o)]
      /\ traces' = [traces EXCEPT ![t] = @ \o [i \in 1 .. n |-> tr]]
      /\ UNCHANGED <<memory_snapshot, sub_memory_snapshot>>
  BY <1>5, <1>7 DEF memory_ranges_get, submemory_ranges_get, RangesGet, tables
<1>9. Tells(t)
  BY <1>4, <1>8 DEF Tells, Told
<1>10. PICK e \in 0 .. MaxOps :
         /\ Keeps(d, e) /\ Front(e)' /\ KeysInv(e)' /\ AnalysesInv(e)'
         /\ TableInv(memory_snapshot, live, e)' /\ TableInv(sub_memory_snapshot, sub_live, e)'
         /\ overtaken' = {} => o <= e
         /\ o <= e => /\ SnapshotAt(memory_snapshot', o) = live[o]
                      /\ SnapshotAt(sub_memory_snapshot', o) = sub_live[o]
  BY <1>0, <1>1, <1>2, <1>5, <1>9, CallStep
<1>11. n \in Nat /\ traces[t] \in Seq(Trace)
  BY <1>0, SnapshotAssumption DEF TypeOK
<1>12. /\ traces'[t] \in Seq(Trace) /\ Len(traces'[t]) = Len(traces[t]) + n
       /\ \A i \in 1 .. Len(traces[t]) + n :
            traces'[t][i] = IF i <= Len(traces[t]) THEN traces[t][i] ELSE tr
       /\ \A u \in AppThreads \ {t} : traces'[u] = traces[u]
  <2>1. traces'[t] = traces[t] \o [i \in 1 .. n |-> tr]
    BY <1>0, <1>8 DEF TypeOK
  <2>2. \A u \in AppThreads \ {t} : traces'[u] = traces[u]
    BY <1>0, <1>8 DEF TypeOK
  <2> QED
    BY <1>11, <2>1, <2>2, TraceBuffers
<1>13. TracesInv(e)'
  <2>0. Owned(live[o], addr)
    BY <1>0, <1>4, <1>5 DEF CallsInv, CallInv
  <2>1. TraceInv(tr, e)'
    BY <1>4, <1>6, <1>7, <1>10, <2>0 DEF TraceInv, Owned, Contains
  <2>2. ASSUME NEW u \in AppThreads, NEW i \in 1 .. Len(traces'[u])
        PROVE  TraceInv(traces[u][i], e)'
    <3>1. PICK x : x = traces'[u][i]
      OBVIOUS
    <3>2. TraceInv(x, d) \/ x = tr
      <4>1. CASE u = t /\ ~ (i <= Len(traces[t]))
        BY <1>11, <1>12, <3>1, <4>1
      <4>2. CASE u = t /\ i <= Len(traces[t])
        <5>1. i \in 1 .. Len(traces[t]) /\ x = traces[t][i]
          BY <1>11, <1>12, <3>1, <4>2
        <5> QED
          BY <1>3, <5>1 DEF TracesInv
      <4>3. CASE u # t
        BY <1>3, <1>12, <3>1, <4>3 DEF TracesInv
      <4> QED
        BY <4>1, <4>2, <4>3
    <3>3. TraceInv(x, e)'
      <4>1. CASE TraceInv(x, d)
        BY <1>0, <1>3, <1>10, <4>1, TraceStays
      <4>2. CASE x = tr
        BY <2>1, <4>2
      <4> QED
        BY <3>2, <4>1, <4>2
    <3> QED
      BY <3>1, <3>3 DEF TraceInv
  <2> QED
    BY <2>2 DEF TracesInv
<1>14. AnswerInv(e)'
  <2>1. o <= op' /\ answer'.op = o /\ answer'.status \in {"ranges", "subranges"}
    BY <1>4, <1>6, <1>8
  <2>2. ASSUME o <= e PROVE RightAnswer'
    <3>1. /\ SnapshotAt(memory_snapshot, o) = live'[o]
          /\ SnapshotAt(sub_memory_snapshot, o) = sub_live'[o]
      BY <1>4, <1>8, <1>10, <2>2
    <3> QED
      BY <1>8, <3>1 DEF RightAnswer
  <2> QED
    BY <1>10, <2>1, <2>2 DEF AnswerInv
<1>15. TypeOK'
  <2>1. SnapshotAt(memory_snapshot, o) \subseteq Mem /\ SnapshotAt(sub_memory_snapshot, o) \subseteq Mem
    <3>1. o \in Nat /\ Table(memory_snapshot) /\ Table(sub_memory_snapshot)
      BY <1>0, <1>6 DEF TypeOK, Table
    <3> QED
      BY <3>1, PrevType
  <2>2. answer' \in Answer
    BY <1>6, <1>8, <2>1 DEF Answer
  <2>3. traces' \in [AppThreads -> Seq(Trace)]
    BY <1>0, <1>8, <1>12 DEF TypeOK
  <2> QED
    BY <1>0, <1>4, <1>8, <2>2, <2>3 DEF TypeOK, analyses
<1>16. UpTo(e)'
  BY <1>10, <1>13, <1>14 DEF UpTo
<1> QED
  BY <1>4, <1>15, <1>16 DEF IInv

-----------------------------------------------------------------------------
(* Preservation of IInv by the analysis threads *)

\* What no analysis thread touches.  Snapshots are discarded for a minimum that
\* is remembered.
Discarding ==
  /\ discarded' \in 0 .. MaxOps /\ discarded <= discarded'
  /\ \/ UNCHANGED memory_snapshot
     \/ \E mini \in Nat :
          /\ mini <= discarded'
          /\ memory_snapshot' = [s \in Kept(memory_snapshot, mini) |-> memory_snapshot[s]]

\* So the history and the other table stay, and what is left agrees with them.
LEMMA AnalysisFrame ==
  ASSUME TypeOK, DeviceInv, CallsInv, NEW d \in 0 .. MaxOps, UpTo(d),
         UNCHANGED <<op, live, sub_live, call, sub_memory_snapshot, overtaken>>, Discarding
  PROVE  /\ Keeps(d, d) /\ DeviceInv' /\ CallsInv' /\ Front(d)' /\ KeysInv(d)'
         /\ TableInv(memory_snapshot, live, d)' /\ TableInv(sub_memory_snapshot, sub_live, d)'
         /\ Table(memory_snapshot')
<1>0. /\ d \in Nat /\ d <= op /\ op \in Nat /\ discarded \in Nat /\ discarded' \in Nat
      /\ DOMAIN memory_snapshot \subseteq OpIds /\ Table(memory_snapshot)
      /\ TableInv(memory_snapshot, live, d)
  BY SnapshotAssumption DEF UpTo, Front, TypeOK, Discarding, Table
<1>1. /\ Agrees(memory_snapshot', live, d)
      /\ overtaken = {} => Exact(memory_snapshot', live, d)
      /\ DOMAIN memory_snapshot' \subseteq DOMAIN memory_snapshot
      /\ \A s \in DOMAIN memory_snapshot' : memory_snapshot'[s] = memory_snapshot[s]
      /\ \A o \in 0 .. d : \A s \in DOMAIN memory_snapshot :
           Newest(memory_snapshot, s, o) => s \in DOMAIN memory_snapshot' \/ o < discarded'
  <2>1. CASE UNCHANGED memory_snapshot
    BY <1>0, <2>1 DEF TableInv
  <2>2. CASE ~ UNCHANGED memory_snapshot
    <3>1. PICK mini \in Nat :
            /\ mini <= discarded'
            /\ memory_snapshot' = [s \in Kept(memory_snapshot, mini) |-> memory_snapshot[s]]
      BY <2>2 DEF Discarding
    <3>2. Agrees(memory_snapshot', live, d) /\ (overtaken = {} => Exact(memory_snapshot', live, d))
      BY <1>0, <3>1, AgreesKept, ExactKept DEF TableInv
    <3>3. DOMAIN memory_snapshot' = Kept(memory_snapshot, mini)
      BY <3>1
    <3>4. ASSUME NEW o \in 0 .. d, NEW s \in DOMAIN memory_snapshot, Newest(memory_snapshot, s, o)
          PROVE  s \in DOMAIN memory_snapshot' \/ o < discarded'
      <4>1. o \in Nat
        OBVIOUS
      <4>2. s \in Kept(memory_snapshot, mini) \/ o < mini
        BY <1>0, <3>4, <4>1, NewestKept
      <4> QED
        BY <1>0, <3>1, <3>3, <4>1, <4>2
    <3> QED
      BY <3>1, <3>2, <3>3, <3>4 DEF Kept
  <2> QED
    BY <2>1, <2>2
<1>2. Keeps(d, d)
  BY <1>0, <1>1 DEF Keeps, Discarding
<1>3. DeviceInv' /\ CallsInv'
  BY DEF DeviceInv, CallsInv, CallInv, Apart, MemReport, SubReport, Reports, Owned, Contains
<1>4. Front(d)'
  BY DEF UpTo, Front
<1>5. TableInv(memory_snapshot, live, d)'
  BY <1>1 DEF TableInv, Exact, Agrees, Newest
<1>6. TableInv(sub_memory_snapshot, sub_live, d)'
  BY DEF UpTo, TableInv, Exact, Agrees, Newest
<1>7. KeysInv(d)'
  BY <1>0, <1>2, KeysStay DEF UpTo, KeysInv
<1>8. Table(memory_snapshot')
  BY <1>0, <1>1 DEF Table
<1> QED
  BY <1>2, <1>3, <1>4, <1>5, <1>6, <1>7, <1>8

\* The begin and the end of a round keep the invariant.
LEMMA RoundStep ==
  ASSUME IInv, NEW a \in AnalysisThreads, analysis_begin(a) \/ analysis_end(a)
  PROVE  IInv'
<1>0. TypeOK /\ DeviceInv /\ CallsInv
  BY DEF IInv
<1>1. PICK d \in 0 .. MaxOps : UpTo(d)
  BY DEF IInv
<1>2. /\ UNCHANGED <<op, live, sub_live, call, sub_memory_snapshot, overtaken>>
      /\ UNCHANGED <<traces, cur, map, answer>>
      /\ \E pc \in {"in", "out"} : apc' = [apc EXCEPT ![a] = pc]
  BY DEF analysis_begin, analysis_end, Step, tables, device
<1>3. Discarding
  <2>0. discarded \in 0 .. MaxOps /\ mini_host_op_id[a] \in 0 .. MaxOps
    BY <1>0 DEF TypeOK
  <2>1. CASE analysis_begin(a)
    BY <2>0, <2>1, SnapshotAssumption DEF analysis_begin, tables, Discarding
  <2>2. CASE analysis_end(a)
    <3>1. discarded' = IF Discards(a) /\ mini_host_op_id[a] > discarded
                       THEN mini_host_op_id[a] ELSE discarded
      BY <2>2 DEF analysis_end
    <3>2. discarded' \in 0 .. MaxOps /\ discarded <= discarded'
      BY <2>0, <3>1, SnapshotAssumption
    <3>3. Discards(a) => mini_host_op_id[a] <= discarded' /\ mini_host_op_id[a] \in Nat
      BY <2>0, <3>1, SnapshotAssumption
    <3>4. memory_snapshot' = IF Discards(a)
                             THEN [s \in Kept(memory_snapshot, mini_host_op_id[a]) |-> memory_snapshot[s]]
                             ELSE memory_snapshot
      BY <2>2 DEF analysis_end
    <3> QED
      BY <3>2, <3>3, <3>4 DEF Discarding
  <2> QED
    BY <2>1, <2>2
<1>4. /\ Keeps(d, d) /\ DeviceInv' /\ CallsInv' /\ Front(d)' /\ KeysInv(d)'
      /\ TableInv(memory_snapshot, live, d)' /\ TableInv(sub_memory_snapshot, sub_live, d)'
      /\ Table(memory_snapshot')
  BY <1>0, <1>1, <1>2, <1>3, AnalysisFrame
<1>5. d \in Nat /\ d <= op /\ AnalysesInv(d)
  BY <1>1, SnapshotAssumption DEF UpTo, Front
<1>6. AnalysesInv(d)'
  <2>1. ASSUME NEW b \in AnalysisThreads PROVE ThreadInv(b, d)'
    <3>1. CASE b = a
      BY <1>0, <1>2, <3>1 DEF ThreadInv, TypeOK
    <3>2. CASE b # a
      <4>1. apc'[b] = apc[b] /\ cur'[b] = cur[b] /\ map'[b] = map[b]
        BY <1>0, <1>2, <3>2 DEF TypeOK
      <4> QED
        BY <1>0, <1>4, <1>5, <4>1, ThreadStays DEF AnalysesInv
    <3> QED
      BY <3>1, <3>2
  <2> QED
    BY <2>1 DEF AnalysesInv
<1>7. TracesInv(d)' /\ AnswerInv(d)'
  BY <1>0, <1>1, <1>2, <1>4, <1>5, HistoryStays
<1>8. TypeOK'
  <2>1. apc' \in [AnalysisThreads -> {"out", "in", "fetch", "use"}]
    BY <1>0, <1>2 DEF TypeOK
  <2>2. mini_host_op_id' \in [AnalysisThreads -> 0 .. MaxOps]
    <3>1. 0 \in 0 .. MaxOps
      BY SnapshotAssumption
    <3>2. CASE UNCHANGED mini_host_op_id
      BY <1>0, <3>2 DEF TypeOK
    <3>3. CASE mini_host_op_id' = [mini_host_op_id EXCEPT ![a] = 0]
      BY <1>0, <3>1, <3>3 DEF TypeOK
    <3> QED
      BY <3>2, <3>3 DEF analysis_begin, analysis_end
  <2> QED
    BY <1>0, <1>2, <1>3, <1>4, <2>1, <2>2 DEF TypeOK, Table, Discarding
<1>9. UpTo(d)'
  BY <1>4, <1>6, <1>7 DEF UpTo
<1> QED
  BY <1>1, <1>4, <1>8, <1>9 DEF IInv

\* Taking a trace keeps the invariant.
LEMMA AnalyzeStep ==
  ASSUME IInv, NEW a \in AnalysisThreads, NEW t \in AppThreads, analyze(a, t)
  PROVE  IInv'
<1>0. TypeOK /\ DeviceInv /\ CallsInv
  BY DEF IInv
<1>1. PICK d \in 0 .. MaxOps : UpTo(d)
  BY DEF IInv
<1>2. /\ UNCHANGED <<op, live, sub_live, call, sub_memory_snapshot, overtaken>>
      /\ UNCHANGED <<memory_snapshot, map, mini_host_op_id, answer, discarded>>
      /\ traces[t] # <<>>
      /\ cur' = [cur EXCEPT ![a] = Head(traces[t])]
      /\ traces' = [traces EXCEPT ![t] = Tail(traces[t])]
      /\ \E pc \in {"in", "fetch"} : apc' = [apc EXCEPT ![a] = pc]
  BY DEF analyze, Step, tables, device
<1>3. Discarding
  BY <1>0, <1>2, SnapshotAssumption DEF Discarding, TypeOK
<1>4. /\ Keeps(d, d) /\ DeviceInv' /\ CallsInv' /\ Front(d)' /\ KeysInv(d)'
      /\ TableInv(memory_snapshot, live, d)' /\ TableInv(sub_memory_snapshot, sub_live, d)'
  BY <1>0, <1>1, <1>2, <1>3, AnalysisFrame
<1>5. d \in Nat /\ d <= op /\ AnalysesInv(d) /\ TracesInv(d)
  BY <1>1, SnapshotAssumption DEF UpTo, Front
<1>6. PICK s \in Seq(Trace) : s = traces[t] /\ s # <<>>
  BY <1>0, <1>2 DEF TypeOK
<1>7. /\ Head(s) = s[1] /\ Head(s) \in Trace /\ 1 \in 1 .. Len(s)
      /\ Tail(s) \in Seq(Trace) /\ Len(Tail(s)) = Len(s) - 1
      /\ \A i \in 1 .. Len(Tail(s)) : i + 1 \in 1 .. Len(s) /\ Tail(s)[i] = s[i + 1]
  BY <1>6
<1>8. /\ cur'[a] = s[1] /\ traces'[t] = Tail(s)
      /\ \A u \in AppThreads \ {t} : traces'[u] = traces[u]
      /\ \A b \in AnalysisThreads \ {a} : cur'[b] = cur[b] /\ apc'[b] = apc[b]
      /\ apc'[a] # "use"
  BY <1>0, <1>2, <1>6, <1>7 DEF TypeOK
<1>9. TypeOK'
  <2>1. cur' \in [AnalysisThreads -> Trace \cup {NoTrace}]
    BY <1>0, <1>2, <1>6, <1>7 DEF TypeOK
  <2>2. traces' \in [AppThreads -> Seq(Trace)]
    BY <1>0, <1>2, <1>6, <1>7 DEF TypeOK
  <2>3. apc' \in [AnalysisThreads -> {"out", "in", "fetch", "use"}]
    BY <1>0, <1>2 DEF TypeOK
  <2> QED
    BY <1>0, <1>2, <2>1, <2>2, <2>3 DEF TypeOK
<1>10. \A i \in 1 .. Len(s) : TraceInv(s[i], d)
  BY <1>5, <1>6 DEF TracesInv
<1>11. TracesInv(d)'
  <2>1. ASSUME NEW u \in AppThreads, NEW i \in 1 .. Len(traces'[u])
        PROVE  TraceInv(traces[u][i], d)'
    <3>1. PICK x : x = traces'[u][i]
      OBVIOUS
    <3>2. TraceInv(x, d)
      <4>1. CASE u = t
        BY <1>7, <1>8, <1>10, <2>1, <3>1, <4>1
      <4>2. CASE u # t
        BY <1>5, <1>8, <2>1, <3>1, <4>2 DEF TracesInv
      <4> QED
        BY <4>1, <4>2
    <3>3. TraceInv(x, d)'
      BY <1>0, <1>4, <1>5, <3>2, TraceStays
    <3> QED
      BY <3>1, <3>3 DEF TraceInv
  <2> QED
    BY <2>1 DEF TracesInv
<1>12. AnalysesInv(d)'
  <2>1. ASSUME NEW b \in AnalysisThreads PROVE ThreadInv(b, d)'
    <3>1. CASE b = a
      <4>1. PICK x : x = s[1]
        OBVIOUS
      <4>2. TraceInv(x, d)'
        BY <1>0, <1>4, <1>5, <1>7, <1>10, <4>1, TraceStays
      <4>3. TraceInv(cur[a], d)'
        BY <1>8, <4>1, <4>2 DEF TraceInv
      <4> QED
        BY <1>8, <3>1, <4>3 DEF ThreadInv
    <3>2. CASE b # a
      BY <1>0, <1>2, <1>4, <1>5, <1>8, <3>2, ThreadStays DEF AnalysesInv
    <3> QED
      BY <3>1, <3>2
  <2> QED
    BY <2>1 DEF AnalysesInv
<1>13. AnswerInv(d)'
  BY <1>0, <1>1, <1>2, <1>4, <1>5, HistoryStays
<1>14. UpTo(d)'
  BY <1>4, <1>11, <1>12, <1>13 DEF UpTo
<1> QED
  BY <1>1, <1>4, <1>9, <1>14 DEF IInv

\* The trace a thread works at.
LEMMA TraceAtWork ==
  ASSUME TypeOK, NEW d \in 0 .. MaxOps, UpTo(d), NEW a \in AnalysisThreads,
         apc[a] \in {"fetch", "use"}, NEW tr, tr = cur[a]
  PROVE  /\ TraceInv(tr, d) /\ tr \in Trace /\ tr.op \in Nat /\ tr.op \in 0 .. MaxOps
         /\ tr.addr \in Nat /\ tr.op \in 0 .. op /\ op \in Nat /\ d \in Nat /\ d <= op
<1>1. TraceInv(tr, d) /\ tr.op \in OpIds /\ tr.op <= op
  BY DEF UpTo, AnalysesInv, ThreadInv, TraceInv
<1>2. op \in Nat /\ d \in Nat /\ d <= op
  BY SnapshotAssumption DEF TypeOK, UpTo, Front
<1>3. tr.op \in Nat /\ tr.op # 0 /\ tr.op \in 0 .. MaxOps /\ tr.op \in 0 .. op
  BY <1>1, <1>2, SnapshotAssumption DEF OpIds
<1>4. tr \in Trace \cup {NoTrace}
  BY DEF TypeOK
<1>5. tr # NoTrace
  BY <1>3 DEF NoTrace
<1>6. tr \in Trace /\ tr.addr \in Nat
  BY <1>4, <1>5 DEF Trace
<1> QED
  BY <1>1, <1>2, <1>3, <1>6

\* The search for the snapshot keeps the invariant.
LEMMA FetchStep ==
  ASSUME IInv, NEW a \in AnalysisThreads, FetchSnapshot(a)
  PROVE  IInv'
<1>0. TypeOK /\ DeviceInv /\ CallsInv
  BY DEF IInv
<1>1. PICK d \in 0 .. MaxOps : UpTo(d)
  BY DEF IInv
<1>2. PICK tr, key : tr = cur[a] /\ key = Prev(memory_snapshot, tr.op)
  OBVIOUS
<1>3. /\ UNCHANGED <<op, live, sub_live, call, sub_memory_snapshot, overtaken>>
      /\ UNCHANGED <<memory_snapshot, traces, cur, mini_host_op_id, discarded>>
      /\ apc[a] = "fetch"
      /\ apc' = [apc EXCEPT ![a] = IF key = 0 THEN "in" ELSE "use"]
      /\ map' = [map EXCEPT ![a] = key]
      /\ answer' = IF key = 0 THEN Answered(a, "refused", {}) ELSE answer
  BY <1>2 DEF FetchSnapshot, Step, tables, device
<1>4. Discarding
  BY <1>0, <1>3, SnapshotAssumption DEF Discarding, TypeOK
<1>5. /\ Keeps(d, d) /\ DeviceInv' /\ CallsInv' /\ Front(d)' /\ KeysInv(d)'
      /\ TableInv(memory_snapshot, live, d)' /\ TableInv(sub_memory_snapshot, sub_live, d)'
  BY <1>0, <1>1, <1>3, <1>4, AnalysisFrame
<1>6. /\ TraceInv(tr, d) /\ tr \in Trace /\ tr.op \in Nat /\ tr.op \in 0 .. MaxOps
      /\ tr.addr \in Nat /\ tr.op \in 0 .. op /\ op \in Nat /\ d \in Nat /\ d <= op
  BY <1>0, <1>1, <1>2, <1>3, TraceAtWork
<1>7. key \in 0 .. MaxOps
  <2>1. Table(memory_snapshot)
    BY <1>0 DEF TypeOK, Table
  <2> QED
    BY <1>2, <1>6, <2>1, PrevType
<1>8. ASSUME tr.op <= d
      PROVE  IF key = 0 THEN tr.op < discarded ELSE Points(key, tr.op)
  <2>1. Agrees(memory_snapshot, live, d) /\ tr.op \in 0 .. d
    BY <1>1, <1>6, <1>8 DEF UpTo, TableInv
  <2>2. DOMAIN memory_snapshot \subseteq OpIds /\ 0 \notin OpIds
    BY <1>0 DEF TypeOK, OpIds
  <2>3. \/ key = 0 /\ \A s \in DOMAIN memory_snapshot : s > tr.op
        \/ /\ key \in DOMAIN memory_snapshot
           /\ Newest(memory_snapshot, key, tr.op)
           /\ live[key] = live[tr.op]
    BY <1>2, <1>6, <2>1, AgreesAt
  <2>4. CASE key # 0
    BY <2>3, <2>4 DEF Points
  <2>5. CASE key = 0
    <3>1. \A s \in DOMAIN memory_snapshot : s \in Nat /\ s > tr.op
      BY <2>2, <2>3, <2>5 DEF OpIds
    <3>2. ~ HasKey(tr.op)
      BY <1>6, <3>1 DEF HasKey
    <3>3. live[tr.op] # {}
      BY <1>6 DEF TraceInv, Owned
    <3> QED
      BY <1>1, <2>1, <2>5, <3>2, <3>3 DEF UpTo, KeysInv
  <2> QED
    BY <2>4, <2>5
<1>9. /\ map'[a] = key /\ apc'[a] = (IF key = 0 THEN "in" ELSE "use")
      /\ \A b \in AnalysisThreads \ {a} : map'[b] = map[b] /\ apc'[b] = apc[b]
  BY <1>0, <1>3 DEF TypeOK
<1>10. AnalysesInv(d)'
  <2>1. ASSUME NEW b \in AnalysisThreads PROVE ThreadInv(b, d)'
    <3>1. CASE b = a
      <4>1. TraceInv(cur[a], d)'
        BY <1>2, <1>3, <1>6 DEF TraceInv, Owned, Contains
      <4>2. ASSUME key # 0, tr.op <= d PROVE Points(map[a], cur[a].op)'
        BY <1>2, <1>3, <1>8, <1>9, <4>2 DEF Points, Newest
      <4> QED
        BY <1>2, <1>3, <1>9, <3>1, <4>1, <4>2 DEF ThreadInv
    <3>2. CASE b # a
      BY <1>0, <1>1, <1>3, <1>5, <1>6, <1>9, <3>2, ThreadStays DEF UpTo, AnalysesInv
    <3> QED
      BY <3>1, <3>2
  <2> QED
    BY <2>1 DEF AnalysesInv
<1>11. answer' \in Answer /\ AnswerInv(d)'
  <2>1. CASE key # 0
    BY <1>0, <1>1, <1>3, <1>5, <1>6, <2>1, HistoryStays DEF TypeOK
  <2>2. CASE key = 0
    <3>1. answer' = [status |-> "refused", op |-> tr.op, addr |-> tr.addr, mems |-> {}]
      BY <1>2, <1>3, <2>2 DEF Answered
    <3>2. answer' \in Answer
      BY <1>6, <3>1 DEF Answer
    <3>3. tr.op <= op /\ (overtaken = {} => tr.op <= d)
      BY <1>6 DEF TraceInv
    <3>4. answer'.op = tr.op /\ answer'.status = "refused"
      BY <3>1
    <3>5. RightAnswer'
      BY <3>4 DEF RightAnswer
    <3> QED
      BY <1>3, <1>8, <2>2, <3>2, <3>3, <3>4, <3>5 DEF AnswerInv
  <2> QED
    BY <2>1, <2>2
<1>12. TypeOK'
  <2>1. apc' \in [AnalysisThreads -> {"out", "in", "fetch", "use"}]
    BY <1>0, <1>3 DEF TypeOK
  <2>2. map' \in [AnalysisThreads -> 0 .. MaxOps]
    BY <1>0, <1>3, <1>7 DEF TypeOK
  <2> QED
    BY <1>0, <1>3, <1>11, <2>1, <2>2 DEF TypeOK
<1>13. TracesInv(d)'
  BY <1>0, <1>1, <1>3, <1>5, <1>6, HistoryStays
<1>14. UpTo(d)'
  BY <1>5, <1>10, <1>11, <1>13 DEF UpTo
<1> QED
  BY <1>1, <1>5, <1>12, <1>14 DEF IInv

\* The use of the snapshot keeps the invariant: it is the right one, or it was
\* erased after a round of newer kernels.
LEMMA UseStep ==
  ASSUME IInv, NEW a \in AnalysisThreads, UseSnapshot(a)
  PROVE  IInv'
<1>0. TypeOK /\ DeviceInv /\ CallsInv
  BY DEF IInv
<1>1. PICK d \in 0 .. MaxOps : UpTo(d)
  BY DEF IInv
<1>2. PICK tr, key : tr = cur[a] /\ key = map[a]
  OBVIOUS
<1>3. /\ UNCHANGED <<op, live, sub_live, call, sub_memory_snapshot, overtaken>>
      /\ UNCHANGED <<memory_snapshot, traces, cur, discarded>>
      /\ apc[a] = "use" /\ apc' = [apc EXCEPT ![a] = "in"]
      /\ map' = [map EXCEPT ![a] = 0]
      /\ answer' = IF key \in DOMAIN memory_snapshot
                   THEN Answered(a, "owner", Attribute(memory_snapshot[key], tr.addr))
                   ELSE Answered(a, "dangling", {})
      /\ \/ mini_host_op_id' = [mini_host_op_id EXCEPT ![a] = tr.op]
         \/ UNCHANGED mini_host_op_id
  <2>1. UNCHANGED mini_host_op_id \/ mini_host_op_id' = [mini_host_op_id EXCEPT ![a] = cur[a].op]
    BY <1>0 DEF UseSnapshot, TypeOK
  <2> QED
    BY <1>2, <2>1 DEF UseSnapshot, Step, tables, device
<1>4. Discarding
  BY <1>0, <1>3, SnapshotAssumption DEF Discarding, TypeOK
<1>5. /\ Keeps(d, d) /\ DeviceInv' /\ CallsInv' /\ Front(d)' /\ KeysInv(d)'
      /\ TableInv(memory_snapshot, live, d)' /\ TableInv(sub_memory_snapshot, sub_live, d)'
  BY <1>0, <1>1, <1>3, <1>4, AnalysisFrame
<1>6. /\ TraceInv(tr, d) /\ tr \in Trace /\ tr.op \in Nat /\ tr.op \in 0 .. MaxOps
      /\ tr.addr \in Nat /\ tr.op \in 0 .. op /\ op \in Nat /\ d \in Nat /\ d <= op
  BY <1>0, <1>1, <1>2, <1>3, TraceAtWork
<1>7. live[tr.op] \in SUBSET Mem /\ Apart(live[tr.op])
  BY <1>0, <1>6 DEF TypeOK, DeviceInv
<1>8. /\ answer'.op = tr.op /\ answer'.addr = tr.addr
      /\ answer'.status = IF key \in DOMAIN memory_snapshot THEN "owner" ELSE "dangling"
      /\ key \in DOMAIN memory_snapshot =>
           answer'.mems = Attribute(memory_snapshot[key], tr.addr)
  BY <1>2, <1>3 DEF Answered
<1>9. ASSUME tr.op <= d
      PROVE  RightAnswer' /\ (answer'.status = "dangling" => tr.op < discarded)
  <2>1. Points(key, tr.op)
    BY <1>1, <1>2, <1>3, <1>9 DEF UpTo, AnalysesInv, ThreadInv
  <2>2. CASE key \in DOMAIN memory_snapshot
    <3>1. key \in Nat /\ key <= tr.op /\ live[key] = live[tr.op]
      BY <1>0, <2>1, <2>2 DEF Points, Newest, TypeOK, OpIds
    <3>2. memory_snapshot[key] = live[tr.op]
      <4>1. key <= d
        BY <1>6, <1>9, <3>1
      <4> QED
        BY <1>1, <2>2, <3>1, <4>1 DEF UpTo, TableInv, Agrees
    <3>3. Attribute(live[tr.op], tr.addr) = {n \in live[tr.op] : Contains(n, tr.addr)}
      BY <1>6, <1>7, LookupIsOwner DEF TraceInv
    <3>4. answer'.mems = {n \in live'[tr.op] : Contains(n, tr.addr)} /\ answer'.status = "owner"
      BY <1>3, <1>8, <2>2, <3>2, <3>3
    <3> QED
      BY <1>8, <3>4 DEF RightAnswer, Contains
  <2>3. CASE key \notin DOMAIN memory_snapshot
    <3>1. answer'.status = "dangling"
      BY <1>8, <2>3
    <3> QED
      BY <2>1, <2>3, <3>1 DEF RightAnswer, Points
  <2> QED
    BY <2>2, <2>3
<1>10. AnswerInv(d)'
  <2>1. tr.op <= op /\ (overtaken = {} => tr.op <= d)
    BY <1>6 DEF TraceInv
  <2>2. answer'.status # "refused"
    BY <1>8
  <2> QED
    BY <1>3, <1>8, <1>9, <2>1, <2>2 DEF AnswerInv
<1>11. answer' \in Answer
  <2>1. CASE key \in DOMAIN memory_snapshot
    <3>1. Attribute(memory_snapshot[key], tr.addr) \in SUBSET Mem
      BY <1>0, <2>1 DEF TypeOK, Attribute, Below
    <3> QED
      BY <1>2, <1>3, <1>6, <2>1, <3>1 DEF Answered, Answer
  <2>2. CASE key \notin DOMAIN memory_snapshot
    BY <1>2, <1>3, <1>6, <2>2 DEF Answered, Answer
  <2> QED
    BY <2>1, <2>2
<1>12. /\ apc'[a] = "in"
       /\ \A b \in AnalysisThreads \ {a} : map'[b] = map[b] /\ apc'[b] = apc[b]
  BY <1>0, <1>3 DEF TypeOK
<1>13. AnalysesInv(d)'
  <2>1. ASSUME NEW b \in AnalysisThreads PROVE ThreadInv(b, d)'
    <3>1. CASE b = a
      BY <1>12, <3>1 DEF ThreadInv
    <3>2. CASE b # a
      BY <1>0, <1>1, <1>3, <1>5, <1>6, <1>12, <3>2, ThreadStays DEF UpTo, AnalysesInv
    <3> QED
      BY <3>1, <3>2
  <2> QED
    BY <2>1 DEF AnalysesInv
<1>14. TypeOK'
  <2>1. apc' \in [AnalysisThreads -> {"out", "in", "fetch", "use"}]
    BY <1>0, <1>3 DEF TypeOK
  <2>2. map' \in [AnalysisThreads -> 0 .. MaxOps]
    BY <1>0, <1>3, SnapshotAssumption DEF TypeOK
  <2>3. mini_host_op_id' \in [AnalysisThreads -> 0 .. MaxOps]
    BY <1>0, <1>3, <1>6 DEF TypeOK
  <2> QED
    BY <1>0, <1>3, <1>11, <2>1, <2>2, <2>3 DEF TypeOK
<1>15. TracesInv(d)'
  BY <1>0, <1>1, <1>3, <1>5, <1>6, HistoryStays
<1>16. UpTo(d)'
  BY <1>5, <1>10, <1>13, <1>15 DEF UpTo
<1> QED
  BY <1>1, <1>5, <1>14, <1>16 DEF IInv

-----------------------------------------------------------------------------
(* What holds of every behaviour *)

\* The invariant holds at the start.
LEMMA InitIInv == Init => IInv
<1> SUFFICES ASSUME Init PROVE IInv
  OBVIOUS
<1> USE DEF Init
<1>0. 0 \in 0 .. MaxOps
  BY SnapshotAssumption
<1>1. DOMAIN Empty = {}
  BY DEF Empty
<1>2. TypeOK
  <2>1. answer \in Answer
    BY <1>0 DEF NoAnswer, Answer
  <2>2. traces \in [AppThreads -> Seq(Trace)]
    OBVIOUS
  <2>3. DOMAIN memory_snapshot = {} /\ DOMAIN sub_memory_snapshot = {}
    BY <1>1
  <2> QED
    BY <1>0, <2>1, <2>2, <2>3 DEF TypeOK
<1>3. \A o \in 0 .. 0 : live[o] = {} /\ sub_live[o] = {}
  BY <1>0
<1>4. DeviceInv
  BY <1>3 DEF DeviceInv, Apart
<1>5. \A t \in AppThreads : call[t].kind = "idle"
  BY DEF Idle
<1>6. CallsInv
  BY <1>5 DEF CallsInv
<1>7. Front(0)
  BY <1>5 DEF Front
<1>8. TableInv(memory_snapshot, live, 0) /\ TableInv(sub_memory_snapshot, sub_live, 0)
  BY <1>1, <1>3 DEF TableInv, Exact, Agrees
<1>9. KeysInv(0) /\ TracesInv(0)
  <2>1. \A t \in AppThreads : 1 .. Len(traces[t]) = {}
    OBVIOUS
  <2>2. TracesInv(0)
    BY <2>1 DEF TracesInv
  <2>3. KeysInv(0)
    BY <1>3 DEF KeysInv
  <2> QED
    BY <2>2, <2>3
<1>10. AnalysesInv(0)
  BY DEF AnalysesInv, ThreadInv
<1>11. AnswerInv(0)
  BY DEF AnswerInv, RightAnswer, NoAnswer
<1>12. UpTo(0)
  BY <1>7, <1>8, <1>9, <1>10, <1>11 DEF UpTo
<1> QED
  BY <1>0, <1>2, <1>4, <1>6, <1>12 DEF IInv

\* The steps of an application thread keep the invariant.
LEMMA AppStepIInv ==
  ASSUME IInv, NEW t \in AppThreads, AppStep(t)
  PROVE  IInv'
<1>0. TypeOK /\ DeviceInv
  BY DEF IInv
<1>1. CASE \E l, sl, kind, m, addr : Faithful(t, l, sl, kind, m, addr)
  BY <1>1, FaithfulStep
<1>2. CASE \/ memory_register(t) \/ memory_unregister(t)
           \/ submemory_register(t) \/ submemory_unregister(t)
  BY <1>2, MemoryCallStep
<1>3. CASE memcpy_register(t)
  BY <1>3, CopyStep
<1>4. CASE \E n \in 1 .. MaxTraces : memory_ranges_get(t, n) \/ submemory_ranges_get(t, n)
  BY <1>4, LaunchStep
<1>5. CASE \E r \in Ranges : Malloc(t, r)
  BY <1>0, <1>1, <1>5, MallocFaithful
<1>6. CASE \E r \in SubRanges : SubMalloc(t, r)
  BY <1>0, <1>1, <1>6, SubMallocFaithful
<1>7. CASE \E m \in live[op] : Free(t, m) \/ Copy(t, m) \/ Launch(t, m)
  BY <1>0, <1>1, <1>7, FreeFaithful, AccessFaithful
<1>8. CASE \E m \in sub_live[op] : SubFree(t, m)
  BY <1>0, <1>1, <1>8, FreeFaithful
<1> QED
  BY <1>2, <1>3, <1>4, <1>5, <1>6, <1>7, <1>8 DEF AppStep

\* A stuttering step keeps the invariant.
LEMMA StutterIInv ==
  ASSUME IInv, UNCHANGED vars
  PROVE  IInv'
<1>0. TypeOK /\ DeviceInv /\ CallsInv
  BY DEF IInv
<1>1. PICK d \in 0 .. MaxOps : UpTo(d)
  BY DEF IInv
<1>2. /\ UNCHANGED <<op, live, sub_live, call, sub_memory_snapshot, overtaken>>
      /\ UNCHANGED <<memory_snapshot, traces, answer, discarded>>
      /\ UNCHANGED <<apc, cur, map, mini_host_op_id>> /\ UNCHANGED analyses
  BY DEF vars, tables, device, analyses
<1>3. Discarding
  BY <1>0, <1>2, SnapshotAssumption DEF Discarding, TypeOK
<1>4. /\ Keeps(d, d) /\ DeviceInv' /\ CallsInv' /\ Front(d)' /\ KeysInv(d)'
      /\ TableInv(memory_snapshot, live, d)' /\ TableInv(sub_memory_snapshot, sub_live, d)'
  BY <1>0, <1>1, <1>2, <1>3, AnalysisFrame
<1>5. TracesInv(d)' /\ AnalysesInv(d)' /\ AnswerInv(d)'
  <2>1. d \in Nat
    BY SnapshotAssumption
  <2> QED
    BY <1>0, <1>1, <1>2, <1>4, <2>1, HistoryStays
<1>6. TypeOK'
  BY <1>0, <1>2 DEF TypeOK
<1>7. UpTo(d)'
  BY <1>4, <1>5 DEF UpTo
<1> QED
  BY <1>1, <1>4, <1>6, <1>7 DEF IInv

\* Every step keeps the invariant.
LEMMA NextIInv ==
  ASSUME IInv, [Next]_vars
  PROVE  IInv'
<1>1. CASE \E t \in AppThreads : AppStep(t)
  BY <1>1, AppStepIInv
<1>2. ASSUME NEW a \in AnalysisThreads, AnalysisStep(a) PROVE IInv'
  BY <1>2, RoundStep, FetchStep, UseStep, AnalyzeStep DEF AnalysisStep
<1>3. CASE UNCHANGED vars
  BY <1>3, StutterIInv
<1> QED
  BY <1>1, <1>2, <1>3 DEF Next

\* IInv holds of every behaviour.
LEMMA TablesAgree == Spec => []IInv
<1>1. IInv /\ [Next]_vars => IInv'
  BY NextIInv
<1> QED
  BY <1>1, InitIInv, PTL DEF Spec

\* What the invariant says of the operations in order.
LEMMA InvInOrder ==
  ASSUME IInv
  PROVE  SnapshotsInOrder /\ AttributionInOrder /\ RefusedOnlyOld
<1>1. TypeOK
  BY DEF IInv
<1>2. PICK d \in 0 .. MaxOps : UpTo(d)
  BY DEF IInv
<1>3. d \in Nat /\ Front(d)
  BY <1>2, SnapshotAssumption DEF UpTo
<1>4. ASSUME NEW snap, NEW lv, TableInv(snap, lv, d), NEW s \in DOMAIN snap, InOrder(s)
      PROVE  snap[s] = lv[s]
  <2>1. s \in Nat
    BY <1>4 DEF TableInv, Agrees, OpIds
  <2>2. s <= d
    BY <1>3, <1>4, <2>1, InOrderUpTo DEF TableInv, Exact
  <2> QED
    BY <1>4, <2>2 DEF TableInv, Agrees
<1>5. SnapshotsInOrder
  BY <1>1, <1>2, <1>4 DEF UpTo, SnapshotsInOrder
<1>6. InOrder(answer.op) => answer.op <= d
  <2>1. answer.op \in Nat
    BY <1>1, SnapshotAssumption DEF TypeOK, Answer
  <2> QED
    BY <1>2, <1>3, <2>1, InOrderUpTo DEF UpTo, AnswerInv
<1> QED
  BY <1>2, <1>5, <1>6 DEF UpTo, AnswerInv, AttributionInOrder, RefusedOnlyOld

\* Every snapshot that redshow_memory_register, redshow_submemory_register and
\* their counterparts store is the set of objects that were live after its
\* operation, unless an operation at or before it was overtaken on its way to
\* redshow: for any ranges, any numbers of operations, application threads and
\* analysis threads, and whatever redshow_analysis_end discards.
THEOREM SnapshotsAreExactInOrder == Spec => []SnapshotsInOrder
  BY InvInOrder, TablesAgree, PTL

\* A query, a range list or the attribution of a trace that succeeds for such an
\* operation answers for its moment, although trace_analyze uses the snapshot
\* without the lock.
THEOREM AttributionIsExactInOrder == Spec => []AttributionInOrder
  BY InvInOrder, TablesAgree, PTL

\* A trace of such an operation is refused, or its snapshot erased while
\* trace_analyze uses it, only after redshow_analysis_end has ended a round of
\* newer kernels.
THEOREM OnlyOldTracesAreRefused == Spec => []RefusedOnlyOld
  BY InvInOrder, TablesAgree, PTL

=============================================================================
