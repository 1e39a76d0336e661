------------------------- MODULE KernelAccessProofs -------------------------
(***************************************************************************)
(* What is kept of a kernel's accesses, for any dictionaries, objects,     *)
(* threads and order of the accesses: on the device the marks of           *)
(* GpuPatches, which miss no access and make none up, and on the host the  *)
(* ranges and the graph of DataFlow.                                       *)
(***************************************************************************)
EXTENDS GpuPatches, DataFlow, FiniteSetTheorems, WellFoundedInduction, TLAPS

\* A set of naturals that is not empty has a least element.
LEMMA LeastOf ==
  ASSUME NEW T \in SUBSET Nat, T # {}
  PROVE  \E x \in T : \A y \in T : x <= y
<1>1. PICK x \in T : \A y \in T : ~ (<<y, x>> \in OpToRel(<, Nat))
  BY NatLessThanWellFounded, WFMin, Zenon
<1>2. \A y \in T : ~ (<<y, x>> \in {p \in Nat \X Nat : p[1] < p[2]})
  BY <1>1, Zenon DEF OpToRel
<1>3. ASSUME NEW y \in T PROVE ~ (y < x)
  <2>1. <<y, x>> \in Nat \X Nat /\ <<y, x>>[1] = y /\ <<y, x>>[2] = x
    OBVIOUS
  <2> QED
    BY <1>2, <2>1, Zenon
<1> QED
  BY <1>3

-----------------------------------------------------------------------------
(* GpuPatches: the binary search in a dictionary *)

\* The place in the middle of low and high.
Middle(low, high) == (high - low) \div 2 + low

Windows(dict) == (0 .. Len(dict)) \X (0 .. Len(dict))

\* One turn of the search.
Turn(g, dict, a, w) ==
  IF w[1] >= w[2] THEN w[1]
  ELSE IF dict[Middle(w[1], w[2]) + 1].start <= a
       THEN g[<<Middle(w[1], w[2]) + 1, w[2]>>] ELSE g[<<w[1], Middle(w[1], w[2])>>]

\* g is a function that the search computes.
Search(g, dict, a) == g = [w \in Windows(dict) |-> Turn(g, dict, a, w)]

\* map_upper_bound is a function of that kind, at the whole dictionary.
LEMMA UpperBoundIs ==
  ASSUME NEW dict, NEW a
  PROVE  map_upper_bound(dict, a) = (CHOOSE g : Search(g, dict, a))[<<0, Len(dict)>>]
  BY DEF map_upper_bound, Search, Turn, Middle, Windows

\* The middle is at or above low and below high.
LEMMA MiddleIn ==
  ASSUME NEW low \in Nat, NEW high \in Nat, low < high
  PROVE  Middle(low, high) \in Nat /\ low <= Middle(low, high) /\ Middle(low, high) < high
  BY DEF Middle

\* The entries up to u start at or below a, the ones behind it start above.
Border(dict, a, u) ==
  /\ u \in 0 .. Len(dict)
  /\ \A i \in 1 .. Len(dict) : dict[i].start <= a <=> i <= u

\* What the search returns, from a border.
Clamp(u, low, high) ==
  IF low >= high THEN low ELSE IF u <= low THEN low ELSE IF u >= high THEN high ELSE u

\* The border is kept by a turn with middle m.
Halved(dict, a, u, low, high, m) ==
  /\ m + 1 \in 0 .. Len(dict) /\ m \in 0 .. Len(dict)
  /\ dict[m + 1].start <= a => Clamp(u, low, high) = Clamp(u, m + 1, high)
  /\ ~ (dict[m + 1].start <= a) => Clamp(u, low, high) = Clamp(u, low, m)

\* A turn of the search leads to a part that has the border.
LEMMA TurnClamps ==
  ASSUME NEW dict, NEW a, NEW u, Len(dict) \in Nat, Border(dict, a, u),
         NEW low \in 0 .. Len(dict), NEW high \in 0 .. Len(dict), low < high,
         NEW m, m = Middle(low, high)
  PROVE  Halved(dict, a, u, low, high, m)
<1>1. m \in Nat /\ low <= m /\ m < high
  BY MiddleIn
<1>2. m + 1 \in 1 .. Len(dict) /\ u \in Nat
  BY <1>1 DEF Border
<1>3. dict[m + 1].start <= a <=> m + 1 <= u
  BY <1>2 DEF Border
<1> QED
  BY <1>1, <1>2, <1>3 DEF Clamp, Halved

\* A turn, in terms of the middle.
TurnAt(g, dict, a, low, high, m) ==
  /\ low >= high => Turn(g, dict, a, <<low, high>>) = low
  /\ low < high => Turn(g, dict, a, <<low, high>>)
                     = IF dict[m + 1].start <= a THEN g[<<m + 1, high>>] ELSE g[<<low, m>>]

\* That is what a turn does.
LEMMA TurnIs ==
  ASSUME NEW g, NEW dict, NEW a, Len(dict) \in Nat,
         NEW low \in 0 .. Len(dict), NEW high \in 0 .. Len(dict), NEW m, m = Middle(low, high)
  PROVE  TurnAt(g, dict, a, low, high, m)
<1>1. PICK w : w = <<low, high>>
  OBVIOUS
<1>2. w[1] = low /\ w[2] = high
  BY <1>1
<1>3. low < high => ~ (low >= high)
  OBVIOUS
<1>4. /\ low >= high => Turn(g, dict, a, w) = low
      /\ ~ (low >= high) => Turn(g, dict, a, w)
                               = IF dict[m + 1].start <= a THEN g[<<m + 1, high>>] ELSE g[<<low, m>>]
  BY <1>2, Zenon DEF Turn
<1> QED
  BY <1>1, <1>3, <1>4 DEF TurnAt

\* The search defines a function: from a border, the one that returns it.
LEMMA SearchExists ==
  ASSUME NEW dict, NEW a, NEW u, Len(dict) \in Nat, Border(dict, a, u)
  PROVE  \E g : Search(g, dict, a)
<1> DEFINE L == 0 .. Len(dict)
<1>1. PICK g : g = [w \in Windows(dict) |-> Clamp(u, w[1], w[2])]
  OBVIOUS
<1>2. ASSUME NEW low \in L, NEW high \in L PROVE g[<<low, high>>] = Clamp(u, low, high)
  BY <1>1 DEF Windows
<1>3. ASSUME NEW low \in L, NEW high \in L
      PROVE  g[<<low, high>>] = Turn(g, dict, a, <<low, high>>)
  <2>1. PICK m : m = Middle(low, high)
    OBVIOUS
  <2>0. TurnAt(g, dict, a, low, high, m)
    BY <2>1, TurnIs, Zenon
  <2>2. CASE low >= high
    BY <1>2, <2>0, <2>2 DEF Clamp, TurnAt
  <2>3. CASE low < high
    <3>1. Halved(dict, a, u, low, high, m)
      BY <2>1, <2>3, TurnClamps, Zenon
    <3>2. g[<<m + 1, high>>] = Clamp(u, m + 1, high) /\ g[<<low, m>>] = Clamp(u, low, m)
      BY <1>2, <3>1 DEF Halved
    <3>3. Turn(g, dict, a, <<low, high>>)
            = IF dict[m + 1].start <= a THEN g[<<m + 1, high>>] ELSE g[<<low, m>>]
      BY <2>0, <2>3 DEF TurnAt
    <3> QED
      BY <1>2, <3>1, <3>2, <3>3 DEF Halved
  <2> QED
    BY <2>2, <2>3
<1>4. ASSUME NEW w \in Windows(dict) PROVE g[w] = Turn(g, dict, a, w)
  <2>1. w[1] \in L /\ w[2] \in L /\ w = <<w[1], w[2]>>
    BY DEF Windows
  <2> QED
    BY <2>1, <1>3
<1>5. Search(g, dict, a)
  BY <1>1, <1>4 DEF Search
<1> QED
  BY <1>5

\* A window of n entries where a function does not return the border.
Off(g, dict, u, n) ==
  \E low, high \in 0 .. Len(dict) : low <= high /\ high - low = n /\ g[<<low, high>>] # Clamp(u, low, high)

\* Any function of the search returns the border.
LEMMA SearchFinds ==
  ASSUME NEW dict, NEW a, NEW u, NEW g, Len(dict) \in Nat, Border(dict, a, u), Search(g, dict, a)
  PROVE  g[<<0, Len(dict)>>] = u
<1> DEFINE L == 0 .. Len(dict)
           Fails == {n \in Nat : Off(g, dict, u, n)}
<1>1. ASSUME NEW low \in L, NEW high \in L
      PROVE  g[<<low, high>>] = Turn(g, dict, a, <<low, high>>)
  <2>1. <<low, high>> \in Windows(dict)
    BY DEF Windows
  <2> QED
    BY <2>1, Zenon DEF Search
<1>2. Fails = {}
  <2>1. SUFFICES ASSUME Fails # {} PROVE FALSE
    OBVIOUS
  <2>2. PICK n \in Fails : \A m \in Fails : n <= m
    <3>1. Fails \in SUBSET Nat
      OBVIOUS
    <3> HIDE DEF Fails
    <3> QED
      BY <2>1, <3>1, LeastOf
  <2>3. PICK low \in L, high \in L : low <= high /\ high - low = n /\ g[<<low, high>>] # Clamp(u, low, high)
    BY <2>2 DEF Off
  <2>4. ASSUME NEW k \in Nat, k < n PROVE ~ Off(g, dict, u, k)
    BY <2>2, <2>4
  <2>5. PICK m : m = Middle(low, high)
    OBVIOUS
  <2>8. TurnAt(g, dict, a, low, high, m)
    BY <2>5, TurnIs, Zenon
  <2>6. CASE low >= high
    <3>1. Turn(g, dict, a, <<low, high>>) = low
      BY <2>6, <2>8 DEF TurnAt
    <3> QED
      BY <2>3, <2>6, <1>1, <3>1 DEF Clamp
  <2>7. CASE low < high
    <3>2. Halved(dict, a, u, low, high, m)
      BY <2>5, <2>7, TurnClamps, Zenon
    <3>3. m \in Nat /\ low <= m /\ m < high
      BY <2>5, <2>7, MiddleIn
    <3>4. g[<<m + 1, high>>] = Clamp(u, m + 1, high)
      <4>1. high - (m + 1) \in Nat /\ high - (m + 1) < n /\ m + 1 <= high
        BY <2>3, <3>3
      <4>2. ~ Off(g, dict, u, high - (m + 1))
        BY <2>4, <4>1
      <4> QED
        BY <4>1, <4>2, <3>2 DEF Off, Halved
    <3>5. g[<<low, m>>] = Clamp(u, low, m)
      <4>1. m - low \in Nat /\ m - low < n
        BY <2>3, <3>3
      <4>2. ~ Off(g, dict, u, m - low)
        BY <2>4, <4>1
      <4> QED
        BY <4>1, <4>2, <3>2, <3>3 DEF Off, Halved
    <3>6. Turn(g, dict, a, <<low, high>>)
            = IF dict[m + 1].start <= a THEN g[<<m + 1, high>>] ELSE g[<<low, m>>]
      BY <2>7, <2>8 DEF TurnAt
    <3> QED
      BY <1>1, <2>3, <3>2, <3>4, <3>5, <3>6 DEF Halved
  <2> QED
    BY <2>6, <2>7
<1>3. ~ Off(g, dict, u, Len(dict))
  BY <1>2
<1>4. 0 \in L /\ Len(dict) \in L /\ Len(dict) - 0 = Len(dict) /\ 0 <= Len(dict)
  OBVIOUS
<1>5. g[<<0, Len(dict)>>] = Clamp(u, 0, Len(dict))
  BY <1>3, <1>4 DEF Off
<1> QED
  BY <1>5 DEF Clamp, Border

\* Ranges in order, and none of them inside out.
Sorted(d) ==
  /\ d \in Seq([start : Nat, end : Nat])
  /\ \A i \in DOMAIN d : d[i].start <= d[i].end
  /\ \A i, j \in DOMAIN d : i < j => d[i].end <= d[j].start

\* A sequence is a function on 1 to its length.
LEMMA SeqIs ==
  ASSUME NEW S, NEW d \in Seq(S)
  PROVE  Len(d) \in Nat /\ DOMAIN d = 1 .. Len(d) /\ \A i \in 1 .. Len(d) : d[i] \in S
  OBVIOUS

\* The bounds of a sorted dictionary are numbers, in order.
LEMMA SortedIs ==
  ASSUME NEW d, Sorted(d)
  PROVE  /\ Len(d) \in Nat /\ DOMAIN d = 1 .. Len(d)
         /\ \A i \in 1 .. Len(d) : d[i].start \in Nat /\ d[i].end \in Nat /\ d[i].start <= d[i].end
         /\ \A i, j \in 1 .. Len(d) : i < j => d[i].end <= d[j].start
<1>1. PICK S : S = [start : Nat, end : Nat]
  OBVIOUS
<1>2. d \in Seq(S)
  BY <1>1, Zenon DEF Sorted
<1>3. Len(d) \in Nat /\ DOMAIN d = 1 .. Len(d) /\ \A i \in 1 .. Len(d) : d[i] \in S
  BY <1>2, SeqIs, Zenon
<1>4. /\ \A i \in 1 .. Len(d) : d[i].start <= d[i].end
      /\ \A i, j \in 1 .. Len(d) : i < j => d[i].end <= d[j].start
  BY <1>3, Zenon DEF Sorted
<1>5. \A x \in S : x.start \in Nat /\ x.end \in Nat
  BY <1>1
<1> QED
  BY <1>3, <1>4, <1>5, Zenon

\* A sorted dictionary has a border for every address.
LEMMA BorderExists ==
  ASSUME NEW dict, NEW a \in Nat, Sorted(dict)
  PROVE  \E u : Border(dict, a, u)
<1> DEFINE n == Len(dict)
           above == {i \in 1 .. n : a < dict[i].start}
<1>1. n \in Nat /\ DOMAIN dict = 1 .. n /\ \A i \in 1 .. n : dict[i].start \in Nat /\ dict[i].end \in Nat
  BY SortedIs
<1>2. \A i, j \in 1 .. n : i <= j => dict[i].start <= dict[j].start
  <2>1. \A i \in 1 .. n : dict[i].start <= dict[i].end
    BY SortedIs
  <2>2. \A i, j \in 1 .. n : i < j => dict[i].end <= dict[j].start
    BY SortedIs
  <2> QED
    BY <1>1, <2>1, <2>2
<1>3. CASE above = {}
  <2>1. Border(dict, a, n)
    BY <1>1, <1>3 DEF Border
  <2> QED
    BY <2>1
<1>4. CASE above # {}
  <2>1. PICK i \in above : \A j \in above : i <= j
    <3>1. above \in SUBSET Nat
      OBVIOUS
    <3> HIDE DEF above
    <3> QED
      BY <1>4, <3>1, LeastOf
  <2>2. Border(dict, a, i - 1)
    <3>1. i - 1 \in 0 .. n
      BY <1>1, <2>1
    <3>2. ASSUME NEW j \in 1 .. n PROVE dict[j].start <= a <=> j <= i - 1
      <4>1. CASE j < i
        BY <1>1, <2>1, <4>1
      <4>2. CASE j >= i
        BY <1>1, <1>2, <2>1, <4>2
      <4> QED
        BY <4>1, <4>2, <1>1
    <3> QED
      BY <3>1, <3>2 DEF Border
  <2> QED
    BY <2>2
<1> QED
  BY <1>3, <1>4

\* map_prev returns the border, and a place of an address in a range is that range.
LEMMA PrevFinds ==
  ASSUME NEW dict, NEW a \in Nat, Sorted(dict)
  PROVE  /\ Border(dict, a, map_prev(dict, a))
         /\ \A p \in DOMAIN dict : dict[p].start <= a /\ a < dict[p].end => map_prev(dict, a) = p
<1>1. PICK u : Border(dict, a, u)
  BY BorderExists
<1>2. Len(dict) \in Nat /\ DOMAIN dict = 1 .. Len(dict)
  BY SortedIs
<1>3. PICK g : g = CHOOSE h : Search(h, dict, a)
  OBVIOUS
<1>4. Search(g, dict, a)
  BY <1>1, <1>2, <1>3, SearchExists
<1>5. g[<<0, Len(dict)>>] = u
  BY <1>1, <1>2, <1>4, SearchFinds
<1>6. map_prev(dict, a) = u
  BY <1>3, <1>5, UpperBoundIs DEF map_prev
<1>7. ASSUME NEW p \in DOMAIN dict, dict[p].start <= a, a < dict[p].end PROVE u = p
  <2>1. p <= u /\ u \in 1 .. Len(dict)
    BY <1>1, <1>2, <1>7 DEF Border
  <2>2. dict[u].start <= a
    BY <2>1, <1>1 DEF Border
  <2>3. CASE p < u
    <3>1. dict[p].end <= dict[u].start
      BY <1>2, <2>1, <2>3, SortedIs
    <3>3. dict[p].end \in Nat /\ dict[u].start \in Nat
      BY <1>2, <2>1, SortedIs
    <3> QED
      BY <1>7, <2>2, <3>1, <3>3
  <2> QED
    BY <2>1, <2>3, <1>2
<1> QED
  BY <1>1, <1>6, <1>7

-----------------------------------------------------------------------------
(* GpuPatches: the inductive invariant *)

Places == {"hit", "sethit", "mode", "push", "view", "setview"}

\* The record of a thread that is in a callback.
Busy(x) ==
  /\ x = [at |-> x.at, addr |-> x.addr, pc |-> x.pc, flags |-> x.flags, keep |-> x.keep, word |-> x.word]
  /\ x.at \in Places /\ x.addr \in Addresses /\ x.pc \in Pcs /\ x.flags \in Flags /\ x.keep \in BOOLEAN

AccessOf(x) == <<x.addr, x.pc, x.flags>>

\* The threads are idle or in an access of the history; the address patch uses none.
Types ==
  /\ patch \in {"address", "aux", "torch_aux", "torchview"}
  /\ pushes \in Nat
  /\ DOMAIN thread = Threads
  /\ \A t \in Threads : thread[t] = Idle \/ (Busy(thread[t]) /\ AccessOf(thread[t]) \in accessed)
  /\ patch # "address" => accessed \subseteq Addresses \X Pcs \X Flags
  /\ patch = "address" => bitmap = {} /\ \A t \in Threads : thread[t] = Idle

\* A thread is at one of the places with an access like x.
Pending(S, x) ==
  \E t \in Threads : thread[t].at \in S /\ thread[t].addr = x[1] /\ thread[t].flags = x[3]

\* A mark that an access sets is set, or a thread is still before it.
HitMarks ==
  \A x \in accessed : map_prev(Dict, x[1]) # 0 =>
    map_prev(Dict, x[1]) \in hit \/ Pending({"hit", "sethit"}, x)

ModeMarks ==
  patch = "aux" => \A x \in accessed : map_prev(Dict, x[1]) # 0 =>
    /\ x[3] = {"read"} => map_prev(Dict, x[1]) \in read \/ Pending({"hit", "sethit", "mode"}, x)
    /\ x[3] = {"write"} => map_prev(Dict, x[1]) \in write \/ Pending({"hit", "sethit", "mode"}, x)

TorchMarks ==
  patch = "torch_aux" => \A x \in accessed : map_prev(TorchDict, x[1]) # 0 =>
    map_prev(TorchDict, x[1]) \in torch_hit \/ Pending({"hit", "sethit", "mode"}, x)

\* The thread that sets the first mark keeps its record, and no filter of a
\* dictionary takes it away before it is pushed.
PushMarks ==
  /\ \A t \in Threads : thread[t].at = "sethit" => thread[t].keep
  /\ patch = "aux" /\ hit # {} =>
       pushes > 0 \/ \E t \in Threads : thread[t].at \in {"mode", "push"} /\ thread[t].keep

Marks == patch \in {"aux", "torch_aux"} => HitMarks /\ ModeMarks /\ TorchMarks /\ PushMarks

\* The accesses that set bits, and the bits they may set.
Viewed == {x \in accessed : ViewOf(x[1]) # 0 /\ Cardinality(x[3]) = 1}
KeyOf(x) == <<ViewKind(x[3]), Word(x[2], ViewOf(x[1]))>>
Masked(p) == UNION bit_masks(p)
BitsOf(x) == {KeyOf(x)} \X Masked(ViewOf(x[1]))

\* The bits of the map, and those of the words that threads have loaded, are the
\* bits of accesses.
Views ==
  patch # "address" =>
    /\ bitmap \subseteq UNION {BitsOf(x) : x \in Viewed}
    /\ \A t \in Threads : thread[t].at = "setview" =>
         /\ AccessOf(thread[t]) \in Viewed
         /\ {KeyOf(AccessOf(thread[t]))} \X thread[t].word \subseteq UNION {BitsOf(x) : x \in Viewed}

PatchInv == Types /\ Marks /\ Views

-----------------------------------------------------------------------------
(* GpuPatches: the steps of a thread *)

\* A thread of f goes on to a place in g, with its access.
Goes(f, g, t, at, keep, word) ==
  /\ DOMAIN g = DOMAIN f
  /\ \A s \in DOMAIN f \ {t} : g[s] = f[s]
  /\ g[t] = [at |-> at, addr |-> f[t].addr, pc |-> f[t].pc, flags |-> f[t].flags,
              keep |-> keep, word |-> word]

\* A record with a field changed.
LEMMA RecordAt ==
  ASSUME NEW x, Busy(x), NEW at
  PROVE  [x EXCEPT !.at = at] = [at |-> at, addr |-> x.addr, pc |-> x.pc, flags |-> x.flags,
                                 keep |-> x.keep, word |-> x.word]
<1>1. x = [at |-> x.at, addr |-> x.addr, pc |-> x.pc, flags |-> x.flags, keep |-> x.keep, word |-> x.word]
  BY DEF Busy
<1> QED
  BY <1>1

\* A thread with the place changed.
LEMMA GoesAt ==
  ASSUME NEW f, NEW g, NEW t \in DOMAIN f, Busy(f[t]), NEW at, g = [f EXCEPT ![t].at = at]
  PROVE  Goes(f, g, t, at, f[t].keep, f[t].word)
<1>1. g = [f EXCEPT ![t] = [f[t] EXCEPT !.at = at]]
  OBVIOUS
<1> QED
  BY <1>1, RecordAt DEF Goes

\* The same with what it keeps.
LEMMA GoesAtKeep ==
  ASSUME NEW f, NEW g, NEW t \in DOMAIN f, Busy(f[t]), NEW at, NEW keep,
         g = [f EXCEPT ![t].at = at, ![t].keep = keep]
  PROVE  Goes(f, g, t, at, keep, f[t].word)
<1>1. PICK h : h = [f EXCEPT ![t].at = at]
  OBVIOUS
<1>2. Goes(f, h, t, at, f[t].keep, f[t].word)
  BY <1>1, GoesAt
<1>3. g = [h EXCEPT ![t].keep = keep]
  BY <1>1
<1>4. DOMAIN h = DOMAIN f /\ \A s \in DOMAIN f \ {t} : h[s] = f[s]
  BY <1>2 DEF Goes
<1>5. h[t] = [at |-> at, addr |-> f[t].addr, pc |-> f[t].pc, flags |-> f[t].flags,
              keep |-> f[t].keep, word |-> f[t].word]
  BY <1>2 DEF Goes
<1>6. [h[t] EXCEPT !.keep = keep]
        = [at |-> at, addr |-> f[t].addr, pc |-> f[t].pc, flags |-> f[t].flags,
           keep |-> keep, word |-> f[t].word]
  BY <1>5
<1>7. g = [h EXCEPT ![t] = [h[t] EXCEPT !.keep = keep]]
  BY <1>3
<1> QED
  BY <1>4, <1>6, <1>7 DEF Goes

\* The same with the word it loaded.
LEMMA GoesAtWord ==
  ASSUME NEW f, NEW g, NEW t \in DOMAIN f, Busy(f[t]), NEW at, NEW word,
         g = [f EXCEPT ![t].at = at, ![t].word = word]
  PROVE  Goes(f, g, t, at, f[t].keep, word)
<1>1. PICK h : h = [f EXCEPT ![t].at = at]
  OBVIOUS
<1>2. Goes(f, h, t, at, f[t].keep, f[t].word)
  BY <1>1, GoesAt
<1>3. g = [h EXCEPT ![t].word = word]
  BY <1>1
<1>4. DOMAIN h = DOMAIN f /\ \A s \in DOMAIN f \ {t} : h[s] = f[s]
  BY <1>2 DEF Goes
<1>5. h[t] = [at |-> at, addr |-> f[t].addr, pc |-> f[t].pc, flags |-> f[t].flags,
              keep |-> f[t].keep, word |-> f[t].word]
  BY <1>2 DEF Goes
<1>6. [h[t] EXCEPT !.word = word]
        = [at |-> at, addr |-> f[t].addr, pc |-> f[t].pc, flags |-> f[t].flags,
           keep |-> f[t].keep, word |-> word]
  BY <1>5
<1>7. g = [h EXCEPT ![t] = [h[t] EXCEPT !.word = word]]
  BY <1>3
<1> QED
  BY <1>4, <1>6, <1>7 DEF Goes

\* The other threads stay where they are.
Others(t) == DOMAIN thread' = Threads /\ \A s \in Threads \ {t} : thread'[s] = thread[s]

\* Thread t stays in S with its access.
StaysIn(t, S) ==
  thread'[t].at \in S /\ thread'[t].addr = thread[t].addr /\ thread'[t].flags = thread[t].flags

\* What is pending stays so, or it was the access of the thread that takes the step.
LEMMA PendingElse ==
  ASSUME NEW S, NEW x, NEW t \in Threads, Others(t), Pending(S, x)
  PROVE  \/ Pending(S, x)'
         \/ thread[t].at \in S /\ thread[t].addr = x[1] /\ thread[t].flags = x[3] /\ ~ StaysIn(t, S)
<1>1. PICK s \in Threads : thread[s].at \in S /\ thread[s].addr = x[1] /\ thread[s].flags = x[3]
  BY DEF Pending
<1>2. CASE s # t
  BY <1>1, <1>2 DEF Others, Pending
<1>3. CASE s = t
  BY <1>1, <1>3 DEF StaysIn, Pending
<1> QED
  BY <1>2, <1>3

\* The marks of hits hold on if a thread that leaves the places before has set its mark.
LEMMA HitKept ==
  ASSUME HitMarks, NEW t \in Threads, Others(t), accessed' = accessed, hit \subseteq hit',
         \/ thread[t].at \notin {"hit", "sethit"}
         \/ StaysIn(t, {"hit", "sethit"})
         \/ map_prev(Dict, thread[t].addr) \in hit' \cup {0}
  PROVE  HitMarks'
<1>1. PICK S : S = {"hit", "sethit"}
  OBVIOUS
<1> SUFFICES ASSUME NEW x \in accessed, map_prev(Dict, x[1]) # 0, map_prev(Dict, x[1]) \notin hit'
             PROVE  Pending(S, x)'
  BY <1>1 DEF HitMarks
<1>2. Pending(S, x)
  BY <1>1 DEF HitMarks
<1>3. \/ Pending(S, x)'
      \/ thread[t].at \in S /\ thread[t].addr = x[1] /\ thread[t].flags = x[3] /\ ~ StaysIn(t, S)
  BY <1>2, PendingElse
<1> QED
  BY <1>1, <1>3

\* The same for the marks of reads and writes.
LEMMA ModeKept ==
  ASSUME ModeMarks, NEW t \in Threads, Others(t), accessed' = accessed, patch' = patch,
         read \subseteq read', write \subseteq write',
         patch = "aux" =>
           \/ thread[t].at \notin {"hit", "sethit", "mode"}
           \/ StaysIn(t, {"hit", "sethit", "mode"})
           \/ /\ thread[t].flags = {"read"} => map_prev(Dict, thread[t].addr) \in read' \cup {0}
              /\ thread[t].flags = {"write"} => map_prev(Dict, thread[t].addr) \in write' \cup {0}
  PROVE  ModeMarks'
<1>1. PICK S : S = {"hit", "sethit", "mode"}
  OBVIOUS
<1> SUFFICES ASSUME patch = "aux", NEW x \in accessed, map_prev(Dict, x[1]) # 0
             PROVE  /\ x[3] = {"read"} => map_prev(Dict, x[1]) \in read' \/ Pending(S, x)'
                    /\ x[3] = {"write"} => map_prev(Dict, x[1]) \in write' \/ Pending(S, x)'
  BY <1>1 DEF ModeMarks
<1>2. /\ x[3] = {"read"} => map_prev(Dict, x[1]) \in read' \/ Pending(S, x)
      /\ x[3] = {"write"} => map_prev(Dict, x[1]) \in write' \/ Pending(S, x)
  BY <1>1 DEF ModeMarks
<1>3. Pending(S, x) =>
      \/ Pending(S, x)'
      \/ thread[t].at \in S /\ thread[t].addr = x[1] /\ thread[t].flags = x[3] /\ ~ StaysIn(t, S)
  BY PendingElse
<1> QED
  BY <1>1, <1>2, <1>3

\* The same for the marks of sub-allocations.
LEMMA TorchKept ==
  ASSUME TorchMarks, NEW t \in Threads, Others(t), accessed' = accessed, patch' = patch,
         torch_hit \subseteq torch_hit',
         patch = "torch_aux" =>
           \/ thread[t].at \notin {"hit", "sethit", "mode"}
           \/ StaysIn(t, {"hit", "sethit", "mode"})
           \/ map_prev(TorchDict, thread[t].addr) \in torch_hit' \cup {0}
  PROVE  TorchMarks'
<1>1. PICK S : S = {"hit", "sethit", "mode"}
  OBVIOUS
<1> SUFFICES ASSUME patch = "torch_aux", NEW x \in accessed, map_prev(TorchDict, x[1]) # 0,
                    map_prev(TorchDict, x[1]) \notin torch_hit'
             PROVE  Pending(S, x)'
  BY <1>1 DEF TorchMarks
<1>2. Pending(S, x)
  BY <1>1 DEF TorchMarks
<1>3. \/ Pending(S, x)'
      \/ thread[t].at \in S /\ thread[t].addr = x[1] /\ thread[t].flags = x[3] /\ ~ StaysIn(t, S)
  BY <1>2, PendingElse
<1> QED
  BY <1>1, <1>3

\* What a step may do to the record of the first mark.
PushStep(t) ==
  /\ patch' = patch
  /\ pushes' = pushes \/ pushes' = pushes + 1
  /\ thread'[t].at = "sethit" => thread'[t].keep
  /\ patch = "aux" => hit' = hit \/ (thread'[t].at = "mode" /\ thread'[t].keep)
  /\ patch = "aux" /\ thread[t].at \in {"mode", "push"} /\ thread[t].keep =>
       pushes' > 0 \/ (thread'[t].at \in {"mode", "push"} /\ thread'[t].keep)

\* The record of the first mark is not lost if the thread that holds it keeps it, or
\* pushes it.
LEMMA PushKept ==
  ASSUME PushMarks, Types, NEW t \in Threads, Others(t), PushStep(t)
  PROVE  PushMarks'
<1>1. \A s \in Threads : thread'[s].at = "sethit" => thread'[s].keep
  BY DEF PushMarks, Others, PushStep
<1>2. ASSUME patch = "aux", hit' # {}
      PROVE  pushes' > 0 \/ \E s \in Threads : thread'[s].at \in {"mode", "push"} /\ thread'[s].keep
  <2>1. CASE hit' # hit
    BY <1>2, <2>1 DEF PushStep
  <2>2. CASE hit' = hit
    <3>1. pushes > 0 \/ \E s \in Threads : thread[s].at \in {"mode", "push"} /\ thread[s].keep
      BY <1>2, <2>2 DEF PushMarks
    <3>2. CASE pushes > 0
      BY <3>2 DEF Types, PushStep
    <3>3. ASSUME NEW s \in Threads, thread[s].at \in {"mode", "push"}, thread[s].keep
          PROVE  pushes' > 0 \/ \E r \in Threads : thread'[r].at \in {"mode", "push"} /\ thread'[r].keep
      <4>1. CASE s # t
        BY <3>3, <4>1 DEF Others
      <4>2. CASE s = t
        BY <1>2, <3>3, <4>2 DEF PushStep
      <4> QED
        BY <4>1, <4>2
    <3> QED
      BY <3>1, <3>2, <3>3
  <2> QED
    BY <2>1, <2>2
<1> QED
  BY <1>1, <1>2 DEF PushMarks, PushStep

\* A step of a thread that keeps its access, or ends it.
LEMMA TypesKept ==
  ASSUME Types, NEW t \in Threads, Busy(thread[t]), Others(t), patch' = patch, accessed' = accessed,
         pushes' = pushes \/ pushes' = pushes + 1,
         thread'[t] = Idle \/ (Busy(thread'[t]) /\ AccessOf(thread'[t]) = AccessOf(thread[t]))
  PROVE  Types'
<1>1. thread[t] # Idle
  <2>1. thread[t].at \in Places
    BY DEF Busy
  <2>2. Idle.at = "idle"
    BY DEF Idle
  <2> QED
    BY <2>1, <2>2 DEF Places
<1>2. patch # "address" /\ AccessOf(thread[t]) \in accessed
  BY <1>1 DEF Types
<1>3. \A s \in Threads : thread'[s] = Idle \/ (Busy(thread'[s]) /\ AccessOf(thread'[s]) \in accessed')
  <2> SUFFICES ASSUME NEW s \in Threads
               PROVE  thread'[s] = Idle \/ (Busy(thread'[s]) /\ AccessOf(thread'[s]) \in accessed')
    OBVIOUS
  <2>1. CASE s # t
    BY <2>1 DEF Types, Others
  <2>2. CASE s = t
    BY <2>2, <1>2
  <2> QED
    BY <2>1, <2>2
<1>4. pushes' \in Nat
  BY DEF Types
<1>5. Types' = /\ patch' \in {"address", "aux", "torch_aux", "torchview"}
               /\ pushes' \in Nat
               /\ DOMAIN thread' = Threads
               /\ \A s \in Threads : thread'[s] = Idle \/ (Busy(thread'[s]) /\ AccessOf(thread'[s]) \in accessed')
               /\ patch' # "address" => accessed' \subseteq Addresses \X Pcs \X Flags
               /\ patch' = "address" => bitmap' = {} /\ \A s \in Threads : thread'[s] = Idle
  BY Zenon DEF Types, Busy, AccessOf
<1> QED
  BY <1>2, <1>3, <1>4, <1>5 DEF Types, Others

\* The bits of accesses.
LEMMA ViewedGrows ==
  ASSUME accessed \subseteq accessed'
  PROVE  /\ Viewed \subseteq Viewed'
         /\ UNION {BitsOf(x) : x \in Viewed} \subseteq UNION {BitsOf(x) : x \in Viewed'}
<1>1. Viewed \subseteq Viewed'
  BY DEF Viewed
<1> QED
  BY <1>1

\* Bits hold on if the thread that takes the step has loaded none and stores none.
LEMMA ViewsKept ==
  ASSUME Views, NEW t \in Threads, Others(t), accessed \subseteq accessed', patch' = patch,
         bitmap' = bitmap, thread'[t].at # "setview"
  PROVE  Views'
<1>1. PICK B : B = UNION {BitsOf(x) : x \in Viewed}
  OBVIOUS
<1>2. PICK C : C = UNION {BitsOf(x) : x \in Viewed'}
  OBVIOUS
<1>3. B \subseteq C /\ Viewed \subseteq Viewed'
  BY <1>1, <1>2, ViewedGrows
<1> SUFFICES ASSUME patch # "address"
             PROVE  /\ bitmap' \subseteq C
                    /\ \A s \in Threads : thread'[s].at = "setview" =>
                         /\ AccessOf(thread'[s]) \in Viewed'
                         /\ {KeyOf(AccessOf(thread'[s]))} \X thread'[s].word \subseteq C
  BY <1>2 DEF Views, KeyOf, AccessOf, BitsOf, Masked
<1>4. bitmap \subseteq B
  BY <1>1 DEF Views
<1>5. ASSUME NEW s \in Threads, thread'[s].at = "setview"
      PROVE  /\ AccessOf(thread'[s]) \in Viewed'
             /\ {KeyOf(AccessOf(thread'[s]))} \X thread'[s].word \subseteq C
  <2>1. s # t /\ thread'[s] = thread[s]
    BY <1>5 DEF Others
  <2>2. /\ AccessOf(thread[s]) \in Viewed
        /\ {KeyOf(AccessOf(thread[s]))} \X thread[s].word \subseteq B
    BY <1>1, <1>5, <2>1 DEF Views
  <2> QED
    BY <1>3, <2>1, <2>2
<1> QED
  BY <1>3, <1>4, <1>5

\* A thread at a place of a callback is in one.
LEMMA InCallback ==
  ASSUME Types, NEW t \in Threads, thread[t].at \in Places
  PROVE  Busy(thread[t]) /\ patch # "address" /\ t \in DOMAIN thread /\ DOMAIN thread = Threads
<1>1. Idle.at = "idle"
  BY DEF Idle
<1>2. thread[t] # Idle
  BY <1>1 DEF Places
<1> QED
  BY <1>2 DEF Types

\* What Goes says of the thread that takes the step.
LEMMA GoesIs ==
  ASSUME Types, NEW t \in Threads, Busy(thread[t]), NEW at \in Places, NEW keep \in BOOLEAN, NEW word,
         Goes(thread, thread', t, at, keep, word)
  PROVE  /\ Others(t)
         /\ thread'[t].at = at /\ thread'[t].keep = keep /\ thread'[t].word = word
         /\ thread'[t].addr = thread[t].addr /\ thread'[t].flags = thread[t].flags
         /\ Busy(thread'[t]) /\ AccessOf(thread'[t]) = AccessOf(thread[t])
<1>1. Others(t)
  BY DEF Goes, Others, Types
<1>2. PICK n : n = thread'[t]
  OBVIOUS
<1>3. n = [at |-> at, addr |-> thread[t].addr, pc |-> thread[t].pc, flags |-> thread[t].flags,
           keep |-> keep, word |-> word]
  BY <1>2 DEF Goes
<1>4. n.at = at /\ n.keep = keep /\ n.word = word /\ n.addr = thread[t].addr /\ n.flags = thread[t].flags
      /\ n.pc = thread[t].pc
  BY <1>3
<1>5. Busy(n)
  BY <1>3, <1>4 DEF Busy
<1> QED
  BY <1>1, <1>2, <1>4, <1>5 DEF AccessOf

\* The end of a callback.
LEMMA GoesIdle ==
  ASSUME Types, NEW t \in Threads, thread' = [thread EXCEPT ![t] = Idle]
  PROVE  Others(t) /\ thread'[t] = Idle /\ thread'[t].at = "idle"
  BY DEF Types, Others, Idle

\* Loading the mark of a hit.
LEMMA LoadHitKeeps ==
  ASSUME PatchInv, NEW t \in Threads, LoadHit(t)
  PROVE  PatchInv'
<1>1. thread[t].at = "hit" /\ Types
  BY DEF LoadHit, PatchInv
<1>2. Busy(thread[t]) /\ patch # "address" /\ t \in DOMAIN thread
  BY <1>1, InCallback DEF Places
<1>3. PICK pos : pos = map_prev(Dict, thread[t].addr)
  OBVIOUS
<1>4. PICK at : at = IF pos # 0 /\ pos \notin hit THEN "sethit" ELSE "mode"
  OBVIOUS
<1>5. PICK keep : keep = (pos = 0 \/ pos \notin hit)
  OBVIOUS
<1>6. at \in Places /\ keep \in BOOLEAN
  BY <1>4, <1>5 DEF Places
<1>7. thread' = [thread EXCEPT ![t].at = at, ![t].keep = keep]
  BY <1>3, <1>4, <1>5 DEF LoadHit
<1>8. Goes(thread, thread', t, at, keep, thread[t].word)
  BY <1>2, <1>7, GoesAtKeep
<1>9. /\ Others(t)
      /\ thread'[t].at = at /\ thread'[t].keep = keep
      /\ thread'[t].addr = thread[t].addr /\ thread'[t].flags = thread[t].flags
      /\ Busy(thread'[t]) /\ AccessOf(thread'[t]) = AccessOf(thread[t])
  BY <1>1, <1>2, <1>6, <1>8, GoesIs
<1>10. UNCHANGED <<patch, hit, read, write, torch_hit, pushes, bitmap, accessed>>
  BY DEF LoadHit, marks
<1>11. Types'
  BY <1>1, <1>2, <1>9, <1>10, TypesKept
<1>12. Views'
  BY <1>4, <1>9, <1>10, ViewsKept DEF PatchInv
<1>13. ASSUME patch \in {"aux", "torch_aux"} PROVE HitMarks' /\ ModeMarks' /\ TorchMarks' /\ PushMarks'
  <2>1. HitMarks /\ ModeMarks /\ TorchMarks /\ PushMarks
    BY <1>13 DEF PatchInv, Marks
  <2>2. HitMarks'
    <3>1. StaysIn(t, {"hit", "sethit"}) \/ pos \in hit' \cup {0}
      BY <1>4, <1>9, <1>10 DEF StaysIn
    <3> QED
      BY <1>3, <1>9, <1>10, <2>1, <3>1, HitKept
  <2>3. StaysIn(t, {"hit", "sethit", "mode"})
    BY <1>4, <1>9 DEF StaysIn
  <2>4. ModeMarks'
    BY <1>9, <1>10, <2>1, <2>3, ModeKept
  <2>5. TorchMarks'
    BY <1>9, <1>10, <2>1, <2>3, TorchKept
  <2>6. PushMarks'
    <3>1. thread'[t].at = "sethit" => thread'[t].keep
      BY <1>4, <1>5, <1>9
    <3>2. PushStep(t)
      <4>1. ~ (thread[t].at \in {"mode", "push"})
        BY <1>1
      <4>2. patch' = patch /\ pushes' = pushes /\ hit' = hit
        BY <1>10
      <4> QED
        BY <3>1, <4>1, <4>2, Zenon DEF PushStep
    <3> QED
      BY <1>1, <1>9, <2>1, <3>2, PushKept
  <2> QED
    BY <2>2, <2>4, <2>5, <2>6
<1> QED
  BY <1>10, <1>11, <1>12, <1>13 DEF PatchInv, Marks

\* An update by what a field becomes.
LEMMA EqualUpdates ==
  ASSUME NEW f, NEW t \in DOMAIN f, Busy(f[t]), NEW c, NEW keep, keep = (f[t].keep /\ c)
  PROVE  [f EXCEPT ![t].at = "push", ![t].keep = @ /\ c] = [f EXCEPT ![t].at = "push", ![t].keep = keep]
<1>1. PICK h : h = [f EXCEPT ![t].at = "push"]
  OBVIOUS
<1>2. Goes(f, h, t, "push", f[t].keep, f[t].word)
  BY <1>1, GoesAt
<1>3. h[t] = [at |-> "push", addr |-> f[t].addr, pc |-> f[t].pc, flags |-> f[t].flags,
              keep |-> f[t].keep, word |-> f[t].word]
  BY <1>2 DEF Goes
<1>4. h[t].keep = f[t].keep
  BY <1>3
<1>5. [h EXCEPT ![t].keep = @ /\ c] = [h EXCEPT ![t].keep = keep]
  BY <1>4
<1> QED
  BY <1>1, <1>5

\* Storing the mark of a hit.
LEMMA StoreHitKeeps ==
  ASSUME PatchInv, NEW t \in Threads, StoreHit(t)
  PROVE  PatchInv'
<1>1. thread[t].at = "sethit" /\ Types
  BY DEF StoreHit, PatchInv
<1>2. Busy(thread[t]) /\ patch # "address" /\ t \in DOMAIN thread
  BY <1>1, InCallback DEF Places
<1>3. PICK pos : pos = map_prev(Dict, thread[t].addr)
  OBVIOUS
<1>4. hit' = hit \cup {pos}
  BY <1>3 DEF StoreHit
<1>5. thread' = [thread EXCEPT ![t].at = "mode"]
  BY DEF StoreHit, Goto
<1>6. "mode" \in Places /\ thread[t].keep \in BOOLEAN
  BY <1>2 DEF Places, Busy
<1>8. Goes(thread, thread', t, "mode", thread[t].keep, thread[t].word)
  BY <1>2, <1>5, GoesAt
<1>9. /\ Others(t)
      /\ thread'[t].at = "mode" /\ thread'[t].keep = thread[t].keep
      /\ thread'[t].addr = thread[t].addr /\ thread'[t].flags = thread[t].flags
      /\ Busy(thread'[t]) /\ AccessOf(thread'[t]) = AccessOf(thread[t])
  BY <1>1, <1>2, <1>6, <1>8, GoesIs
<1>10. UNCHANGED <<patch, read, write, torch_hit, pushes, bitmap, accessed>>
  BY DEF StoreHit
<1>11. Types'
  BY <1>1, <1>2, <1>9, <1>10, TypesKept
<1>12. Views'
  BY <1>9, <1>10, ViewsKept DEF PatchInv
<1>14. StaysIn(t, {"hit", "sethit", "mode"})
  BY <1>9 DEF StaysIn
<1>13. ASSUME patch \in {"aux", "torch_aux"} PROVE HitMarks' /\ ModeMarks' /\ TorchMarks' /\ PushMarks'
  <2>1. HitMarks /\ ModeMarks /\ TorchMarks /\ PushMarks
    BY <1>13 DEF PatchInv, Marks
  <2>2. HitMarks'
    BY <1>3, <1>4, <1>9, <1>10, <2>1, HitKept
  <2>3. ModeMarks'
    BY <1>9, <1>10, <1>14, <2>1, ModeKept
  <2>4. TorchMarks'
    BY <1>9, <1>10, <1>14, <2>1, TorchKept
  <2>5. PushMarks'
    <3>1. thread[t].keep
      BY <1>1, <2>1 DEF PushMarks
    <3>2. PushStep(t)
      <4>1. thread'[t].at = "mode" /\ thread'[t].keep
        BY <1>9, <3>1
      <4>2. patch' = patch /\ pushes' = pushes
        BY <1>10
      <4> QED
        BY <4>1, <4>2 DEF PushStep
    <3> QED
      BY <1>1, <1>9, <2>1, <3>2, PushKept
  <2> QED
    BY <2>2, <2>3, <2>4, <2>5
<1> QED
  BY <1>10, <1>11, <1>12, <1>13 DEF PatchInv, Marks

\* Storing the marks of a read or a write.
LEMMA StoreModeKeeps ==
  ASSUME PatchInv, NEW t \in Threads, StoreMode(t)
  PROVE  PatchInv'
<1>1. thread[t].at = "mode" /\ patch = "aux" /\ Types
  BY DEF StoreMode, PatchInv
<1>2. Busy(thread[t]) /\ patch # "address" /\ t \in DOMAIN thread
  BY <1>1, InCallback DEF Places
<1>3. PICK pos : pos = map_prev(Dict, thread[t].addr)
  OBVIOUS
<1>4. /\ read' = read \cup Marked(pos, thread[t].flags, "read")
      /\ write' = write \cup Marked(pos, thread[t].flags, "write")
  BY <1>3 DEF StoreMode
<1>5. thread' = [thread EXCEPT ![t].at = "push"]
  BY DEF StoreMode, Goto
<1>6. "push" \in Places /\ thread[t].keep \in BOOLEAN
  BY <1>2 DEF Places, Busy
<1>8. Goes(thread, thread', t, "push", thread[t].keep, thread[t].word)
  BY <1>2, <1>5, GoesAt
<1>9. /\ Others(t)
      /\ thread'[t].at = "push" /\ thread'[t].keep = thread[t].keep
      /\ thread'[t].addr = thread[t].addr /\ thread'[t].flags = thread[t].flags
      /\ Busy(thread'[t]) /\ AccessOf(thread'[t]) = AccessOf(thread[t])
  BY <1>1, <1>2, <1>6, <1>8, GoesIs
<1>10. UNCHANGED <<patch, hit, torch_hit, pushes, bitmap, accessed>>
  BY DEF StoreMode
<1>11. Types'
  BY <1>1, <1>2, <1>9, <1>10, TypesKept
<1>12. Views'
  BY <1>9, <1>10, ViewsKept DEF PatchInv
<1>13. ASSUME patch \in {"aux", "torch_aux"} PROVE HitMarks' /\ ModeMarks' /\ TorchMarks' /\ PushMarks'
  <2>1. HitMarks /\ ModeMarks /\ TorchMarks /\ PushMarks
    BY <1>13 DEF PatchInv, Marks
  <2>2. HitMarks'
    BY <1>1, <1>9, <1>10, <2>1, HitKept
  <2>3. ModeMarks'
    <3>1. /\ thread[t].flags = {"read"} => pos \in read' \cup {0}
          /\ thread[t].flags = {"write"} => pos \in write' \cup {0}
      BY <1>4 DEF Marked
    <3>2. read \subseteq read' /\ write \subseteq write'
      BY <1>4
    <3> QED
      BY <1>3, <1>9, <1>10, <2>1, <3>1, <3>2, ModeKept
  <2>4. TorchMarks'
    <3>1. patch # "torch_aux"
      BY <1>1
    <3> QED
      BY <1>10, <3>1 DEF TorchMarks
  <2>5. PushMarks'
    <3>2. PushStep(t)
      <4>1. thread'[t].at = "push" /\ thread'[t].keep = thread[t].keep
        BY <1>9
      <4>2. patch' = patch /\ pushes' = pushes /\ hit' = hit
        BY <1>10
      <4> QED
        BY <4>1, <4>2 DEF PushStep
    <3> QED
      BY <1>1, <1>9, <2>1, <3>2, PushKept
  <2> QED
    BY <2>2, <2>3, <2>4, <2>5
<1> QED
  BY <1>10, <1>11, <1>12, <1>13 DEF PatchInv, Marks

\* Storing the mark of a sub-allocation.
LEMMA StoreTorchHitKeeps ==
  ASSUME PatchInv, NEW t \in Threads, StoreTorchHit(t)
  PROVE  PatchInv'
<1>1. thread[t].at = "mode" /\ patch = "torch_aux" /\ Types
  BY DEF StoreTorchHit, PatchInv
<1>2. Busy(thread[t]) /\ patch # "address" /\ t \in DOMAIN thread
  BY <1>1, InCallback DEF Places
<1>3. PICK pos : pos = map_prev(TorchDict, thread[t].addr)
  OBVIOUS
<1>4. torch_hit' = IF pos = 0 THEN torch_hit ELSE torch_hit \cup {pos}
  BY <1>3 DEF StoreTorchHit
<1>5. PICK keep : keep = (thread[t].keep /\ (pos = 0 \/ pos \notin torch_hit))
  OBVIOUS
<1>6. "push" \in Places /\ keep \in BOOLEAN
  BY <1>5 DEF Places
<1>7. thread' = [thread EXCEPT ![t].at = "push", ![t].keep = keep]
  <2>1. thread' = [thread EXCEPT ![t].at = "push", ![t].keep = @ /\ (pos = 0 \/ pos \notin torch_hit)]
    BY <1>3 DEF StoreTorchHit
  <2> QED
    BY <1>2, <1>5, <2>1, EqualUpdates
<1>8. Goes(thread, thread', t, "push", keep, thread[t].word)
  BY <1>2, <1>7, GoesAtKeep
<1>9. /\ Others(t)
      /\ thread'[t].at = "push" /\ thread'[t].keep = keep
      /\ thread'[t].addr = thread[t].addr /\ thread'[t].flags = thread[t].flags
      /\ Busy(thread'[t]) /\ AccessOf(thread'[t]) = AccessOf(thread[t])
  BY <1>1, <1>2, <1>6, <1>8, GoesIs
<1>10. UNCHANGED <<patch, hit, read, write, pushes, bitmap, accessed>>
  BY DEF StoreTorchHit
<1>11. Types'
  BY <1>1, <1>2, <1>9, <1>10, TypesKept
<1>12. Views'
  BY <1>9, <1>10, ViewsKept DEF PatchInv
<1>13. ASSUME patch \in {"aux", "torch_aux"} PROVE HitMarks' /\ ModeMarks' /\ TorchMarks' /\ PushMarks'
  <2>1. HitMarks /\ ModeMarks /\ TorchMarks /\ PushMarks
    BY <1>13 DEF PatchInv, Marks
  <2>2. HitMarks'
    BY <1>1, <1>9, <1>10, <2>1, HitKept
  <2>3. ModeMarks'
    BY <1>1, <1>10 DEF ModeMarks
  <2>4. TorchMarks'
    <3>1. torch_hit \subseteq torch_hit' /\ pos \in torch_hit' \cup {0}
      BY <1>4
    <3> QED
      BY <1>3, <1>9, <1>10, <2>1, <3>1, TorchKept
  <2>5. PushMarks'
    <3>1. \A s \in Threads : thread'[s].at = "sethit" => thread'[s].keep
      BY <1>9, <2>1 DEF PushMarks, Others
    <3> QED
      BY <1>1, <1>10, <3>1 DEF PushMarks
  <2> QED
    BY <2>2, <2>3, <2>4, <2>5
<1> QED
  BY <1>10, <1>11, <1>12, <1>13 DEF PatchInv, Marks

\* Pushing the record of an access, or returning without.
LEMMA PushKeeps ==
  ASSUME PatchInv, NEW t \in Threads, Push(t)
  PROVE  PatchInv'
<1>1. thread[t].at = "push" /\ Types
  BY DEF Push, PatchInv
<1>2. Busy(thread[t]) /\ patch # "address" /\ t \in DOMAIN thread
  BY <1>1, InCallback DEF Places
<1>9. Others(t) /\ thread'[t] = Idle /\ thread'[t].at = "idle"
  BY <1>1, GoesIdle DEF Push
<1>10. UNCHANGED <<patch, hit, read, write, torch_hit, bitmap, accessed>>
  BY DEF Push
<1>4. pushes \in Nat /\ pushes' = IF thread[t].keep THEN pushes + 1 ELSE pushes
  BY <1>1 DEF Push, Types
<1>11. Types'
  BY <1>1, <1>2, <1>4, <1>9, <1>10, TypesKept
<1>12. Views'
  BY <1>9, <1>10, ViewsKept DEF PatchInv
<1>13. ASSUME patch \in {"aux", "torch_aux"} PROVE HitMarks' /\ ModeMarks' /\ TorchMarks' /\ PushMarks'
  <2>1. HitMarks /\ ModeMarks /\ TorchMarks /\ PushMarks
    BY <1>13 DEF PatchInv, Marks
  <2>2. HitMarks'
    BY <1>1, <1>9, <1>10, <2>1, HitKept
  <2>3. ModeMarks'
    BY <1>1, <1>9, <1>10, <2>1, ModeKept
  <2>4. TorchMarks'
    BY <1>1, <1>9, <1>10, <2>1, TorchKept
  <2>5. PushMarks'
    <3>2. PushStep(t)
      BY <1>4, <1>9, <1>10 DEF PushStep
    <3> QED
      BY <1>1, <1>9, <2>1, <3>2, PushKept
  <2> QED
    BY <2>2, <2>3, <2>4, <2>5
<1> QED
  BY <1>10, <1>11, <1>12, <1>13 DEF PatchInv, Marks

\* The threads of the patches with marks have not to do with views, but the marks
\* hold on whatever a thread does that is in none of their places.
LEMMA MarksKept ==
  ASSUME PatchInv, NEW t \in Threads, Others(t), thread[t].at \in {"view", "setview"},
         thread'[t].at \in {"idle", "setview"},
         UNCHANGED <<patch, hit, read, write, torch_hit, pushes, accessed>>
  PROVE  Marks'
<1> SUFFICES ASSUME patch \in {"aux", "torch_aux"}
             PROVE  HitMarks' /\ ModeMarks' /\ TorchMarks' /\ PushMarks'
  BY DEF Marks
<1>1. HitMarks /\ ModeMarks /\ TorchMarks /\ PushMarks /\ Types
  BY DEF PatchInv, Marks
<1>2. HitMarks'
  BY <1>1, HitKept
<1>3. ModeMarks'
  BY <1>1, ModeKept
<1>4. TorchMarks'
  BY <1>1, TorchKept
<1>5. PushStep(t)
  BY DEF PushStep
<1>6. PushMarks'
  BY <1>1, <1>5, PushKept
<1> QED
  BY <1>2, <1>3, <1>4, <1>6

\* The view range and the word of the access a thread is in.
LEMMA KeyIs ==
  ASSUME NEW x
  PROVE  /\ AccessOf(x)[1] = x.addr /\ AccessOf(x)[2] = x.pc /\ AccessOf(x)[3] = x.flags
         /\ KeyOf(AccessOf(x)) = <<ViewKind(x.flags), Word(x.pc, ViewOf(x.addr))>>
         /\ BitsOf(AccessOf(x)) = {KeyOf(AccessOf(x))} \X Masked(ViewOf(x.addr))
<1>1. AccessOf(x)[1] = x.addr /\ AccessOf(x)[2] = x.pc /\ AccessOf(x)[3] = x.flags
  BY DEF AccessOf
<1> QED
  BY <1>1, Zenon DEF KeyOf, BitsOf

\* The word that is loaded holds bits of the map.
LEMMA LoadedBits ==
  ASSUME NEW B, NEW X, B \subseteq UNION {BitsOf(x) : x \in X}, NEW key
  PROVE  {key} \X {x[2] : x \in {y \in B : y[1] = key}} \subseteq UNION {BitsOf(x) : x \in X}
<1> SUFFICES ASSUME NEW b \in {x[2] : x \in {y \in B : y[1] = key}}
             PROVE  <<key, b>> \in UNION {BitsOf(x) : x \in X}
  OBVIOUS
<1>1. PICK y \in B : y[1] = key /\ b = y[2]
  OBVIOUS
<1>2. PICK x \in X : y \in BitsOf(x)
  OBVIOUS
<1>3. y = <<y[1], y[2]>>
  BY <1>2 DEF BitsOf
<1>4. y = <<key, b>>
  BY <1>1, <1>3
<1> QED
  BY <1>2, <1>4

\* What Views says after a step of a thread, from what that thread has loaded.
LEMMA ViewsFrom ==
  ASSUME Views, NEW t \in Threads, Others(t), UNCHANGED <<patch, accessed>>, patch # "address",
         bitmap' \subseteq UNION {BitsOf(x) : x \in Viewed},
         thread'[t].at = "setview" =>
           /\ AccessOf(thread'[t]) \in Viewed
           /\ {KeyOf(AccessOf(thread'[t]))} \X thread'[t].word \subseteq UNION {BitsOf(x) : x \in Viewed}
  PROVE  Views'
<1>1. PICK V : V = Viewed
  OBVIOUS
<1>2. PICK B : B = UNION {BitsOf(x) : x \in V}
  OBVIOUS
<1>3. Viewed' = V
  BY <1>1 DEF Viewed
<1>4. \A s \in Threads : thread'[s].at = "setview" =>
        AccessOf(thread'[s]) \in V /\ {KeyOf(AccessOf(thread'[s]))} \X thread'[s].word \subseteq B
  <2> SUFFICES ASSUME NEW s \in Threads, thread'[s].at = "setview"
               PROVE  AccessOf(thread'[s]) \in V /\ {KeyOf(AccessOf(thread'[s]))} \X thread'[s].word \subseteq B
    OBVIOUS
  <2>1. CASE s = t
    BY <1>1, <1>2, <2>1
  <2>2. CASE s # t
    <3>1. thread'[s] = thread[s]
      BY <2>2 DEF Others
    <3>2. AccessOf(thread[s]) \in V /\ {KeyOf(AccessOf(thread[s]))} \X thread[s].word \subseteq B
      BY <1>1, <1>2, <3>1 DEF Views
    <3> QED
      BY <3>1, <3>2
  <2> QED
    BY <2>1, <2>2
<1>5. bitmap' \subseteq B
  BY <1>1, <1>2
<1>6. Views' = (patch' # "address" =>
                  /\ bitmap' \subseteq UNION {BitsOf(x) : x \in Viewed'}
                  /\ \A s \in Threads : thread'[s].at = "setview" =>
                       /\ AccessOf(thread'[s]) \in Viewed'
                       /\ {KeyOf(AccessOf(thread'[s]))} \X thread'[s].word \subseteq UNION {BitsOf(x) : x \in Viewed'})
  BY Zenon DEF Views, KeyOf, AccessOf, BitsOf, Masked
<1> QED
  BY <1>2, <1>3, <1>4, <1>5, <1>6

\* Loading a word of the bit map.
LEMMA LoadWordKeeps ==
  ASSUME PatchInv, NEW t \in Threads, LoadWord(t)
  PROVE  PatchInv'
<1>1. thread[t].at = "view" /\ Types /\ Views
  BY DEF LoadWord, PatchInv
<1>2. Busy(thread[t]) /\ patch # "address" /\ t \in DOMAIN thread
  BY <1>1, InCallback DEF Places
<1>3. UNCHANGED <<patch, hit, read, write, torch_hit, pushes, bitmap, accessed>>
  BY DEF LoadWord, marks
<1>4. PICK pos : pos = ViewOf(thread[t].addr)
  OBVIOUS
<1>5. CASE pos = 0 \/ Cardinality(thread[t].flags) # 1
  <2>1. thread' = [thread EXCEPT ![t] = Idle]
    BY <1>4, <1>5 DEF LoadWord
  <2>2. Others(t) /\ thread'[t] = Idle /\ thread'[t].at = "idle"
    BY <1>1, <2>1, GoesIdle
  <2>3. Types'
    BY <1>1, <1>2, <1>3, <2>2, TypesKept
  <2>4. Views'
    BY <1>1, <1>3, <2>2, ViewsKept
  <2>5. Marks'
    BY <1>1, <1>3, <2>2, MarksKept
  <2> QED
    BY <2>3, <2>4, <2>5 DEF PatchInv
<1>6. CASE ~ (pos = 0 \/ Cardinality(thread[t].flags) # 1)
  <2>1. PICK key : key = KeyOf(AccessOf(thread[t]))
    OBVIOUS
  <2>2. PICK word : word = {x[2] : x \in {y \in bitmap : y[1] = key}}
    OBVIOUS
  <2>3. thread' = [thread EXCEPT ![t].at = "setview", ![t].word = word]
    <3>1. key = <<ViewKind(thread[t].flags), Word(thread[t].pc, pos)>>
      BY <1>4, <2>1, KeyIs
    <3> QED
      BY <1>4, <1>6, <2>2, <3>1 DEF LoadWord
  <2>4. Goes(thread, thread', t, "setview", thread[t].keep, word)
    BY <1>2, <2>3, GoesAtWord
  <2>5. "setview" \in Places /\ thread[t].keep \in BOOLEAN
    BY <1>2 DEF Places, Busy
  <2>6. /\ Others(t)
        /\ thread'[t].at = "setview" /\ thread'[t].word = word
        /\ Busy(thread'[t]) /\ AccessOf(thread'[t]) = AccessOf(thread[t])
    BY <1>1, <1>2, <2>4, <2>5, GoesIs
  <2>7. Types'
    BY <1>1, <1>2, <1>3, <2>6, TypesKept
  <2>8. Marks'
    BY <1>1, <1>3, <2>6, MarksKept
  <2>9. AccessOf(thread[t]) \in Viewed
    <3>1. thread[t] # Idle
      <4>1. Idle.at = "idle"
        BY DEF Idle
      <4> QED
        BY <1>1, <4>1
    <3>2. AccessOf(thread[t]) \in accessed
      BY <1>1, <3>1 DEF Types
    <3> QED
      BY <1>4, <1>6, <3>2, KeyIs DEF Viewed
  <2>10. bitmap \subseteq UNION {BitsOf(x) : x \in Viewed}
    BY <1>1, <1>2 DEF Views
  <2>11. {key} \X word \subseteq UNION {BitsOf(x) : x \in Viewed}
    BY <2>2, <2>10, LoadedBits
  <2>12. Views'
    BY <1>1, <1>2, <1>3, <2>1, <2>6, <2>9, <2>10, <2>11, ViewsFrom
  <2> QED
    BY <2>7, <2>8, <2>12 DEF PatchInv
<1> QED
  BY <1>5, <1>6

\* Storing a word of the bit map.
LEMMA StoreWordKeeps ==
  ASSUME PatchInv, NEW t \in Threads, StoreWord(t)
  PROVE  PatchInv'
<1>1. thread[t].at = "setview" /\ Types /\ Views
  BY DEF StoreWord, PatchInv
<1>2. Busy(thread[t]) /\ patch # "address" /\ t \in DOMAIN thread
  BY <1>1, InCallback DEF Places
<1>3. UNCHANGED <<patch, hit, read, write, torch_hit, pushes, accessed>>
  BY DEF StoreWord
<1>4. Others(t) /\ thread'[t] = Idle /\ thread'[t].at = "idle"
  BY <1>1, GoesIdle DEF StoreWord
<1>5. PICK key : key = KeyOf(AccessOf(thread[t]))
  OBVIOUS
<1>6. PICK bit_mask \in bit_masks(ViewOf(thread[t].addr)) :
        bitmap' = {x \in bitmap : x[1] # key} \cup ({key} \X (thread[t].word \cup bit_mask))
  <2>1. key = <<ViewKind(thread[t].flags), Word(thread[t].pc, ViewOf(thread[t].addr))>>
    BY <1>5, KeyIs
  <2> QED
    BY <2>1 DEF StoreWord
<1>7. bit_mask \subseteq Masked(ViewOf(thread[t].addr))
  BY DEF Masked
<1>8. PICK B : B = UNION {BitsOf(x) : x \in Viewed}
  OBVIOUS
<1>9. /\ bitmap \subseteq B
      /\ AccessOf(thread[t]) \in Viewed
      /\ {key} \X thread[t].word \subseteq B
  BY <1>1, <1>2, <1>5, <1>8 DEF Views
<1>10. {key} \X bit_mask \subseteq B
  <2>1. BitsOf(AccessOf(thread[t])) = {key} \X Masked(ViewOf(thread[t].addr))
    BY <1>5, KeyIs
  <2>2. {key} \X bit_mask \subseteq BitsOf(AccessOf(thread[t]))
    BY <1>7, <2>1
  <2> QED
    BY <1>8, <1>9, <2>2
<1>11. bitmap' \subseteq B
  BY <1>6, <1>9, <1>10
<1>12. Views'
  BY <1>1, <1>2, <1>3, <1>4, <1>8, <1>11, ViewsFrom
<1>13. Types'
  BY <1>1, <1>2, <1>3, <1>4, TypesKept
<1>14. Marks'
  BY <1>1, <1>3, <1>4, MarksKept
<1> QED
  BY <1>12, <1>13, <1>14 DEF PatchInv

\* The start of a callback.
LEMMA AccessKeeps ==
  ASSUME PatchInv, NEW t \in Threads, NEW a \in Addresses, NEW pc \in Pcs, NEW fl \in Flags, Access(t, a, pc, fl)
  PROVE  PatchInv'
<1>1. patch # "address" /\ thread[t] = Idle /\ Types /\ Views /\ Marks
  BY DEF Access, PatchInv
<1>2. PICK at : at = IF patch = "torchview" THEN "view" ELSE "hit"
  OBVIOUS
<1>3. PICK n : n = [at |-> at, addr |-> a, pc |-> pc, flags |-> fl, keep |-> TRUE, word |-> {}]
  OBVIOUS
<1>4. thread' = [thread EXCEPT ![t] = n]
  BY <1>2, <1>3 DEF Access
<1>5. Others(t) /\ thread'[t] = n
  BY <1>1, <1>4 DEF Types, Others
<1>6. n.at = at /\ n.addr = a /\ n.pc = pc /\ n.flags = fl /\ n.keep = TRUE
  BY <1>3
<1>7. PICK new : new = <<a, pc, fl>>
  OBVIOUS
<1>8. accessed' = accessed \cup {new} /\ new[1] = a /\ new[3] = fl /\ new \in Addresses \X Pcs \X Flags
  BY <1>7 DEF Access
<1>9. UNCHANGED <<patch, hit, read, write, torch_hit, pushes, bitmap>>
  BY DEF Access, marks
<1>10. thread[t].at = "idle"
  BY <1>1 DEF Idle
<1>11. Types'
  <2>1. Busy(n) /\ AccessOf(n) = new
    BY <1>2, <1>3, <1>6, <1>7 DEF Busy, Places, AccessOf
  <2>2. ASSUME NEW s \in Threads
        PROVE  thread'[s] = Idle \/ (Busy(thread'[s]) /\ AccessOf(thread'[s]) \in accessed')
    <3>1. CASE s = t
      BY <1>5, <1>8, <2>1, <3>1
    <3>2. CASE s # t
      BY <1>1, <1>5, <1>8, <3>2 DEF Types, Others
    <3> QED
      BY <3>1, <3>2
  <2>3. accessed' \subseteq Addresses \X Pcs \X Flags
    BY <1>1, <1>8 DEF Types
  <2>4. Types' = /\ patch' \in {"address", "aux", "torch_aux", "torchview"}
                 /\ pushes' \in Nat
                 /\ DOMAIN thread' = Threads
                 /\ \A s \in Threads : thread'[s] = Idle \/ (Busy(thread'[s]) /\ AccessOf(thread'[s]) \in accessed')
                 /\ patch' # "address" => accessed' \subseteq Addresses \X Pcs \X Flags
                 /\ patch' = "address" => bitmap' = {} /\ \A s \in Threads : thread'[s] = Idle
    BY Zenon DEF Types, Busy, AccessOf
  <2> QED
    BY <1>1, <1>5, <1>9, <2>2, <2>3, <2>4 DEF Types, Others
<1>12. Views'
  <2>1. thread'[t].at # "setview" /\ accessed \subseteq accessed'
    BY <1>2, <1>5, <1>6, <1>8
  <2> QED
    BY <1>1, <1>5, <1>9, <2>1, ViewsKept
<1>13. ASSUME patch \in {"aux", "torch_aux"} PROVE HitMarks' /\ ModeMarks' /\ TorchMarks' /\ PushMarks'
  <2>1. HitMarks /\ ModeMarks /\ TorchMarks /\ PushMarks
    BY <1>1, <1>13 DEF Marks
  <2>2. thread'[t].at = "hit" /\ thread'[t].addr = new[1] /\ thread'[t].flags = new[3]
    BY <1>2, <1>5, <1>6, <1>8, <1>13
  <2>3. ASSUME NEW S, "hit" \in S PROVE Pending(S, new)'
    BY <2>2, <2>3 DEF Pending
  <2>4. ASSUME NEW S, "idle" \notin S, NEW x, Pending(S, x) PROVE Pending(S, x)'
    <3>1. \/ Pending(S, x)'
          \/ thread[t].at \in S /\ thread[t].addr = x[1] /\ thread[t].flags = x[3] /\ ~ StaysIn(t, S)
      BY <1>5, <2>4, PendingElse
    <3> QED
      BY <1>10, <2>4, <3>1
  <2>5. HitMarks'
    <3>1. PICK S : S = {"hit", "sethit"}
      OBVIOUS
    <3>2. "hit" \in S /\ "idle" \notin S
      BY <3>1
    <3> SUFFICES ASSUME NEW x \in accessed', map_prev(Dict, x[1]) # 0, map_prev(Dict, x[1]) \notin hit'
                 PROVE  Pending(S, x)'
      BY <3>1 DEF HitMarks
    <3>3. CASE x = new
      BY <2>3, <3>2, <3>3
    <3>4. CASE x \in accessed
      <4>1. Pending(S, x)
        BY <1>9, <2>1, <3>1, <3>4 DEF HitMarks
      <4> QED
        BY <2>4, <3>2, <4>1
    <3> QED
      BY <1>8, <3>3, <3>4
  <2>6. PICK S : S = {"hit", "sethit", "mode"}
    OBVIOUS
  <2>7. "hit" \in S /\ "idle" \notin S
    BY <2>6
  <2>8. ModeMarks'
    <3> SUFFICES ASSUME patch' = "aux", NEW x \in accessed', map_prev(Dict, x[1]) # 0
                 PROVE  /\ x[3] = {"read"} => map_prev(Dict, x[1]) \in read' \/ Pending(S, x)'
                        /\ x[3] = {"write"} => map_prev(Dict, x[1]) \in write' \/ Pending(S, x)'
      BY <2>6 DEF ModeMarks
    <3>3. CASE x = new
      BY <2>3, <2>7, <3>3
    <3>4. CASE x \in accessed
      <4>1. /\ x[3] = {"read"} => map_prev(Dict, x[1]) \in read \/ Pending(S, x)
            /\ x[3] = {"write"} => map_prev(Dict, x[1]) \in write \/ Pending(S, x)
        BY <1>9, <2>1, <2>6, <3>4 DEF ModeMarks
      <4> QED
        BY <1>9, <2>4, <2>7, <4>1
    <3> QED
      BY <1>8, <3>3, <3>4
  <2>9. TorchMarks'
    <3> SUFFICES ASSUME patch' = "torch_aux", NEW x \in accessed', map_prev(TorchDict, x[1]) # 0,
                        map_prev(TorchDict, x[1]) \notin torch_hit'
                 PROVE  Pending(S, x)'
      BY <2>6 DEF TorchMarks
    <3>3. CASE x = new
      BY <2>3, <2>7, <3>3
    <3>4. CASE x \in accessed
      <4>1. Pending(S, x)
        BY <1>9, <2>1, <2>6, <3>4 DEF TorchMarks
      <4> QED
        BY <2>4, <2>7, <4>1
    <3> QED
      BY <1>8, <3>3, <3>4
  <2>10. PushStep(t)
    BY <1>9, <1>10, <2>2 DEF PushStep
  <2>11. PushMarks'
    BY <1>1, <1>5, <2>1, <2>10, PushKept
  <2> QED
    BY <2>5, <2>8, <2>9, <2>11
<1> QED
  BY <1>9, <1>11, <1>12, <1>13 DEF PatchInv, Marks

\* Steps of the address patch, and steps that change nothing.
LEMMA AddressKeeps ==
  ASSUME PatchInv, UNCHANGED <<patch, thread, marks>>, patch = "address" \/ accessed' = accessed
  PROVE  PatchInv'
<1>1. UNCHANGED <<patch, thread, hit, read, write, torch_hit, pushes, bitmap>>
  BY DEF marks
<1>2. CASE patch = "address"
  BY <1>1, <1>2, Zenon DEF PatchInv, Types, Marks, Views
<1>3. CASE accessed' = accessed
  BY <1>1, <1>3 DEF PatchInv, Types, Marks, Views, HitMarks, ModeMarks, TorchMarks, PushMarks, Pending,
                    Viewed, BitsOf, Masked, KeyOf, AccessOf, Busy
<1> QED
  BY <1>2, <1>3

\* The invariant holds at the start and is kept by every step.
LEMMA PatchInvariance == PatchSpec => []PatchInv
<1>1. PatchInit => PatchInv
  <2> SUFFICES ASSUME PatchInit PROVE PatchInv
    OBVIOUS
  <2>1. Idle.at = "idle"
    BY DEF Idle
  <2>2. patch \in {"address", "aux", "torch_aux", "torchview"}
    BY PatchAssumption DEF PatchInit
  <2>3. Types
    BY <2>2 DEF PatchInit, Types
  <2>4. Marks
    BY <2>1 DEF PatchInit, Marks, HitMarks, ModeMarks, TorchMarks, PushMarks
  <2>5. Views
    BY <2>1 DEF PatchInit, Views
  <2> QED
    BY <2>3, <2>4, <2>5 DEF PatchInv
<1>2. PatchInv /\ [PatchNext]_patch_vars => PatchInv'
  <2> SUFFICES ASSUME PatchInv, [PatchNext]_patch_vars PROVE PatchInv'
    OBVIOUS
  <2>1. ASSUME NEW r \in Records, Record(r) PROVE PatchInv'
    BY <2>1, AddressKeeps DEF Record
  <2>2. CASE Analyze
    BY <2>2, AddressKeeps DEF Analyze
  <2>3. ASSUME NEW t \in Threads, NEW a \in Addresses, NEW pc \in Pcs, NEW fl \in Flags, Access(t, a, pc, fl)
        PROVE  PatchInv'
    BY <2>3, AccessKeeps
  <2>4. ASSUME NEW t \in Threads, LoadHit(t) PROVE PatchInv'
    BY <2>4, LoadHitKeeps
  <2>5. ASSUME NEW t \in Threads, StoreHit(t) PROVE PatchInv'
    BY <2>5, StoreHitKeeps
  <2>6. ASSUME NEW t \in Threads, StoreMode(t) PROVE PatchInv'
    BY <2>6, StoreModeKeeps
  <2>7. ASSUME NEW t \in Threads, StoreTorchHit(t) PROVE PatchInv'
    BY <2>7, StoreTorchHitKeeps
  <2>8. ASSUME NEW t \in Threads, Push(t) PROVE PatchInv'
    BY <2>8, PushKeeps
  <2>9. ASSUME NEW t \in Threads, LoadWord(t) PROVE PatchInv'
    BY <2>9, LoadWordKeeps
  <2>10. ASSUME NEW t \in Threads, StoreWord(t) PROVE PatchInv'
    BY <2>10, StoreWordKeeps
  <2>11. CASE UNCHANGED patch_vars
    BY <2>11, AddressKeeps DEF patch_vars
  <2> QED
    BY <2>1, <2>2, <2>3, <2>4, <2>5, <2>6, <2>7, <2>8, <2>9, <2>10, <2>11 DEF PatchNext
<1> QED
  BY <1>1, <1>2, PTL DEF PatchSpec

\* When the threads are done, every entry of a dictionary that was accessed is marked,
\* whatever the order of the loads and stores of marks was, and with one dictionary a
\* record was pushed (memory_access_callback of the two patches with dictionaries).
THEOREM MarksAreComplete == PatchSpec => []MarksCover
<1>1. PatchInv => MarksCover
  <2> SUFFICES ASSUME PatchInv, Quiet, patch \in {"aux", "torch_aux"} PROVE MarksCover
    BY DEF MarksCover
  <2>1. HitMarks /\ ModeMarks /\ TorchMarks /\ PushMarks /\ Types
    BY DEF PatchInv, Marks
  <2>2. \A t \in Threads : thread[t].at = "idle"
    BY DEF Quiet, Idle
  <2>3. Sorted(Dict) /\ Sorted(TorchDict)
    BY PatchAssumption, Zenon DEF Sorted
  <2>4. \A x \in accessed : x[1] \in Nat
    BY <2>1, PatchAssumption DEF Types
  <2>5. ASSUME NEW d, Sorted(d), NEW p \in DOMAIN d, NEW x \in To(d[p])
        PROVE  x \in accessed /\ map_prev(d, x[1]) = p /\ p # 0
    <3>1. x \in accessed /\ d[p].start <= x[1] /\ x[1] < d[p].end
      BY DEF To
    <3>2. x[1] \in Nat
      BY <2>4, <3>1
    <3>3. map_prev(d, x[1]) = p
      BY <2>5, <3>1, <3>2, PrevFinds
    <3>4. p # 0
      BY <2>5, SortedIs
    <3> QED
      BY <3>1, <3>3, <3>4
  <2>6. ASSUME NEW p \in DOMAIN Dict, To(Dict[p]) # {}
        PROVE  p \in hit /\ (patch = "aux" => pushes > 0)
    <3>1. PICK x \in To(Dict[p]) : TRUE
      BY <2>6
    <3>2. x \in accessed /\ map_prev(Dict, x[1]) = p /\ p # 0
      BY <2>3, <2>5
    <3>3. p \in hit
      BY <2>1, <2>2, <3>2 DEF HitMarks, Pending
    <3> QED
      BY <2>1, <2>2, <3>3 DEF PushMarks
  <2>7. ASSUME patch = "aux", NEW p \in DOMAIN Dict, NEW x \in To(Dict[p])
        PROVE  (x[3] = {"read"} => p \in read) /\ (x[3] = {"write"} => p \in write)
    <3>1. x \in accessed /\ map_prev(Dict, x[1]) = p /\ p # 0
      BY <2>3, <2>5
    <3> QED
      BY <2>1, <2>2, <2>7, <3>1 DEF ModeMarks, Pending
  <2>8. ASSUME patch = "torch_aux", NEW p \in DOMAIN TorchDict, To(TorchDict[p]) # {}
        PROVE  p \in torch_hit
    <3>1. PICK x \in To(TorchDict[p]) : TRUE
      BY <2>8
    <3>2. x \in accessed /\ map_prev(TorchDict, x[1]) = p /\ p # 0
      BY <2>3, <2>5
    <3> QED
      BY <2>1, <2>2, <2>8, <3>2 DEF TorchMarks, Pending
  <2> QED
    BY <2>6, <2>7, <2>8 DEF MarksCover
<1> QED
  BY <1>1, PatchInvariance, PTL

-----------------------------------------------------------------------------
(* GpuPatches: the places of the bit map *)

\* A product grows with a factor by at least the other one.
LEMMA ProductGrows ==
  ASSUME NEW m \in Nat, NEW n \in Nat, m < n, NEW k \in Nat
  PROVE  m * k \in Nat /\ n * k \in Nat /\ m * k + k <= n * k
<1>1. PICK d \in Nat : n = m + 1 + d
  <2>1. n - m - 1 \in Nat /\ n = m + 1 + (n - m - 1)
    OBVIOUS
  <2> QED
    BY <2>1
<1>2. (m + 1 + d) * k = m * k + k + d * k
  OBVIOUS
<1>3. d * k \in Nat /\ m * k \in Nat /\ n * k \in Nat
  OBVIOUS
<1> QED
  BY <1>1, <1>2, <1>3

\* Rows of k words: row and column are known from the place.
LEMMA RowAndColumn ==
  ASSUME NEW m \in Nat, NEW n \in Nat, NEW k \in Nat, NEW r \in Nat, NEW s \in Nat, r < k, s < k,
         m * k + r = n * k + s
  PROVE  m = n /\ r = s
<1>1. CASE m < n
  <2>1. m * k \in Nat /\ n * k \in Nat /\ m * k + k <= n * k
    BY <1>1, ProductGrows
  <2> QED
    BY <2>1
<1>2. CASE n < m
  <2>1. m * k \in Nat /\ n * k \in Nat /\ n * k + k <= m * k
    BY <1>2, ProductGrows
  <2> QED
    BY <2>1
<1>3. CASE m = n
  <2>1. m * k \in Nat
    OBVIOUS
  <2> QED
    BY <1>3, <2>1
<1> QED
  BY <1>1, <1>2, <1>3

\* Division with remainder.
LEMMA Division ==
  ASSUME NEW n \in Nat, NEW w \in Nat \ {0}
  PROVE  n \div w \in Nat /\ n % w \in Nat /\ n % w < w /\ n = (n \div w) * w + (n % w)
  OBVIOUS

\* A smaller number has no larger quotient.
LEMMA QuotientGrows ==
  ASSUME NEW m \in Nat, NEW n \in Nat, m <= n, NEW w \in Nat \ {0}
  PROVE  m \div w <= n \div w
<1>1. PICK a \in Nat, r \in Nat : a = m \div w /\ r = m % w /\ m = a * w + r /\ r < w
  BY Division
<1>2. PICK b \in Nat, s \in Nat : b = n \div w /\ s = n % w /\ n = b * w + s /\ s < w
  BY Division
<1>3. CASE b < a
  <2>1. a * w \in Nat /\ b * w \in Nat /\ b * w + w <= a * w
    BY <1>3, ProductGrows
  <2> QED
    BY <1>1, <1>2, <2>1
<1> QED
  BY <1>1, <1>2, <1>3

\* The word tells the program counter and the word of the view range.
LEMMA WordsDiffer ==
  ASSUME NEW pc \in Nat, NEW qc \in Nat, Len(Dict) \in Nat,
         NEW p \in 1 .. Len(Dict), NEW q \in 1 .. Len(Dict),
         Word(pc, p) = Word(qc, q)
  PROVE  pc = qc /\ (p - 1) \div WordBits = (q - 1) \div WordBits
<1>1. PICK w \in Nat \ {0} : w = WordBits
  BY PatchAssumption
<1>2. PICK l \in Nat : l = Len(Dict) \div w
  BY Division
<1>3. PICK i \in Nat, j \in Nat : i = p - 1 /\ j = q - 1
  OBVIOUS
<1>4. PICK r \in Nat, a \in Nat : r = i \div w /\ a = i % w /\ i = r * w + a /\ a < w
  BY Division
<1>5. PICK s \in Nat, b \in Nat : s = j \div w /\ b = j % w /\ j = s * w + b /\ b < w
  BY Division
<1>6. r < l + 2 /\ s < l + 2
  <2>1. i <= Len(Dict) /\ j <= Len(Dict)
    BY <1>3
  <2>2. r <= l /\ s <= l
    BY <1>2, <1>4, <1>5, <2>1, QuotientGrows
  <2> QED
    BY <2>2
<1>7. pc * (l + 2) + r = qc * (l + 2) + s
  BY <1>1, <1>2, <1>3, <1>4, <1>5 DEF Word
<1>8. PICK k \in Nat : k = l + 2
  OBVIOUS
<1>9. pc = qc /\ r = s
  BY <1>6, <1>7, <1>8, RowAndColumn
<1> QED
  BY <1>1, <1>3, <1>4, <1>5, <1>9

\* A bit of the map comes from an access of that kind at that program counter to a view
\* range of the same word whose mask has the bit: rows and words do not run into each
\* other, and a race of two threads may lose a mark but makes none up
\* (gpu-patch-aux-torchview.cu).
THEOREM ViewMarksAreMasked == PatchSpec => []ViewMarksMasked
<1>1. PatchInv => ViewMarksMasked
  <2> SUFFICES ASSUME PatchInv, NEW pc \in Pcs, NEW p \in DOMAIN Dict, NEW f \in {"read", "write"},
                      Bit(pc, p, f) \in bitmap
               PROVE  \E q \in DOMAIN Dict :
                        /\ (q - 1) \div WordBits = (p - 1) \div WordBits
                        /\ (p - 1) % WordBits \in UNION bit_masks(q)
                        /\ Accessed(pc, q, f)
    BY DEF ViewMarksMasked
  <2>1. patch # "address" /\ Types
    BY DEF PatchInv, Types
  <2>2. PICK x \in Viewed : Bit(pc, p, f) \in BitsOf(x)
    BY <2>1 DEF PatchInv, Views
  <2>3. x \in accessed /\ ViewOf(x[1]) # 0 /\ Cardinality(x[3]) = 1
    BY DEF Viewed
  <2>4. x[1] \in Nat /\ x[2] \in Nat /\ x[3] \in Flags /\ pc \in Nat
    BY <2>1, <2>3, PatchAssumption DEF Types
  <2>5. PICK q : q = ViewOf(x[1])
    OBVIOUS
  <2>6. /\ ViewKind(x[3]) = f /\ Word(x[2], q) = Word(pc, p)
        /\ (p - 1) % WordBits \in UNION bit_masks(q)
    <3>1. BitsOf(x) = {<<ViewKind(x[3]), Word(x[2], q)>>} \X UNION bit_masks(q)
      BY <2>5 DEF BitsOf, KeyOf, Masked
    <3> QED
      BY <2>2, <3>1 DEF Bit
  <2>7. x[3] = {f}
    <3>1. IsFiniteSet(x[3])
      <4>1. IsFiniteSet({"read"}) /\ IsFiniteSet({"write"})
        BY FS_Singleton
      <4>2. IsFiniteSet({"read"} \cup {"write"}) /\ {"read", "write"} = {"read"} \cup {"write"}
        BY <4>1, FS_Union
      <4> QED
        BY <2>4, <4>1, <4>2 DEF Flags
    <3>2. PICK g : x[3] = {g}
      BY <2>3, <3>1, FS_Singleton
    <3>3. ViewKind(x[3]) = g
      BY <3>2 DEF ViewKind
    <3> QED
      BY <2>6, <3>2, <3>3
  <2>8. Sorted(Dict)
    BY PatchAssumption, Zenon DEF Sorted
  <2>9. Len(Dict) \in Nat /\ DOMAIN Dict = 1 .. Len(Dict)
    BY <2>8, SortedIs
  <2>10. q = map_prev(Dict, x[1]) /\ q # 0 /\ x[1] < Dict[q].end
    BY <2>3, <2>5 DEF ViewOf
  <2>11. Border(Dict, x[1], q)
    BY <2>4, <2>8, <2>10, PrevFinds
  <2>12. q \in 1 .. Len(Dict) /\ Dict[q].start <= x[1]
    BY <2>9, <2>10, <2>11 DEF Border
  <2>13. x[2] = pc /\ (q - 1) \div WordBits = (p - 1) \div WordBits
    BY <2>4, <2>6, <2>9, <2>12, WordsDiffer
  <2>14. Accessed(pc, q, f)
    BY <2>3, <2>7, <2>10, <2>12, <2>13 DEF To, Accessed
  <2> QED
    BY <2>6, <2>9, <2>12, <2>13, <2>14
<1> QED
  BY <1>1, PatchInvariance, PTL

-----------------------------------------------------------------------------
(* DataFlow: merge_memory_range *)

ByteRange == {x \in Nat \X Nat : x[1] < x[2]}

\* Ranges that are not empty, with different starts.
Starts(M) == M \subseteq ByteRange /\ \A x, y \in M : x[1] = y[1] => x = y

\* A range is the pair of its bounds.
LEMMA RangeIs ==
  ASSUME NEW x \in ByteRange
  PROVE  x[1] \in Nat /\ x[2] \in Nat /\ x[1] < x[2] /\ x = <<x[1], x[2]>>
  BY DEF ByteRange

\* Of ranges there is one with the least start.
LEMMA LowestRange ==
  ASSUME NEW M, M \subseteq ByteRange, M # {}
  PROVE  \E x \in M : \A y \in M : x[1] <= y[1]
<1>1. PICK T : T = {x[1] : x \in M}
  OBVIOUS
<1>2. T \in SUBSET Nat /\ T # {}
  BY <1>1, RangeIs
<1>3. PICK n \in T : \A m \in T : n <= m
  BY <1>2, LeastOf
<1> QED
  BY <1>1, <1>3

\* Of ranges that start up to n there is one with the largest start.
LEMMA HighestRange ==
  ASSUME NEW M, M \subseteq ByteRange, M # {}, NEW n \in Nat, \A x \in M : x[1] <= n
  PROVE  \E x \in M : \A y \in M : y[1] <= x[1]
<1>1. PICK T : T = {n - x[1] : x \in M}
  OBVIOUS
<1>2. T \in SUBSET Nat /\ T # {}
  BY <1>1, RangeIs
<1>3. PICK k \in T : \A m \in T : k <= m
  BY <1>2, LeastOf
<1>4. PICK x \in M : k = n - x[1]
  BY <1>1, <1>3
<1>5. ASSUME NEW y \in M PROVE y[1] <= x[1]
  <2>1. k <= n - y[1]
    BY <1>1, <1>3
  <2>2. x[1] \in Nat /\ y[1] \in Nat
    BY RangeIs
  <2> QED
    BY <1>4, <2>1, <2>2
<1> QED
  BY <1>5

\* A byte is in a set of ranges if it is in one of them.
LEMMA InSpan ==
  ASSUME NEW M, NEW b
  PROVE  b \in SpanOf(M) <=> \E x \in M : b \in Span(x)
  BY DEF SpanOf

\* b is in the range x.
LEMMA InRange ==
  ASSUME NEW x \in ByteRange, NEW b
  PROVE  b \in Span(x) <=> b \in Nat /\ x[1] <= b /\ b < x[2]
  BY RangeIs DEF Span

\* The ranges G of M and the range r make up the range n.
MakeUp(M, G, r, n, N) ==
  /\ N = (M \ G) \cup {n}
  /\ Starts(M) /\ G \subseteq M /\ r \in ByteRange /\ n \in ByteRange
  /\ \A x \in M \ G : x[1] # n[1]
  /\ Span(n) = SpanOf(G) \cup Span(r)

\* A range n takes the place of the ranges in G, which with r cover the same bytes.
LEMMA Replaced ==
  ASSUME NEW M, NEW G, NEW r, NEW n, NEW N, MakeUp(M, G, r, n, N)
  PROVE  Starts(N) /\ SpanOf(N) = SpanOf(M) \cup Span(r)
<1> USE DEF MakeUp
<1>1. Starts((M \ G) \cup {n})
  BY DEF Starts
<1>2. ASSUME NEW b PROVE b \in SpanOf((M \ G) \cup {n}) <=> b \in SpanOf(M) \cup Span(r)
  <2>1. b \in SpanOf((M \ G) \cup {n}) <=> (\E x \in M \ G : b \in Span(x)) \/ b \in Span(n)
    BY InSpan
  <2>2. b \in Span(n) <=> (\E x \in G : b \in Span(x)) \/ b \in Span(r)
    BY InSpan
  <2>3. b \in SpanOf(M) <=> \E x \in M : b \in Span(x)
    BY InSpan
  <2> QED
    BY <2>1, <2>2, <2>3
<1> QED
  BY <1>1, <1>2

\* The parts of merge_memory_range, by name.
Merging(M, r, left, l, right, over, stop, gone) ==
  /\ left = {x \in M : x[1] <= r[1]}
  /\ l = CHOOSE x \in left : \A y \in left : y[1] <= x[1]
  /\ right = {x \in M : x[1] > l[1] /\ x[1] <= r[2]}
  /\ over = {x \in right : x[2] >= r[2]}
  /\ stop = CHOOSE x \in over : \A y \in over : x[1] <= y[1]
  /\ gone = IF over = {} THEN right ELSE {x \in right : x[1] <= stop[1]}
  /\ merge_memory_range(M, r) =
       IF left = {} THEN M \cup {r}
       ELSE IF l[2] >= r[1] /\ l[2] >= r[2] THEN M
       ELSE (M \ (gone \cup (IF l[2] >= r[1] THEN {l} ELSE {})))
              \cup {<<IF l[2] >= r[1] THEN l[1] ELSE r[1], IF over = {} THEN r[2] ELSE stop[2]>>}

\* merge_memory_range has such parts, and returns what they say.
LEMMA MergingIs ==
  ASSUME NEW M, NEW r
  PROVE  \E left, l, right, over, stop, gone : Merging(M, r, left, l, right, over, stop, gone)
<1> DEFINE left  == {x \in M : x[1] <= r[1]}
           l     == CHOOSE x \in left : \A y \in left : y[1] <= x[1]
           right == {x \in M : x[1] > l[1] /\ x[1] <= r[2]}
           over  == {x \in right : x[2] >= r[2]}
           stop  == CHOOSE x \in over : \A y \in over : x[1] <= y[1]
           gone  == IF over = {} THEN right ELSE {x \in right : x[1] <= stop[1]}
<1>1. Merging(M, r, left, l, right, over, stop, gone)
  BY Zenon DEF merge_memory_range, MergedStart, Merging
<1> HIDE DEF left, l, right, over, stop, gone
<1> QED
  BY <1>1, Zenon

\* Merging a range adds its bytes and no others, whatever ranges it meets.
LEMMA MergeExact ==
  ASSUME NEW M, Starts(M), NEW r \in ByteRange
  PROVE  /\ Starts(merge_memory_range(M, r))
         /\ SpanOf(merge_memory_range(M, r)) = SpanOf(M) \cup Span(r)
<1>0. PICK left, l, right, over, stop, gone : Merging(M, r, left, l, right, over, stop, gone)
  BY MergingIs
<1>1. left = {x \in M : x[1] <= r[1]}
  BY <1>0, Zenon DEF Merging
<1>2. r[1] \in Nat /\ r[2] \in Nat /\ r[1] < r[2]
  BY RangeIs
<1>3. CASE left = {}
  <2>1. merge_memory_range(M, r) = (M \ {}) \cup {r}
    BY <1>0, <1>3 DEF Merging
  <2>2. \A x \in M \ {} : x[1] # r[1]
    BY <1>1, <1>2, <1>3, RangeIs DEF Starts
  <2>3. Span(r) = SpanOf({}) \cup Span(r)
    BY DEF SpanOf
  <2>4. MakeUp(M, {}, r, r, merge_memory_range(M, r))
    BY <2>1, <2>2, <2>3 DEF MakeUp
  <2> QED
    BY <2>4, Replaced, Zenon
<1>4. CASE left # {}
  <2>1. l = CHOOSE x \in left : \A y \in left : y[1] <= x[1]
    BY <1>0, Zenon DEF Merging
  <2>2. l \in left /\ \A y \in left : y[1] <= l[1]
    <3>1. \E x \in left : \A y \in left : y[1] <= x[1]
      BY <1>1, <1>2, <1>4, HighestRange DEF Starts
    <3> QED
      BY <2>1, <3>1
  <2>3. l \in M /\ l \in ByteRange /\ l[1] \in Nat /\ l[2] \in Nat /\ l[1] < l[2] /\ l[1] <= r[1]
    BY <1>1, <2>2, RangeIs DEF Starts
  <2> DEFINE joins == l[2] >= r[1]
  <2>5. right = {x \in M : x[1] > l[1] /\ x[1] <= r[2]}
    BY <1>0, Zenon DEF Merging
  <2>6. over = {x \in right : x[2] >= r[2]}
    BY <1>0, Zenon DEF Merging
  <2>7. stop = CHOOSE x \in over : \A y \in over : x[1] <= y[1]
    BY <1>0, Zenon DEF Merging
  <2>8. gone = IF over = {} THEN right ELSE {x \in right : x[1] <= stop[1]}
    BY <1>0, Zenon DEF Merging
  <2>9. merge_memory_range(M, r) =
          IF joins /\ l[2] >= r[2] THEN M
          ELSE (M \ (gone \cup (IF joins THEN {l} ELSE {})))
                 \cup {<<IF joins THEN l[1] ELSE r[1], IF over = {} THEN r[2] ELSE stop[2]>>}
    BY <1>0, <1>4, Zenon DEF Merging
  <2>10. CASE joins /\ l[2] >= r[2]
    <3>1. Span(r) \subseteq Span(l)
      BY <1>2, <2>3, <2>10 DEF Span
    <3>2. Span(r) \subseteq SpanOf(M)
      BY <2>3, <3>1 DEF SpanOf
    <3> QED
      BY <2>9, <2>10, <3>2
  <2>11. CASE ~ (joins /\ l[2] >= r[2])
    <3>1. PICK G : G = gone \cup (IF joins THEN {l} ELSE {})
      OBVIOUS
    <3>2. PICK n : n = <<IF joins THEN l[1] ELSE r[1], IF over = {} THEN r[2] ELSE stop[2]>>
      OBVIOUS
    <3>3. merge_memory_range(M, r) = (M \ G) \cup {n}
      BY <2>9, <2>11, <3>1, <3>2
    <3>4. \A x \in right : x \in M /\ x \in ByteRange /\ x[1] \in Nat /\ x[2] \in Nat /\ x[1] < x[2]
                           /\ r[1] < x[1] /\ x[1] <= r[2]
      <4> SUFFICES ASSUME NEW x \in right
                   PROVE  x \in M /\ x \in ByteRange /\ x[1] \in Nat /\ x[2] \in Nat /\ x[1] < x[2]
                          /\ r[1] < x[1] /\ x[1] <= r[2]
        OBVIOUS
      <4>1. x \in M /\ x[1] > l[1] /\ x[1] <= r[2]
        BY <2>5
      <4>2. x \in ByteRange /\ x[1] \in Nat /\ x[2] \in Nat /\ x[1] < x[2]
        BY <4>1, RangeIs DEF Starts
      <4>3. ~ (x[1] <= r[1])
        BY <1>1, <2>2, <2>3, <4>1, <4>2
      <4> QED
        BY <1>2, <4>1, <4>2, <4>3
    <3>5. ASSUME over # {}
          PROVE  stop \in right /\ stop[2] >= r[2] /\ \A y \in over : stop[1] <= y[1]
      <4>1. over \subseteq ByteRange
        BY <2>6, <3>4
      <4>2. \E x \in over : \A y \in over : x[1] <= y[1]
        BY <3>5, <4>1, LowestRange
      <4>3. stop \in over /\ \A y \in over : stop[1] <= y[1]
        BY <2>7, <4>2
      <4> QED
        BY <2>6, <4>3
    <3>6. gone \subseteq right /\ G \subseteq M
      BY <2>3, <2>8, <3>1, <3>4
    <3>7. PICK a \in Nat : a = (IF joins THEN l[1] ELSE r[1]) /\ a <= r[1]
      BY <1>2, <2>3
    <3>8. PICK z \in Nat : z = (IF over = {} THEN r[2] ELSE stop[2]) /\ z >= r[2]
      BY <1>2, <3>4, <3>5
    <3>9. n = <<a, z>> /\ n[1] = a /\ n[2] = z /\ n \in ByteRange
      BY <1>2, <3>2, <3>7, <3>8 DEF ByteRange
    <3>10. \A x \in M \ G : x[1] # n[1]
      <4> SUFFICES ASSUME NEW x \in M, x[1] = a PROVE x \in G
        BY <3>9
      <4>1. CASE joins
        <5>1. x = l
          BY <2>3, <3>7, <4>1 DEF Starts
        <5> QED
          BY <3>1, <4>1, <5>1
      <4>2. CASE ~ joins
        <5>1. x \in left
          BY <1>1, <1>2, <3>7
        <5>2. x[1] = r[1] /\ x[1] <= l[1]
          BY <2>2, <3>7, <4>2, <5>1
        <5>3. l[1] = r[1]
          BY <1>2, <2>3, <5>2
        <5> QED
          BY <1>2, <2>3, <4>2, <5>3
      <4> QED
        BY <4>1, <4>2
    <3>11. Span(n) = SpanOf(G) \cup Span(r)
      <4> SUFFICES ASSUME NEW b PROVE b \in Span(n) <=> b \in SpanOf(G) \/ b \in Span(r)
        OBVIOUS
      <4>1. b \in Span(n) <=> b \in Nat /\ a <= b /\ b < z
        BY <3>9, InRange
      <4>2. b \in Span(r) <=> b \in Nat /\ r[1] <= b /\ b < r[2]
        BY InRange
      <4>3. b \in SpanOf(G) <=> \E x \in G : b \in Span(x)
        BY InSpan
      <4>4. \A x \in M : b \in Span(x) <=> b \in Nat /\ x[1] <= b /\ b < x[2]
        BY InRange DEF Starts
      <4>5. ASSUME b \in Nat, a <= b, b < z PROVE b \in SpanOf(G) \/ b \in Span(r)
        <5>1. CASE b < r[1]
          <6>1. joins
            BY <1>2, <3>7, <4>5, <5>1
          <6>2. l[1] <= b /\ b < l[2] /\ l \in G
            BY <1>2, <2>3, <3>1, <3>7, <4>5, <5>1, <6>1
          <6> QED
            BY <2>3, <4>3, <4>4, <4>5, <6>2
        <5>2. CASE b >= r[2]
          <6>1. over # {}
            BY <1>2, <3>8, <4>5, <5>2
          <6>2. stop \in right /\ z = stop[2]
            BY <3>5, <3>8, <6>1
          <6>3. stop[1] \in Nat /\ stop[1] <= r[2] /\ stop \in M
            BY <3>4, <6>2
          <6>4. stop[1] <= b /\ b < stop[2]
            BY <1>2, <4>5, <5>2, <6>2, <6>3
          <6>5. stop \in G
            BY <2>8, <3>1, <6>1, <6>2, <6>3
          <6> QED
            BY <4>3, <4>4, <4>5, <6>3, <6>4, <6>5
        <5> QED
          BY <1>2, <4>2, <4>5, <5>1, <5>2
      <4>6. ASSUME NEW x \in G, b \in Span(x) PROVE b \in Nat /\ a <= b /\ b < z
        <5>1. x \in M /\ b \in Nat /\ x[1] <= b /\ b < x[2]
          BY <3>6, <4>4, <4>6
        <5>2. CASE x \in gone
          <6>1. x \in right
            BY <3>6, <5>2
          <6>2. x[1] \in Nat /\ x[2] \in Nat /\ r[1] < x[1]
            BY <3>4, <6>1
          <6>3. x[2] <= z
            <7>1. CASE x \notin over
              BY <1>2, <2>6, <3>8, <6>1, <6>2, <7>1
            <7>2. CASE x \in over
              <8>1. stop \in right /\ stop[1] <= x[1] /\ x[1] <= stop[1] /\ z = stop[2]
                BY <2>8, <3>5, <3>8, <5>2, <7>2
              <8>2. stop[1] \in Nat /\ stop \in M
                BY <3>4, <8>1
              <8>3. x = stop
                BY <5>1, <6>2, <8>1, <8>2 DEF Starts
              <8> QED
                BY <6>2, <8>1, <8>3
            <7> QED
              BY <7>1, <7>2
          <6> QED
            BY <1>2, <3>7, <5>1, <6>2, <6>3
        <5>3. CASE x \notin gone
          <6>1. x = l /\ joins
            BY <3>1, <5>3
          <6>2. l[2] < r[2]
            BY <1>2, <2>3, <2>11, <6>1
          <6> QED
            BY <1>2, <2>3, <3>7, <3>8, <5>1, <6>1, <6>2
        <5> QED
          BY <5>2, <5>3
      <4>7. ASSUME b \in Span(r) PROVE b \in Nat /\ a <= b /\ b < z
        BY <1>2, <3>7, <3>8, <4>2, <4>7
      <4> QED
        BY <4>1, <4>3, <4>5, <4>6, <4>7
    <3>12. G \subseteq M /\ n \in ByteRange
      BY <3>6, <3>9
    <3>13. /\ Starts((M \ G) \cup {n})
           /\ SpanOf((M \ G) \cup {n}) = SpanOf(M) \cup Span(r)
      <4>1. PICK N : N = (M \ G) \cup {n}
        OBVIOUS
      <4>2. MakeUp(M, G, r, n, N)
        BY <3>10, <3>11, <3>12, <4>1 DEF MakeUp
      <4>3. Starts(N) /\ SpanOf(N) = SpanOf(M) \cup Span(r)
        BY <4>2, Replaced, Zenon
      <4> QED
        BY <4>1, <4>3
    <3> QED
      BY <3>3, <3>13
  <2> QED
    BY <2>10, <2>11
<1> QED
  BY <1>3, <1>4

-----------------------------------------------------------------------------
(* DataFlow: the pieces of a region *)

\* The objects of A at or below a, and the last of them.
Below(A, a) == {o \in A : Base[o] <= a}
LastOf(S) == CHOOSE x \in S : \A y \in S : Base[y] <= Base[x]

\* One turn of the loop of trace_analyze_address_analysis.
PieceStep(g, A, r, a) ==
  IF a >= r[2] \/ Below(A, a) = {} THEN {}
  ELSE IF a >= Base[LastOf(Below(A, a))] + Size THEN {}
  ELSE {<<LastOf(Below(A, a)),
          <<a - Base[LastOf(Below(A, a))],
            Min({r[2], Base[LastOf(Below(A, a))] + Size}) - Base[LastOf(Below(A, a))]>>>>}
         \cup g[Base[LastOf(Below(A, a))] + Size]

\* g is a function that the loop computes.
Loop(g, A, r) == g = [a \in Nat |-> PieceStep(g, A, r, a)]

\* Pieces is a function of that kind, at the start of the region.
LEMMA PiecesIs ==
  ASSUME NEW r
  PROVE  Pieces(r) = (CHOOSE g : Loop(g, Allocated, r))[r[1]]
  BY Zenon DEF Pieces, Loop, PieceStep, Below, LastOf, End

\* Objects with the addresses of the model.
Placed(A) == A \subseteq Objects

\* An object has an address, and lies beside every other object.
LEMMA Apart ==
  ASSUME NEW A, Placed(A), NEW o \in A
  PROVE  /\ Base[o] \in Nat /\ Size \in Nat /\ Size > 0
         /\ \A q \in A : q # o => Base[q] \in Nat /\ (Base[q] + Size <= Base[o] \/ Base[o] + Size <= Base[q])
  BY FlowAssumption DEF Placed

\* The smaller of two numbers.
LEMMA MinOf ==
  ASSUME NEW m \in Nat, NEW n \in Nat
  PROVE  Min({m, n}) = IF m <= n THEN m ELSE n
<1>1. PICK S : S = {m, n}
  OBVIOUS
<1>2. Min(S) = CHOOSE x \in S : \A y \in S : x <= y
  BY Zenon DEF Min
<1>3. \E x \in S : \A y \in S : x <= y
  BY <1>1
<1>4. Min(S) \in S /\ \A y \in S : Min(S) <= y
  BY <1>2, <1>3, Zenon
<1> QED
  BY <1>1, <1>4

\* A byte of an object is at a.
Covered(A, a) == \E o \in A : Base[o] <= a /\ a < Base[o] + Size

\* The last object below an address that is covered is the one that covers it.
LEMMA LastCovers ==
  ASSUME NEW A, Placed(A), NEW a \in Nat, NEW o \in A, Base[o] <= a, a < Base[o] + Size
  PROVE  Below(A, a) # {} /\ LastOf(Below(A, a)) = o
<1>1. PICK S : S = Below(A, a)
  OBVIOUS
<1>2. o \in S /\ S \subseteq A /\ \A y \in S : Base[y] <= a
  BY <1>1 DEF Below
<1>3. \A y \in S : y # o => Base[y] + Size <= Base[o]
  BY <1>2, Apart
<1>4. \A y \in S : Base[y] <= Base[o]
  BY <1>2, <1>3, Apart
<1>5. PICK l : l = LastOf(S)
  OBVIOUS
<1>6. l \in S /\ \A y \in S : Base[y] <= Base[l]
  BY <1>2, <1>4, <1>5 DEF LastOf
<1>7. CASE l # o
  <2>1. Base[l] + Size <= Base[o] /\ Base[o] <= Base[l]
    BY <1>2, <1>3, <1>6, <1>7
  <2>2. Base[l] \in Nat /\ Base[o] \in Nat /\ Size \in Nat /\ Size > 0
    BY <1>2, <1>6, Apart
  <2> QED
    BY <2>1, <2>2
<1> QED
  BY <1>1, <1>2, <1>5, <1>7

\* The last object below an address that is not covered ends at or before it.
LEMMA LastBefore ==
  ASSUME NEW A, Placed(A), NEW a \in Nat, ~ Covered(A, a), Below(A, a) # {}
  PROVE  a >= Base[LastOf(Below(A, a))] + Size
<1>1. PICK S : S = Below(A, a)
  OBVIOUS
<1>2. S \subseteq A /\ S # {} /\ \A y \in S : Base[y] <= a /\ Base[y] \in Nat /\ Size \in Nat
  BY <1>1, Apart DEF Below
<1>3. PICK T : T = {a - Base[y] : y \in S}
  OBVIOUS
<1>4. T \in SUBSET Nat /\ T # {}
  BY <1>2, <1>3
<1>5. PICK n \in T : \A m \in T : n <= m
  BY <1>4, LeastOf
<1>6. PICK x \in S : n = a - Base[x]
  BY <1>3, <1>5
<1>7. \A y \in S : Base[y] <= Base[x]
  <2> SUFFICES ASSUME NEW y \in S PROVE Base[y] <= Base[x]
    OBVIOUS
  <2>1. n <= a - Base[y]
    BY <1>3, <1>5
  <2>2. Base[x] \in Nat /\ Base[y] \in Nat
    BY <1>2
  <2> QED
    BY <1>6, <2>1, <2>2
<1>8. PICK l : l = LastOf(S)
  OBVIOUS
<1>9. l \in S
  BY <1>7, <1>8 DEF LastOf
<1>10. l \in A /\ Base[l] <= a /\ Base[l] \in Nat /\ Size \in Nat
  BY <1>2, <1>9
<1>11. ~ (a < Base[l] + Size)
  BY <1>10 DEF Covered
<1> QED
  BY <1>1, <1>8, <1>10, <1>11

\* The piece of object o from a, in a region.
PieceAt(r, o, a) ==
  <<o, <<(IF a > Base[o] THEN a ELSE Base[o]) - Base[o], Min({r[2], Base[o] + Size}) - Base[o]>>>>

\* The objects of a region from a on that no gap is in front of.
Met(A, r, a) ==
  {o \in A : /\ Base[o] < r[2] /\ a < Base[o] + Size
             /\ Covered(A, a)
             /\ \A c \in a .. Base[o] : Covered(A, c)}

PiecesAt(A, r, a) == IF a >= r[2] THEN {} ELSE {PieceAt(r, o, a) : o \in Met(A, r, a)}

\* From an address in object o the loop meets o and what it meets from its end.
LEMMA MetNext ==
  ASSUME NEW A, Placed(A), NEW r \in ByteRange, NEW a \in Nat, a < r[2],
         NEW o \in A, Base[o] <= a, a < Base[o] + Size, NEW e, e = Base[o] + Size
  PROVE  PiecesAt(A, r, a) = {PieceAt(r, o, a)} \cup PiecesAt(A, r, e)
<1>1. r[2] \in Nat /\ Base[o] \in Nat /\ Size \in Nat /\ Size > 0 /\ e \in Nat
  BY RangeIs, Apart
<1>2. \A q \in A : q # o => Base[q] \in Nat /\ (Base[q] + Size <= Base[o] \/ e <= Base[q])
  BY Apart
<1>3. \A c \in a .. e - 1 : Covered(A, c)
  BY <1>1 DEF Covered
<1>4. o \in Met(A, r, a)
  BY <1>1, <1>3 DEF Met
<1>5. ASSUME NEW q \in Met(A, r, a), q # o
      PROVE  e < r[2] /\ q \in Met(A, r, e) /\ PieceAt(r, q, a) = PieceAt(r, q, e)
  <2>1. q \in A /\ Base[q] < r[2] /\ a < Base[q] + Size /\ \A c \in a .. Base[q] : Covered(A, c)
    BY DEF Met
  <2>2. Base[q] \in Nat /\ e <= Base[q]
    BY <1>1, <1>2, <1>5, <2>1
  <2>3. Covered(A, e) /\ \A c \in e .. Base[q] : Covered(A, c)
    BY <1>1, <2>1, <2>2
  <2>4. q \in Met(A, r, e)
    BY <1>1, <2>1, <2>2, <2>3 DEF Met
  <2>5. PieceAt(r, q, a) = PieceAt(r, q, e)
    BY <1>1, <2>2 DEF PieceAt
  <2> QED
    BY <1>1, <2>1, <2>2, <2>4, <2>5
<1>6. ASSUME NEW q \in Met(A, r, e), e < r[2]
      PROVE  q \in Met(A, r, a) /\ PieceAt(r, q, a) = PieceAt(r, q, e)
  <2>1. q \in A /\ Base[q] < r[2] /\ e < Base[q] + Size /\ \A c \in e .. Base[q] : Covered(A, c)
    BY DEF Met
  <2>2. q # o /\ Base[q] \in Nat /\ e <= Base[q]
    BY <1>1, <1>2, <2>1
  <2>3. \A c \in a .. Base[q] : Covered(A, c)
    <3> SUFFICES ASSUME NEW c \in a .. Base[q] PROVE Covered(A, c)
      OBVIOUS
    <3>1. CASE c < e
      BY <1>1, <1>3, <2>2, <3>1
    <3>2. CASE c >= e
      BY <1>1, <2>1, <2>2, <3>2
    <3> QED
      BY <1>1, <2>2, <3>1, <3>2
  <2>4. q \in Met(A, r, a)
    BY <1>1, <1>3, <2>1, <2>2, <2>3 DEF Met
  <2>5. PieceAt(r, q, a) = PieceAt(r, q, e)
    BY <1>1, <2>2 DEF PieceAt
  <2> QED
    BY <2>4, <2>5
<1>7. PiecesAt(A, r, a) = {PieceAt(r, q, a) : q \in Met(A, r, a)}
  BY <1>1 DEF PiecesAt
<1>8. CASE e >= r[2]
  <2>1. PiecesAt(A, r, e) = {}
    BY <1>8 DEF PiecesAt
  <2>2. \A q \in Met(A, r, a) : q = o
    BY <1>1, <1>5, <1>8
  <2> QED
    BY <1>4, <1>7, <2>1, <2>2
<1>9. CASE e < r[2]
  <2>1. PiecesAt(A, r, e) = {PieceAt(r, q, e) : q \in Met(A, r, e)}
    BY <1>1, <1>9 DEF PiecesAt
  <2> QED
    BY <1>4, <1>5, <1>6, <1>7, <1>9, <2>1
<1> QED
  BY <1>1, <1>8, <1>9

\* A turn of the loop, from a function that has the pieces behind a.
LEMMA StepIsPieces ==
  ASSUME NEW A, Placed(A), NEW r \in ByteRange, NEW a \in Nat, NEW g,
         \A e \in Nat : e > a => g[e] = PiecesAt(A, r, e)
  PROVE  PieceStep(g, A, r, a) = PiecesAt(A, r, a)
<1>1. r[2] \in Nat
  BY RangeIs
<1>2. CASE a >= r[2]
  BY <1>2 DEF PieceStep, PiecesAt
<1>3. CASE a < r[2] /\ ~ Covered(A, a)
  <2>1. Met(A, r, a) = {}
    BY <1>3 DEF Met
  <2>2. PiecesAt(A, r, a) = {}
    BY <1>1, <1>3, <2>1 DEF PiecesAt
  <2>3. CASE Below(A, a) = {}
    BY <2>2, <2>3 DEF PieceStep
  <2>4. CASE Below(A, a) # {}
    <3>1. a >= Base[LastOf(Below(A, a))] + Size
      BY <1>3, <2>4, LastBefore
    <3> QED
      BY <2>2, <3>1 DEF PieceStep
  <2> QED
    BY <2>3, <2>4
<1>4. CASE a < r[2] /\ Covered(A, a)
  <2>1. PICK o \in A : Base[o] <= a /\ a < Base[o] + Size
    BY <1>4 DEF Covered
  <2>2. Below(A, a) # {} /\ LastOf(Below(A, a)) = o
    BY <2>1, LastCovers
  <2>3. Base[o] \in Nat /\ Size \in Nat /\ Size > 0
    BY Apart
  <2>4. PICK e : e = Base[o] + Size
    OBVIOUS
  <2>5. e \in Nat /\ e > a /\ ~ (a >= e) /\ ~ (a >= r[2])
    BY <1>1, <1>4, <2>1, <2>3, <2>4
  <2>6. PieceStep(g, A, r, a) = {<<o, <<a - Base[o], Min({r[2], e}) - Base[o]>>>>} \cup g[e]
    BY <2>2, <2>4, <2>5, Zenon DEF PieceStep
  <2>7. PieceAt(r, o, a) = <<o, <<a - Base[o], Min({r[2], e}) - Base[o]>>>>
    <3>1. (IF a > Base[o] THEN a ELSE Base[o]) = a
      BY <2>1, <2>3
    <3> QED
      BY <2>4, <3>1, Zenon DEF PieceAt
  <2>8. PiecesAt(A, r, a) = {PieceAt(r, o, a)} \cup PiecesAt(A, r, e)
    BY <1>4, <2>1, <2>4, MetNext
  <2>9. g[e] = PiecesAt(A, r, e)
    BY <2>5
  <2> QED
    BY <2>6, <2>7, <2>8, <2>9
<1> QED
  BY <1>1, <1>2, <1>3, <1>4

\* The loop computes the pieces.
LEMMA LoopExists ==
  ASSUME NEW A, Placed(A), NEW r \in ByteRange
  PROVE  \E g : Loop(g, A, r)
<1>1. PICK g : g = [a \in Nat |-> PiecesAt(A, r, a)]
  OBVIOUS
<1>2. ASSUME NEW a \in Nat PROVE PiecesAt(A, r, a) = PieceStep(g, A, r, a)
  <2>1. \A e \in Nat : e > a => g[e] = PiecesAt(A, r, e)
    BY <1>1
  <2> QED
    BY <2>1, StepIsPieces
<1>3. Loop(g, A, r)
  BY <1>1, <1>2 DEF Loop
<1> QED
  BY <1>3

\* Whatever function the loop computes, it returns the pieces.
LEMMA LoopFinds ==
  ASSUME NEW A, Placed(A), NEW r \in ByteRange, NEW g, Loop(g, A, r), NEW a \in Nat
  PROVE  g[a] = PiecesAt(A, r, a)
<1>1. r[2] \in Nat
  BY RangeIs
<1>2. \A b \in Nat : g[b] = PieceStep(g, A, r, b)
  BY Zenon DEF Loop
<1>3. \A b \in Nat : b >= r[2] => g[b] = PiecesAt(A, r, b)
  BY <1>2 DEF PieceStep, PiecesAt
<1>4. PICK T : T = {n \in Nat : \E b \in Nat : b + n = r[2] /\ g[b] # PiecesAt(A, r, b)}
  OBVIOUS
<1>5. T = {}
  <2>1. SUFFICES ASSUME T # {} PROVE FALSE
    OBVIOUS
  <2>2. T \in SUBSET Nat
    BY <1>4
  <2>3. PICK n \in T : \A m \in T : n <= m
    BY <2>1, <2>2, LeastOf
  <2>4. PICK b \in Nat : b + n = r[2] /\ g[b] # PiecesAt(A, r, b)
    BY <1>4, <2>3
  <2>5. ASSUME NEW e \in Nat, e > b PROVE g[e] = PiecesAt(A, r, e)
    <3>1. CASE e >= r[2]
      BY <1>3, <3>1
    <3>2. CASE e < r[2]
      <4>1. n \in Nat
        BY <2>2, <2>3
      <4>2. r[2] - e \in Nat /\ e + (r[2] - e) = r[2] /\ r[2] - e < n
        BY <1>1, <2>4, <2>5, <3>2, <4>1
      <4>3. r[2] - e \notin T
        BY <2>3, <4>1, <4>2
      <4> QED
        BY <1>4, <4>2, <4>3
    <3> QED
      BY <1>1, <3>1, <3>2
  <2>6. PieceStep(g, A, r, b) = PiecesAt(A, r, b)
    BY <2>5, StepIsPieces
  <2> QED
    BY <1>2, <2>4, <2>6
<1>6. CASE a < r[2]
  <2>1. r[2] - a \in Nat /\ a + (r[2] - a) = r[2]
    BY <1>1, <1>6
  <2> QED
    BY <1>4, <1>5, <2>1
<1> QED
  BY <1>1, <1>3, <1>6

\* The objects of A that a region lies in.
Touching(A, r) == {o \in A : Base[o] < r[2] /\ r[1] < Base[o] + Size}

\* The pieces of a region that objects cover, one for every object it lies in.
LEMMA PiecesAre ==
  ASSUME NEW r \in ByteRange, Placed(Allocated), Accessible(r)
  PROVE  Pieces(r) = {PieceAt(r, o, r[1]) : o \in Touching(Allocated, r)}
<1>1. PICK A : A = Allocated
  OBVIOUS
<1>2. r[1] \in Nat /\ r[2] \in Nat /\ r[1] < r[2]
  BY RangeIs
<1>3. PICK g : g = CHOOSE h : Loop(h, A, r)
  OBVIOUS
<1>4. Loop(g, A, r)
  BY <1>1, <1>3, LoopExists
<1>5. Pieces(r) = g[r[1]]
  BY <1>1, <1>3, PiecesIs
<1>6. Pieces(r) = PiecesAt(A, r, r[1])
  BY <1>1, <1>2, <1>4, <1>5, LoopFinds
<1>7. \A c \in r[1] .. r[2] - 1 : Covered(A, c)
  <2> SUFFICES ASSUME NEW c \in r[1] .. r[2] - 1 PROVE Covered(A, c)
    OBVIOUS
  <2>1. PICK x \in BytesIn(r) : Base[x[1]] + x[2] = c
    BY DEF Accessible, Span
  <2>2. x[1] \in A /\ x[2] \in 0 .. Size - 1
    BY <1>1 DEF BytesIn, Bytes
  <2>3. Base[x[1]] \in Nat /\ Size \in Nat
    BY <1>1, <2>2, Apart
  <2>4. Base[x[1]] <= c /\ c < Base[x[1]] + Size
    BY <1>2, <2>1, <2>2, <2>3
  <2> QED
    BY <2>2, <2>4 DEF Covered
<1>8. Met(A, r, r[1]) = Touching(A, r)
  <2>1. ASSUME NEW o \in A, Base[o] < r[2] PROVE Covered(A, r[1]) /\ \A c \in r[1] .. Base[o] : Covered(A, c)
    <3>1. Base[o] \in Nat
      BY <1>1, Apart
    <3> QED
      BY <1>2, <1>7, <2>1, <3>1
  <2> QED
    BY <2>1 DEF Met, Touching
<1> QED
  BY <1>1, <1>2, <1>6, <1>8 DEF PiecesAt

\* The bytes of a piece are the bytes of the object in the region.
LEMMA PieceBytes ==
  ASSUME NEW A, Placed(A), NEW r \in ByteRange, NEW o \in Touching(A, r)
  PROVE  /\ PieceAt(r, o, r[1])[1] = o
         /\ PieceAt(r, o, r[1])[2] \in ByteRange
         /\ Span(PieceAt(r, o, r[1])[2]) = {b \in Bytes : Base[o] + b \in Span(r)}
<1>1. r[1] \in Nat /\ r[2] \in Nat /\ r[1] < r[2]
  BY RangeIs
<1>2. o \in A /\ Base[o] < r[2] /\ r[1] < Base[o] + Size
  BY DEF Touching
<1>3. Base[o] \in Nat /\ Size \in Nat /\ Size > 0
  BY <1>2, Apart
<1>4. PICK m : m = Min({r[2], Base[o] + Size})
  OBVIOUS
<1>5. m = IF r[2] <= Base[o] + Size THEN r[2] ELSE Base[o] + Size
  BY <1>1, <1>3, <1>4, MinOf
<1>6. PICK s : s = IF r[1] > Base[o] THEN r[1] ELSE Base[o]
  OBVIOUS
<1>7. PICK p : p = <<s - Base[o], m - Base[o]>>
  OBVIOUS
<1>8. PieceAt(r, o, r[1]) = <<o, p>>
  BY <1>4, <1>6, <1>7, Zenon DEF PieceAt
<1>9. p[1] = s - Base[o] /\ p[2] = m - Base[o] /\ s - Base[o] \in Nat /\ m - Base[o] \in Nat /\ s < m
  BY <1>1, <1>2, <1>3, <1>5, <1>6, <1>7
<1>10. p \in ByteRange
  BY <1>1, <1>3, <1>5, <1>6, <1>7, <1>9 DEF ByteRange
<1>11. Span(p) = {b \in Bytes : Base[o] + b \in Span(r)}
  <2>1. ASSUME NEW b PROVE b \in Span(p) <=> b \in Bytes /\ Base[o] + b \in Span(r)
    <3>1. b \in Span(p) <=> b \in Nat /\ s - Base[o] <= b /\ b < m - Base[o]
      BY <1>9, <1>10, InRange
    <3>2. b \in Bytes <=> b \in Nat /\ b < Size
      BY <1>3 DEF Bytes
    <3>3. b \in Nat => (Base[o] + b \in Span(r) <=> r[1] <= Base[o] + b /\ Base[o] + b < r[2])
      BY <1>1, <1>3 DEF Span
    <3>4. b \in Nat => (s - Base[o] <= b /\ b < m - Base[o]
                          <=> b < Size /\ r[1] <= Base[o] + b /\ Base[o] + b < r[2])
      BY <1>1, <1>3, <1>5, <1>6
    <3> QED
      BY <3>1, <3>2, <3>3, <3>4
  <2> QED
    BY <2>1
<1> QED
  BY <1>8, <1>10, <1>11
-----------------------------------------------------------------------------
(* DataFlow: the ranges of a kernel *)

SomePiece(s) == CHOOSE x \in s : TRUE

\* One step of the recursion behind Merged.
FoldStep(g, m, s) == IF s = {} THEN m ELSE merge_memory_range(g[s \ {SomePiece(s)}], SomePiece(s)[2])
FoldOf(g, m, S) == g = [s \in SUBSET S |-> FoldStep(g, m, s)]

\* The fold of Merged is that recursion.
LEMMA FoldIs ==
  ASSUME NEW m, NEW S
  PROVE  FoldSet(LAMBDA p, x : merge_memory_range(x, p[2]), m, S) = (CHOOSE g : FoldOf(g, m, S))[S]
  BY Zenon DEF FoldSet, MapThenFoldSet, FoldOf, FoldStep, SomePiece

\* With no piece of an object its ranges stay.
LEMMA FoldNone ==
  ASSUME NEW m
  PROVE  FoldSet(LAMBDA p, x : merge_memory_range(x, p[2]), m, {}) = m
<1>1. PICK g : g = [s \in SUBSET {} |-> m]
  OBVIOUS
<1>2. \A s \in SUBSET {} : FoldStep(g, m, s) = m
  BY DEF FoldStep
<1>3. FoldOf(g, m, {})
  BY <1>1, <1>2 DEF FoldOf
<1>4. PICK h : h = CHOOSE f : FoldOf(f, m, {})
  OBVIOUS
<1>5. FoldOf(h, m, {})
  BY <1>3, <1>4
<1>6. h[{}] = FoldStep(h, m, {})
  BY <1>5 DEF FoldOf
<1>7. h[{}] = m
  BY <1>6 DEF FoldStep
<1> QED
  BY <1>4, <1>7, FoldIs

\* With one piece it is merged into them.
LEMMA FoldOne ==
  ASSUME NEW m, NEW p
  PROVE  FoldSet(LAMBDA q, x : merge_memory_range(x, q[2]), m, {p}) = merge_memory_range(m, p[2])
<1>1. PICK g : g = [s \in SUBSET {p} |-> IF s = {} THEN m ELSE merge_memory_range(m, p[2])]
  OBVIOUS
<1>2. SomePiece({p}) = p
  BY DEF SomePiece
<1>3. ASSUME NEW s \in SUBSET {p} PROVE g[s] = FoldStep(g, m, s)
  <2>1. CASE s = {}
    BY <1>1, <2>1 DEF FoldStep
  <2>2. CASE s = {p}
    <3>1. s \ {SomePiece(s)} = {} /\ {} \in SUBSET {p} /\ SomePiece(s) = p
      BY <1>2, <2>2
    <3>2. g[{}] = m
      BY <1>1, <3>1
    <3>3. s # {}
      BY <2>2
    <3>4. FoldStep(g, m, s) = merge_memory_range(m, p[2])
      BY <3>1, <3>2, <3>3 DEF FoldStep
    <3> QED
      BY <1>1, <3>3, <3>4
  <2>3. s = {} \/ s = {p}
    OBVIOUS
  <2> QED
    BY <2>1, <2>2, <2>3
<1>4. FoldOf(g, m, {p})
  <2>1. g = [s \in SUBSET {p} |-> g[s]]
    BY <1>1
  <2> QED
    BY <1>3, <2>1, Zenon DEF FoldOf
<1>5. PICK h : h = CHOOSE f : FoldOf(f, m, {p})
  OBVIOUS
<1>6. FoldOf(h, m, {p})
  BY <1>4, <1>5
<1>7. \A s \in SUBSET {p} : h[s] = FoldStep(h, m, s)
  BY <1>6 DEF FoldOf
<1>8. h[{}] = m
  <2>1. {} \in SUBSET {p}
    OBVIOUS
  <2> QED
    BY <1>7, <2>1 DEF FoldStep
<1>9. h[{p}] = merge_memory_range(m, p[2])
  <2>1. {p} \in SUBSET {p} /\ {p} # {} /\ {p} \ {SomePiece({p})} = {}
    BY <1>2
  <2>2. h[{p}] = FoldStep(h, m, {p})
    BY <1>7, <2>1
  <2> QED
    BY <1>2, <1>8, <2>1, <2>2 DEF FoldStep
<1> QED
  BY <1>5, <1>9, FoldIs

\* The bytes of object o in a region.
BytesOf(o, r) == {b \in Bytes : <<o, b>> \in BytesIn(r)}

\* An object that is not allocated has no bytes in a region.
LEMMA BytesOfIs ==
  ASSUME NEW o, NEW r
  PROVE  BytesOf(o, r) = IF o \in Allocated THEN {b \in Bytes : Base[o] + b \in Span(r)} ELSE {}
  BY DEF BytesOf, BytesIn

\* An object has bytes in a region exactly when the region lies in it.
LEMMA TouchingHasBytes ==
  ASSUME NEW r \in ByteRange, Placed(Allocated), NEW o
  PROVE  o \in Touching(Allocated, r) <=> BytesOf(o, r) # {}
<1>1. r[1] \in Nat /\ r[2] \in Nat /\ r[1] < r[2]
  BY RangeIs
<1>2. CASE o \in Touching(Allocated, r)
  <2>1. PICK p : p = PieceAt(r, o, r[1])[2]
    OBVIOUS
  <2>2. p \in ByteRange /\ Span(p) = {b \in Bytes : Base[o] + b \in Span(r)}
    BY <1>2, <2>1, PieceBytes
  <2>3. p[1] \in Span(p)
    BY <2>2, RangeIs, InRange
  <2>4. o \in Allocated
    BY <1>2 DEF Touching
  <2> QED
    BY <1>2, <2>2, <2>3, <2>4, BytesOfIs
<1>3. ASSUME NEW b \in BytesOf(o, r) PROVE o \in Touching(Allocated, r)
  <2>1. o \in Allocated /\ b \in Bytes /\ Base[o] + b \in Span(r)
    BY <1>3, BytesOfIs
  <2>2. Base[o] \in Nat /\ Size \in Nat
    BY <2>1, Apart
  <2>3. b \in Nat /\ b < Size
    BY <2>1, <2>2 DEF Bytes
  <2>4. r[1] <= Base[o] + b /\ Base[o] + b < r[2]
    BY <1>1, <2>1, <2>2, <2>3 DEF Span
  <2>5. Base[o] < r[2] /\ r[1] < Base[o] + Size
    BY <1>1, <2>2, <2>3, <2>4
  <2> QED
    BY <2>1, <2>5 DEF Touching
<1> QED
  BY <1>2, <1>3

PiecesOf(r, o) == {p \in Pieces(r) : p[1] = o}

\* An object has at most one piece of a region, with its bytes in it.
LEMMA PiecesOfObject ==
  ASSUME NEW r \in ByteRange, Placed(Allocated), Accessible(r), NEW o
  PROVE  \/ PiecesOf(r, o) = {} /\ BytesOf(o, r) = {}
         \/ \E p : PiecesOf(r, o) = {p} /\ p[2] \in ByteRange /\ Span(p[2]) = BytesOf(o, r) /\ BytesOf(o, r) # {}
<1>1. PICK A : A = Allocated
  OBVIOUS
<1>2. Placed(A)
  BY <1>1
<1>3. Pieces(r) = {PieceAt(r, q, r[1]) : q \in Touching(A, r)}
  BY <1>1, PiecesAre
<1>4. \A q \in Touching(A, r) : PieceAt(r, q, r[1])[1] = q
  BY <1>2, PieceBytes
<1>5. CASE o \notin Touching(A, r)
  <2>1. PiecesOf(r, o) = {}
    BY <1>3, <1>4, <1>5 DEF PiecesOf
  <2>2. BytesOf(o, r) = {}
    BY <1>1, <1>5, TouchingHasBytes
  <2> QED
    BY <2>1, <2>2
<1>6. CASE o \in Touching(A, r)
  <2>1. PICK p : p = PieceAt(r, o, r[1])
    OBVIOUS
  <2>2. PiecesOf(r, o) = {p}
    BY <1>3, <1>4, <1>6, <2>1 DEF PiecesOf
  <2>3. p[2] \in ByteRange /\ Span(p[2]) = {b \in Bytes : Base[o] + b \in Span(r)}
    BY <1>2, <1>6, <2>1, PieceBytes
  <2>4. BytesOf(o, r) # {}
    BY <1>1, <1>6, TouchingHasBytes
  <2>5. o \in Allocated
    BY <1>1, <1>6 DEF Touching
  <2>6. BytesOf(o, r) = Span(p[2])
    BY <2>3, <2>5, BytesOfIs
  <2> QED
    BY <2>2, <2>3, <2>4, <2>6
<1> QED
  BY <1>5, <1>6

\* Merged adds the bytes of every object in the region to its ranges.
LEMMA MergedExact ==
  ASSUME NEW f, NEW r \in ByteRange, Placed(Allocated), Accessible(r), NEW o \in Objects, Starts(f[o])
  PROVE  Starts(Merged(f, r)[o]) /\ SpanOf(Merged(f, r)[o]) = SpanOf(f[o]) \cup BytesOf(o, r)
<1>1. PICK m : m = f[o]
  OBVIOUS
<1>2. PICK S : S = PiecesOf(r, o)
  OBVIOUS
<1>3. Merged(f, r)[o] = FoldSet(LAMBDA p, x : merge_memory_range(x, p[2]), m, S)
  BY <1>1, <1>2 DEF Merged, PiecesOf
<1>4. CASE S = {} /\ BytesOf(o, r) = {}
  <2>1. Merged(f, r)[o] = m
    BY <1>3, <1>4, FoldNone
  <2> QED
    BY <1>1, <1>4, <2>1
<1>5. ASSUME NEW p, S = {p}, p[2] \in ByteRange, Span(p[2]) = BytesOf(o, r)
      PROVE  Starts(Merged(f, r)[o]) /\ SpanOf(Merged(f, r)[o]) = SpanOf(f[o]) \cup BytesOf(o, r)
  <2>1. Merged(f, r)[o] = merge_memory_range(m, p[2])
    BY <1>3, <1>5, FoldOne
  <2> QED
    BY <1>1, <1>5, <2>1, MergeExact
<1> QED
  BY <1>2, <1>4, <1>5, PiecesOfObject
-----------------------------------------------------------------------------
(* DataFlow: the inductive invariant *)

\* The bytes of object o in a set of accesses.
Hit(s, o) == {x[2] : x \in {y \in s : y[1] = o}}

\* Within a kernel: ranges that are not empty stand for exactly the bytes accessed.
Tracing ==
  /\ trace \in [n : Nat, read : [Objects -> SUBSET ByteRange], write : [Objects -> SUBSET ByteRange]]
  /\ touched = [read |-> touched.read, write |-> touched.write, before |-> touched.before]
  /\ touched.read \subseteq Allocated \X Bytes
  /\ touched.write \subseteq Allocated \X Bytes
  /\ \A o \in Objects :
       /\ Starts(trace.write[o]) /\ Starts(trace.read[o])
       /\ SpanOf(trace.write[o]) = Hit(touched.write, o)
       /\ ~ReadTraceIgnore => SpanOf(trace.read[o]) = Hit(touched.read, o)
       /\ trace.read[o] = {} <=> Hit(touched.read, o) = {}

Ranges == Placed(Allocated) /\ (trace # NoTrace => Tracing)

\* Leads, with the edges and the context of the object as parameters.
LeadsIn(D, m, from, to) ==
  \A S \in SUBSET (Ctxs \cup {Host}) :
    (\A e \in D : (e[3] = m /\ e[4] # "SINK" /\ e[1] \in S \cup {from}) => e[2] \in S) => to \in S

\* The last writer of a byte is the context its object points to, or leads there.
Known(D, m, from, to) == from = to \/ LeadsIn(D, m, from, to)

Graph ==
  /\ op_node \in [Allocated -> Ctxs]
  /\ mem_ctx \in [Allocated -> Ctxs]
  /\ writer \in [Allocated -> [Bytes -> Ctxs]]
  /\ flows \subseteq Ctxs \X Ctxs \X Allocated
  /\ \A o \in Allocated, b \in Bytes : Known(DOMAIN edges, mem_ctx[o], writer[o][b], op_node[o])
  /\ \A x \in flows : LeadsIn(DOMAIN edges, mem_ctx[x[3]], x[1], x[2])

FlowInv == Ranges /\ Graph

\* Bytes that are not in a set of accesses are not hit.
LEMMA HitIs ==
  ASSUME NEW A, NEW s, s \subseteq A \X Bytes, NEW o
  PROVE  /\ Hit(s, o) = {b \in Bytes : <<o, b>> \in s}
         /\ Hit(s, o) = {} <=> {y \in s : y[1] = o} = {}
<1>1. \A y \in s : y = <<y[1], y[2]>> /\ y[2] \in Bytes
  OBVIOUS
<1>2. \A b : <<o, b>>[1] = o /\ <<o, b>>[2] = b
  OBVIOUS
<1> QED
  BY <1>1, <1>2 DEF Hit

\* A region adds its bytes to the ones accessed.
LEMMA HitMore ==
  ASSUME NEW s, s \subseteq Allocated \X Bytes, NEW r, NEW o
  PROVE  /\ s \cup BytesIn(r) \subseteq Allocated \X Bytes
         /\ Hit(s \cup BytesIn(r), o) = Hit(s, o) \cup BytesOf(o, r)
<1>1. BytesIn(r) \subseteq Allocated \X Bytes
  BY DEF BytesIn
<1>2. PICK A, t : A = Allocated /\ t = BytesIn(r)
  OBVIOUS
<1>3. s \cup t \subseteq A \X Bytes /\ s \subseteq A \X Bytes
  BY <1>1, <1>2
<1>4. Hit(s \cup t, o) = {b \in Bytes : <<o, b>> \in s \cup t}
  BY <1>3, HitIs
<1>5. Hit(s, o) = {b \in Bytes : <<o, b>> \in s}
  BY <1>3, HitIs
<1>6. BytesOf(o, r) = {b \in Bytes : <<o, b>> \in t}
  BY <1>2 DEF BytesOf
<1> QED
  BY <1>2, <1>3, <1>4, <1>5, <1>6

\* Ranges that are not empty hold a byte.
LEMMA SpanOfNone ==
  ASSUME NEW M, Starts(M)
  PROVE  M = {} <=> SpanOf(M) = {}
<1>1. ASSUME NEW x \in M PROVE x[1] \in SpanOf(M)
  <2>1. x \in ByteRange
    BY DEF Starts
  <2>2. x[1] \in Span(x)
    BY <2>1, RangeIs, InRange
  <2> QED
    BY <2>2 DEF SpanOf
<1>2. M = {} => SpanOf(M) = {}
  BY DEF SpanOf
<1> QED
  BY <1>1, <1>2

\* What the trace and the accesses of the kernel say of each other, with them as parameters.
Exact(rd, wr, hitR, hitW, o) ==
  /\ Starts(wr[o]) /\ Starts(rd[o])
  /\ SpanOf(wr[o]) = Hit(hitW, o)
  /\ ~ReadTraceIgnore => SpanOf(rd[o]) = Hit(hitR, o)
  /\ rd[o] = {} <=> Hit(hitR, o) = {}

TraceOf(t, u) ==
  /\ t \in [n : Nat, read : [Objects -> SUBSET ByteRange], write : [Objects -> SUBSET ByteRange]]
  /\ u = [read |-> u.read, write |-> u.write, before |-> u.before]
  /\ u.read \subseteq Allocated \X Bytes
  /\ u.write \subseteq Allocated \X Bytes
  /\ \A o \in Objects : Exact(t.read, t.write, u.read, u.write, o)

\* Tracing is that, for the state.
LEMMA TracingIs == Tracing <=> TraceOf(trace, touched)
  BY Zenon DEF Tracing, TraceOf, Exact

\* A write extends the ranges as it extends the bytes written.
LEMMA WriteExact ==
  ASSUME NEW t, NEW u, TraceOf(t, u), Placed(Allocated), NEW r \in ByteRange, Accessible(r),
         NEW t2, t2 = [t EXCEPT !.n = @ + 1, !.write = Merged(@, r)],
         NEW u2, u2 = [u EXCEPT !.write = @ \cup BytesIn(r)]
  PROVE  TraceOf(t2, u2)
<1>1. PICK W : W = Merged(t.write, r)
  OBVIOUS
<1>2. t \in [n : Nat, read : [Objects -> SUBSET ByteRange], write : [Objects -> SUBSET ByteRange]]
  BY DEF TraceOf
<1>3. t2 = [n |-> t.n + 1, read |-> t.read, write |-> W] /\ t2.read = t.read /\ t2.write = W
  BY <1>1, <1>2
<1>4. u = [read |-> u.read, write |-> u.write, before |-> u.before]
  BY DEF TraceOf
<1>5. PICK B : B = u.write \cup BytesIn(r)
  OBVIOUS
<1>6. u2 = [read |-> u.read, write |-> B, before |-> u.before]
  BY <1>4, <1>5
<1>7. u2.read = u.read /\ u2.write = B /\ u2.before = u.before
  BY <1>6
<1>8. u.read \subseteq Allocated \X Bytes /\ u.write \subseteq Allocated \X Bytes
  BY DEF TraceOf
<1>9. B \subseteq Allocated \X Bytes
  BY <1>5, <1>8, HitMore
<1>10. ASSUME NEW o \in Objects PROVE Exact(t.read, W, u.read, B, o)
  <2>1. Exact(t.read, t.write, u.read, u.write, o)
    BY DEF TraceOf
  <2>2. Starts(t.write[o]) /\ SpanOf(t.write[o]) = Hit(u.write, o)
    BY <2>1 DEF Exact
  <2>3. Starts(W[o]) /\ SpanOf(W[o]) = SpanOf(t.write[o]) \cup BytesOf(o, r)
    BY <1>1, <2>2, MergedExact
  <2>4. Hit(B, o) = Hit(u.write, o) \cup BytesOf(o, r)
    BY <1>5, <1>8, HitMore
  <2> QED
    BY <2>1, <2>2, <2>3, <2>4, Zenon DEF Exact
<1>11. W \in [Objects -> SUBSET ByteRange]
  <2>1. \A o \in Objects : W[o] \subseteq ByteRange
    BY <1>10 DEF Exact, Starts
  <2>2. W = [o \in Objects |-> W[o]]
    BY <1>1, Zenon DEF Merged
  <2> QED
    BY <2>1, <2>2
<1>12. t2 \in [n : Nat, read : [Objects -> SUBSET ByteRange], write : [Objects -> SUBSET ByteRange]]
  BY <1>2, <1>3, <1>11
<1> QED
  BY <1>3, <1>6, <1>7, <1>8, <1>9, <1>10, <1>12, Zenon DEF TraceOf

\* The ranges of the reads after a read.
ReadRanges(f, r) ==
  IF ~ReadTraceIgnore THEN Merged(f, r)
  ELSE [o \in Objects |-> IF f[o] = {} THEN {p[2] : p \in {q \in Pieces(r) : q[1] = o}} ELSE f[o]]

\* A read extends them as it extends the bytes read, or keeps one for the object.
LEMMA ReadExact ==
  ASSUME NEW t, NEW u, TraceOf(t, u), Placed(Allocated), NEW r \in ByteRange, Accessible(r),
         NEW t2, t2 = [t EXCEPT !.n = @ + 1, !.read = ReadRanges(@, r)],
         NEW u2, u2 = [u EXCEPT !.read = @ \cup BytesIn(r)]
  PROVE  TraceOf(t2, u2)
<1>1. PICK R : R = ReadRanges(t.read, r)
  OBVIOUS
<1>2. t \in [n : Nat, read : [Objects -> SUBSET ByteRange], write : [Objects -> SUBSET ByteRange]]
  BY DEF TraceOf
<1>3. t2 = [n |-> t.n + 1, read |-> R, write |-> t.write] /\ t2.read = R /\ t2.write = t.write
  BY <1>1, <1>2
<1>4. u = [read |-> u.read, write |-> u.write, before |-> u.before]
  BY DEF TraceOf
<1>5. PICK B : B = u.read \cup BytesIn(r)
  OBVIOUS
<1>6. u2 = [read |-> B, write |-> u.write, before |-> u.before]
  BY <1>4, <1>5
<1>7. u2.read = B /\ u2.write = u.write /\ u2.before = u.before
  BY <1>6
<1>8. u.read \subseteq Allocated \X Bytes /\ u.write \subseteq Allocated \X Bytes
  BY DEF TraceOf
<1>9. B \subseteq Allocated \X Bytes
  BY <1>5, <1>8, HitMore
<1>10. ASSUME NEW o \in Objects PROVE Exact(R, t.write, B, u.write, o)
  <2>1. Exact(t.read, t.write, u.read, u.write, o)
    BY DEF TraceOf
  <2>2. Starts(t.read[o]) /\ (t.read[o] = {} <=> Hit(u.read, o) = {})
    BY <2>1, Zenon DEF Exact
  <2>3. Hit(B, o) = Hit(u.read, o) \cup BytesOf(o, r)
    BY <1>5, <1>8, HitMore
  <2>4. CASE ~ReadTraceIgnore
    <3>1. R = Merged(t.read, r)
      BY <1>1, <2>4 DEF ReadRanges
    <3>2. Starts(R[o]) /\ SpanOf(R[o]) = SpanOf(t.read[o]) \cup BytesOf(o, r)
      BY <2>2, <3>1, MergedExact
    <3>3. SpanOf(t.read[o]) = Hit(u.read, o)
      BY <2>1, <2>4 DEF Exact
    <3>4. SpanOf(R[o]) = Hit(B, o)
      BY <2>3, <3>2, <3>3
    <3>5. R[o] = {} <=> Hit(B, o) = {}
      BY <3>2, <3>4, SpanOfNone
    <3> QED
      BY <2>1, <3>2, <3>4, <3>5, Zenon DEF Exact
  <2>5. CASE ReadTraceIgnore
    <3>1. R[o] = IF t.read[o] = {} THEN {p[2] : p \in PiecesOf(r, o)} ELSE t.read[o]
      BY <1>1, <2>5, Zenon DEF ReadRanges, PiecesOf
    <3>2. CASE t.read[o] # {}
      <4>1. R[o] = t.read[o]
        BY <3>1, <3>2
      <4>2. Starts(R[o]) /\ R[o] # {} /\ Hit(B, o) # {}
        BY <2>2, <2>3, <3>2, <4>1
      <4> QED
        BY <2>1, <2>5, <4>2, Zenon DEF Exact
    <3>3. CASE t.read[o] = {}
      <4>1. R[o] = {p[2] : p \in PiecesOf(r, o)} /\ Hit(B, o) = BytesOf(o, r)
        BY <2>2, <2>3, <3>1, <3>3
      <4>2. CASE PiecesOf(r, o) = {} /\ BytesOf(o, r) = {}
        <5>1. R[o] = {} /\ Hit(B, o) = {}
          BY <4>1, <4>2
        <5>2. Starts(R[o])
          BY <5>1 DEF Starts
        <5> QED
          BY <2>1, <2>5, <5>1, <5>2, Zenon DEF Exact
      <4>3. ASSUME NEW p, PiecesOf(r, o) = {p}, p[2] \in ByteRange, BytesOf(o, r) # {}
            PROVE  Exact(R, t.write, B, u.write, o)
        <5>1. R[o] = {p[2]} /\ R[o] # {} /\ Hit(B, o) # {}
          BY <4>1, <4>3
        <5>2. Starts(R[o])
          BY <4>3, <5>1 DEF Starts
        <5> QED
          BY <2>1, <2>5, <5>1, <5>2, Zenon DEF Exact
      <4> QED
        BY <4>2, <4>3, PiecesOfObject
    <3> QED
      BY <3>2, <3>3
  <2> QED
    BY <2>4, <2>5
<1>11. R \in [Objects -> SUBSET ByteRange]
  <2>1. \A o \in Objects : R[o] \subseteq ByteRange
    BY <1>10 DEF Exact, Starts
  <2>2. R = [o \in Objects |-> R[o]]
    BY <1>1, Zenon DEF Merged, ReadRanges
  <2> QED
    BY <2>1, <2>2
<1>12. t2 \in [n : Nat, read : [Objects -> SUBSET ByteRange], write : [Objects -> SUBSET ByteRange]]
  BY <1>2, <1>3, <1>11
<1> QED
  BY <1>3, <1>6, <1>7, <1>8, <1>9, <1>10, <1>12, Zenon DEF TraceOf

\* A kernel starts with no accesses and no ranges.
LEMMA BeginExact ==
  ASSUME NEW t, t = [n |-> 0, read |-> [o \in Objects |-> {}], write |-> [o \in Objects |-> {}]],
         NEW u, NEW d, u = [NoTouch EXCEPT !.before = d]
  PROVE  TraceOf(t, u)
<1>1. /\ t.read = [o \in Objects |-> {}] /\ t.write = [o \in Objects |-> {}]
      /\ t \in [n : Nat, read : [Objects -> SUBSET ByteRange], write : [Objects -> SUBSET ByteRange]]
  OBVIOUS
<1>2. u = [read |-> {}, write |-> {}, before |-> d] /\ u.read = {} /\ u.write = {} /\ u.before = d
  BY DEF NoTouch
<1>3. ASSUME NEW o \in Objects PROVE Exact(t.read, t.write, u.read, u.write, o)
  <2>1. t.read[o] = {} /\ t.write[o] = {}
    BY <1>1
  <2>2. Starts({}) /\ SpanOf({}) = {}
    BY DEF Starts, SpanOf
  <2>3. Hit({}, o) = {}
    BY DEF Hit
  <2> QED
    BY <1>2, <2>1, <2>2, <2>3 DEF Exact
<1> QED
  BY <1>1, <1>2, <1>3 DEF TraceOf

\* The objects allocated are the same after a step that keeps their nodes.
LEMMA SameObjects ==
  ASSUME Ranges, Allocated' = Allocated, trace' = NoTrace
  PROVE  Ranges'
  BY DEF Ranges, Placed

\* Every step keeps the ranges of the kernel exact.
LEMMA RangesStep ==
  ASSUME Ranges, [Next]_vars
  PROVE  Ranges'
<1>1. ASSUME NEW o \in Objects, NEW ctx \in Ctxs, Malloc(o, ctx) PROVE Ranges'
  <2>1. Allocated' = Allocated \cup {o} /\ trace = NoTrace /\ trace' = trace
    BY <1>1 DEF Malloc, Ready, Put, Allocated
  <2>2. Placed(Allocated)
    BY DEF Ranges
  <2>3. Placed(Allocated')
    BY <2>1, <2>2 DEF Placed
  <2> QED
    BY <2>1, <2>3 DEF Ranges, NoTrace
<1>2. ASSUME NEW o \in Objects, NEW ctx \in Ctxs, NEW r, NEW v, Memset(o, ctx, r, v) PROVE Ranges'
  <2>1. Allocated' = Allocated /\ trace' = NoTrace
    BY <1>2 DEF Memset, Ready, Allocated
  <2> QED
    BY <2>1, SameObjects
<1>3. ASSUME NEW o \in Objects, NEW ctx \in Ctxs, NEW r, NEW v, CopyFromHost(o, ctx, r, v) PROVE Ranges'
  <2>1. Allocated' = Allocated /\ trace' = NoTrace
    BY <1>3 DEF CopyFromHost, Ready, Allocated
  <2> QED
    BY <2>1, SameObjects
<1>4. ASSUME NEW o \in Objects, NEW ctx \in Ctxs, NEW r, CopyToHost(o, ctx, r) PROVE Ranges'
  <2>1. Allocated' = Allocated /\ trace' = NoTrace
    BY <1>4 DEF CopyToHost, Ready, Allocated
  <2> QED
    BY <2>1, SameObjects
<1>5. ASSUME NEW src \in Objects, NEW dst \in Objects, NEW ctx \in Ctxs, NEW len, CopyOnDevice(src, dst, ctx, len)
      PROVE Ranges'
  <2>1. Allocated' = Allocated /\ trace' = NoTrace
    BY <1>5 DEF CopyOnDevice, Ready, Allocated
  <2> QED
    BY <2>1, SameObjects
<1>6. CASE AnalysisBegin
  <2>1. TraceOf(trace', touched')
    BY <1>6, BeginExact DEF AnalysisBegin
  <2>2. Allocated' = Allocated
    BY <1>6 DEF AnalysisBegin, Allocated
  <2>3. Tracing'
    BY <2>1, <2>2, Zenon DEF Tracing, TraceOf, Exact
  <2> QED
    BY <2>2, <2>3, Zenon DEF Ranges, Placed
<1>7. ASSUME NEW r \in Reads, UnitRead(r) PROVE Ranges'
  <2>1. r \in ByteRange
    BY FlowAssumption DEF ByteRange
  <2>2. TraceOf(trace, touched) /\ Placed(Allocated) /\ Accessible(r)
    BY <1>7, TracingIs DEF UnitRead, Ranges
  <2>3. trace' = [trace EXCEPT !.n = @ + 1, !.read = ReadRanges(@, r)]
    BY <1>7, Zenon DEF UnitRead, ReadRanges
  <2>4. touched' = [touched EXCEPT !.read = @ \cup BytesIn(r)]
    BY <1>7 DEF UnitRead
  <2>5. TraceOf(trace', touched')
    BY <2>1, <2>2, <2>3, <2>4, ReadExact
  <2>6. Allocated' = Allocated
    BY <1>7 DEF UnitRead, Allocated
  <2>7. Tracing'
    BY <2>5, <2>6, Zenon DEF Tracing, TraceOf, Exact
  <2> QED
    BY <2>2, <2>6, <2>7, Zenon DEF Ranges, Placed
<1>8. ASSUME NEW r \in Writes, NEW v, UnitWrite(r, v) PROVE Ranges'
  <2>1. r \in ByteRange
    BY FlowAssumption DEF ByteRange
  <2>2. TraceOf(trace, touched) /\ Placed(Allocated) /\ Accessible(r)
    BY <1>8, TracingIs DEF UnitWrite, Ranges
  <2>3. trace' = [trace EXCEPT !.n = @ + 1, !.write = Merged(@, r)]
    BY <1>8 DEF UnitWrite
  <2>4. touched' = [touched EXCEPT !.write = @ \cup BytesIn(r)]
    BY <1>8 DEF UnitWrite
  <2>5. TraceOf(trace', touched')
    BY <2>1, <2>2, <2>3, <2>4, WriteExact
  <2>6. Allocated' = Allocated
    BY <1>8 DEF UnitWrite, Allocated
  <2>7. Tracing'
    BY <2>5, <2>6, Zenon DEF Tracing, TraceOf, Exact
  <2> QED
    BY <2>2, <2>6, <2>7, Zenon DEF Ranges, Placed
<1>9. ASSUME NEW ctx \in Ctxs, KernelEnd(ctx) PROVE Ranges'
  <2>1. Allocated' = Allocated /\ trace' = NoTrace
    BY <1>9 DEF KernelEnd, Allocated
  <2> QED
    BY <2>1, SameObjects
<1>10. CASE UNCHANGED vars
  <2>1. op_node' = op_node /\ trace' = trace /\ touched' = touched
    BY <1>10 DEF vars
  <2> QED
    BY <2>1, Zenon DEF Ranges, Placed, Allocated, Tracing
<1> QED
  BY <1>1, <1>2, <1>3, <1>4, <1>5, <1>6, <1>7, <1>8, <1>9, <1>10, Zenon DEF Next

-----------------------------------------------------------------------------
(* DataFlow: the graph *)

\* Linked adds the edges of the links and keeps the ones there were.
LEMMA LinkedIs ==
  ASSUME NEW links
  PROVE  DOMAIN Linked(links) = DOMAIN edges \cup {links[i].edge : i \in DOMAIN links}
  BY Zenon DEF Linked

\* More edges lead at least as far.
LEMMA LeadsMore ==
  ASSUME NEW D, NEW E, D \subseteq E, NEW m, NEW a, NEW b
  PROVE  LeadsIn(D, m, a, b) => LeadsIn(E, m, a, b)
  BY Zenon DEF LeadsIn

\* So does a writer that was known.
LEMMA KnownMore ==
  ASSUME NEW D, NEW E, D \subseteq E, NEW m, NEW a, NEW b
  PROVE  Known(D, m, a, b) => Known(E, m, a, b)
  BY LeadsMore, Zenon DEF Known

\* An edge leads on from where the writer was known.
LEMMA LeadsOn ==
  ASSUME NEW D, NEW E, D \subseteq E, NEW m, NEW a, NEW b, NEW c, NEW type, type # "SINK",
         Known(D, m, a, b), <<b, c, m, type>> \in E
  PROVE  LeadsIn(E, m, a, c)
<1>1. Known(E, m, a, b)
  BY KnownMore
<1>2. PICK e : e = <<b, c, m, type>>
  OBVIOUS
<1>3. e \in E /\ e[1] = b /\ e[2] = c /\ e[3] = m /\ e[4] # "SINK"
  BY <1>2
<1>4. SUFFICES ASSUME NEW S \in SUBSET (Ctxs \cup {Host}),
                      \A x \in E : (x[3] = m /\ x[4] # "SINK" /\ x[1] \in S \cup {a}) => x[2] \in S
               PROVE  c \in S
  BY Zenon DEF LeadsIn
<1>5. b \in S \cup {a}
  <2>1. CASE a = b
    BY <2>1
  <2>2. CASE LeadsIn(E, m, a, b)
    <3>1. b \in S
      BY <1>4, <2>2, Zenon DEF LeadsIn
    <3> QED
      BY <3>1
  <2> QED
    BY <1>1, <2>1, <2>2 DEF Known
<1> QED
  BY <1>3, <1>4, <1>5, Zenon

\* The graph for the objects A, with the state as parameters.
GraphOf(A, node, mem, w, fs, D) ==
  /\ node \in [A -> Ctxs]
  /\ mem \in [A -> Ctxs]
  /\ w \in [A -> [Bytes -> Ctxs]]
  /\ fs \subseteq Ctxs \X Ctxs \X A
  /\ \A o \in A, b \in Bytes : Known(D, mem[o], w[o][b], node[o])
  /\ \A x \in fs : LeadsIn(D, mem[x[3]], x[1], x[2])

\* Graph is that, for the state.
LEMMA GraphIs == Graph <=> GraphOf(Allocated, op_node, mem_ctx, writer, flows, DOMAIN edges)
  BY Zenon DEF Graph, GraphOf

\* A new object is known by the context that allocated it.
LEMMA GraphAlloc ==
  ASSUME NEW A, NEW node, NEW mem, NEW w, NEW fs, NEW D, GraphOf(A, node, mem, w, fs, D),
         NEW o, o \notin A, NEW ctx \in Ctxs
  PROVE  GraphOf(A \cup {o}, Put(node, o, ctx), Put(mem, o, ctx), Put(w, o, [b \in Bytes |-> ctx]), fs, D)
<1>1. PICK n2 : n2 = Put(node, o, ctx)
  OBVIOUS
<1>2. PICK m2 : m2 = Put(mem, o, ctx)
  OBVIOUS
<1>3. PICK W : W = [b \in Bytes |-> ctx]
  OBVIOUS
<1>4. PICK w2 : w2 = Put(w, o, W)
  OBVIOUS
<1>5. node \in [A -> Ctxs] /\ mem \in [A -> Ctxs] /\ w \in [A -> [Bytes -> Ctxs]]
  BY DEF GraphOf
<1>6. n2 \in [A \cup {o} -> Ctxs] /\ n2[o] = ctx /\ \A q \in A : n2[q] = node[q]
  BY <1>1, <1>5 DEF Put
<1>7. m2 \in [A \cup {o} -> Ctxs] /\ m2[o] = ctx /\ \A q \in A : m2[q] = mem[q]
  BY <1>2, <1>5 DEF Put
<1>8. W \in [Bytes -> Ctxs]
  BY <1>3
<1>9. w2 \in [A \cup {o} -> [Bytes -> Ctxs]] /\ w2[o] = W /\ \A q \in A : w2[q] = w[q]
  BY <1>4, <1>5, <1>8 DEF Put
<1>10. ASSUME NEW q \in A \cup {o}, NEW b \in Bytes PROVE Known(D, m2[q], w2[q][b], n2[q])
  <2>1. CASE q = o
    BY <1>3, <1>6, <1>9, <2>1 DEF Known
  <2>2. CASE q \in A
    <3>1. Known(D, mem[q], w[q][b], node[q])
      BY <2>2 DEF GraphOf
    <3>2. m2[q] = mem[q] /\ w2[q] = w[q] /\ n2[q] = node[q]
      BY <1>6, <1>7, <1>9, <2>2
    <3> QED
      BY <3>1, <3>2
  <2> QED
    BY <2>1, <2>2
<1>11. fs \subseteq Ctxs \X Ctxs \X A
  BY DEF GraphOf
<1>12. fs \subseteq Ctxs \X Ctxs \X (A \cup {o})
  BY <1>11
<1>13. ASSUME NEW x \in fs PROVE LeadsIn(D, m2[x[3]], x[1], x[2])
  <2>1. LeadsIn(D, mem[x[3]], x[1], x[2])
    BY DEF GraphOf
  <2>2. x[3] \in A
    BY <1>11
  <2>3. m2[x[3]] = mem[x[3]]
    BY <1>7, <2>2
  <2> QED
    BY <2>1, <2>3
<1>14. GraphOf(A \cup {o}, n2, m2, w2, fs, D)
  BY <1>6, <1>7, <1>9, <1>10, <1>12, <1>13, Zenon DEF GraphOf
<1> QED
  BY <1>1, <1>2, <1>3, <1>4, <1>14

\* An operation of ctx writes bytes of the objects W, with an edge for each, and
\* reads bytes R, with an edge from the node of each object.
OpOf(A, node, mem, w, fs, D, ctx, E, W, R, n2, w2, fs2) ==
  /\ D \subseteq E /\ R \subseteq A \X Bytes
  /\ n2 = [o \in A |-> IF o \in W THEN ctx ELSE node[o]]
  /\ w2 \in [A -> [Bytes -> Ctxs]]
  /\ \A o \in A, b \in Bytes : w2[o][b] = w[o][b] \/ (o \in W /\ w2[o][b] = ctx)
  /\ \A o \in A : o \in W => <<node[o], ctx, mem[o], "ORDER">> \in E
  /\ fs2 = fs \cup {<<w[x[1]][x[2]], ctx, x[1]>> : x \in R}
  /\ \A x \in R : \/ <<node[x[1]], ctx, mem[x[1]], "READ">> \in E
                  \/ <<node[x[1]], ctx, mem[x[1]], "ORDER">> \in E

\* It keeps the writers known and puts its flows into the graph.
LEMMA GraphOp ==
  ASSUME NEW A, NEW node, NEW mem, NEW w, NEW fs, NEW D, NEW ctx \in Ctxs, NEW E,
         NEW W, NEW R, NEW n2, NEW w2, NEW fs2,
         GraphOf(A, node, mem, w, fs, D), OpOf(A, node, mem, w, fs, D, ctx, E, W, R, n2, w2, fs2)
  PROVE  GraphOf(A, n2, mem, w2, fs2, E)
<1> USE DEF OpOf
<1>1. node \in [A -> Ctxs] /\ mem \in [A -> Ctxs] /\ w \in [A -> [Bytes -> Ctxs]]
  BY DEF GraphOf
<1>2. n2 \in [A -> Ctxs]
  BY <1>1
<1>3. \A o \in A, b \in Bytes : Known(D, mem[o], w[o][b], node[o])
  BY DEF GraphOf
<1>4. "ORDER" # "SINK" /\ "READ" # "SINK"
  OBVIOUS
<1>5. ASSUME NEW o \in A, NEW b \in Bytes PROVE Known(E, mem[o], w2[o][b], n2[o])
  <2>1. Known(D, mem[o], w[o][b], node[o])
    BY <1>3
  <2>2. CASE o \in W
    <3>1. n2[o] = ctx
      BY <2>2
    <3>2. LeadsIn(E, mem[o], w[o][b], ctx)
      <4>1. <<node[o], ctx, mem[o], "ORDER">> \in E
        BY <2>2
      <4> QED
        BY <1>4, <2>1, <4>1, LeadsOn
    <3>3. w2[o][b] = w[o][b] \/ w2[o][b] = ctx
      OBVIOUS
    <3> QED
      BY <3>1, <3>2, <3>3, Zenon DEF Known
  <2>3. CASE o \notin W
    <3>1. n2[o] = node[o] /\ w2[o][b] = w[o][b]
      BY <2>3
    <3>2. Known(E, mem[o], w[o][b], node[o])
      BY <2>1, KnownMore
    <3> QED
      BY <3>1, <3>2
  <2> QED
    BY <2>2, <2>3
<1>6. fs \subseteq Ctxs \X Ctxs \X A
  BY DEF GraphOf
<1>7. ASSUME NEW x \in R
      PROVE  /\ <<w[x[1]][x[2]], ctx, x[1]>> \in Ctxs \X Ctxs \X A
             /\ LeadsIn(E, mem[x[1]], w[x[1]][x[2]], ctx)
  <2>1. PICK o, b : o = x[1] /\ b = x[2]
    OBVIOUS
  <2>2. o \in A /\ b \in Bytes
    BY <2>1
  <2>3. Known(D, mem[o], w[o][b], node[o])
    BY <1>3, <2>2
  <2>4. PICK type : type # "SINK" /\ <<node[o], ctx, mem[o], type>> \in E
    BY <1>4, <2>1
  <2>5. LeadsIn(E, mem[o], w[o][b], ctx)
    BY <2>3, <2>4, LeadsOn
  <2>6. w[o][b] \in Ctxs
    BY <1>1, <2>2
  <2> QED
    BY <2>1, <2>2, <2>5, <2>6
<1>8. fs2 \subseteq Ctxs \X Ctxs \X A
  BY <1>6, <1>7
<1>9. ASSUME NEW y \in fs2 PROVE LeadsIn(E, mem[y[3]], y[1], y[2])
  <2>1. CASE y \in fs
    <3>1. LeadsIn(D, mem[y[3]], y[1], y[2])
      BY <2>1 DEF GraphOf
    <3> QED
      BY <3>1, LeadsMore
  <2>2. ASSUME NEW x \in R, y = <<w[x[1]][x[2]], ctx, x[1]>> PROVE LeadsIn(E, mem[y[3]], y[1], y[2])
    <3>1. y[1] = w[x[1]][x[2]] /\ y[2] = ctx /\ y[3] = x[1]
      BY <2>2
    <3> QED
      BY <1>7, <3>1
  <2> QED
    BY <2>1, <2>2
<1> QED
  BY <1>1, <1>2, <1>5, <1>8, <1>9, Zenon DEF GraphOf

\* The graph after a step, from its parts.
LEMMA GraphNext ==
  ASSUME NEW A, Allocated' = A, GraphOf(A, op_node', mem_ctx', writer', flows', DOMAIN edges')
  PROVE  Graph'
  BY Zenon DEF Graph, GraphOf

\* The node of one object changes.
LEMMA NodeOne ==
  ASSUME NEW A, NEW node \in [A -> Ctxs], NEW o, NEW ctx
  PROVE  [node EXCEPT ![o] = ctx] = [q \in A |-> IF q \in {o} THEN ctx ELSE node[q]]
  OBVIOUS

\* Memset and copies from the host write one object and read none.
LEMMA GraphWrite ==
  ASSUME Graph, NEW o \in Allocated, NEW ctx \in Ctxs, NEW r,
         op_node' = [op_node EXCEPT ![o] = ctx], mem_ctx' = mem_ctx, flows' = flows,
         writer' = [writer EXCEPT ![o] = Set(@, r, ctx)],
         DOMAIN edges \subseteq DOMAIN edges',
         <<op_node[o], ctx, mem_ctx[o], "ORDER">> \in DOMAIN edges'
  PROVE  Graph'
<1>1. PICK A, D, E : A = Allocated /\ D = DOMAIN edges /\ E = DOMAIN edges'
  OBVIOUS
<1>2. GraphOf(A, op_node, mem_ctx, writer, flows, D)
  BY <1>1, GraphIs
<1>3. op_node \in [A -> Ctxs] /\ writer \in [A -> [Bytes -> Ctxs]]
  BY <1>2 DEF GraphOf
<1>4. op_node' = [q \in A |-> IF q \in {o} THEN ctx ELSE op_node[q]]
  BY <1>3, NodeOne
<1>5. /\ writer' \in [A -> [Bytes -> Ctxs]]
      /\ \A q \in A, b \in Bytes : writer'[q][b] = writer[q][b] \/ (q \in {o} /\ writer'[q][b] = ctx)
  <2>1. PICK f : f = Set(writer[o], r, ctx)
    OBVIOUS
  <2>2. writer' = [writer EXCEPT ![o] = f] /\ o \in A
    BY <1>1, <2>1
  <2>3. f \in [Bytes -> Ctxs] /\ \A b \in Bytes : f[b] = writer[o][b] \/ f[b] = ctx
    BY <1>3, <2>1, <2>2 DEF Set
  <2>4. writer' \in [A -> [Bytes -> Ctxs]] /\ writer'[o] = f /\ \A q \in A : q # o => writer'[q] = writer[q]
    BY <1>3, <2>2, <2>3
  <2> QED
    BY <2>3, <2>4
<1>6. \A q \in A : q \in {o} => <<op_node[q], ctx, mem_ctx[q], "ORDER">> \in E
  BY <1>1
<1>7. flows' = flows \cup {<<writer[x[1]][x[2]], ctx, x[1]>> : x \in {}}
  OBVIOUS
<1>8. PICK W, R : W = {o} /\ R = {}
  OBVIOUS
<1>9. /\ R \subseteq A \X Bytes
      /\ \A x \in R : \/ <<op_node[x[1]], ctx, mem_ctx[x[1]], "READ">> \in E
                      \/ <<op_node[x[1]], ctx, mem_ctx[x[1]], "ORDER">> \in E
  BY <1>8
<1>10. GraphOf(A, op_node', mem_ctx, writer', flows', E)
  <2>1. OpOf(A, op_node, mem_ctx, writer, flows, D, ctx, E, W, R, op_node', writer', flows')
    <3>1. /\ op_node' = [q \in A |-> IF q \in W THEN ctx ELSE op_node[q]]
          /\ \A q \in A, b \in Bytes : writer'[q][b] = writer[q][b] \/ (q \in W /\ writer'[q][b] = ctx)
          /\ \A q \in A : q \in W => <<op_node[q], ctx, mem_ctx[q], "ORDER">> \in E
      BY <1>4, <1>5, <1>6, <1>8, Zenon
    <3>2. flows' = flows \cup {<<writer[x[1]][x[2]], ctx, x[1]>> : x \in R} /\ D \subseteq E
      BY <1>1, <1>7, <1>8
    <3> QED
      BY <1>5, <1>9, <3>1, <3>2, Zenon DEF OpOf
  <2>2. PICK n2, w2, fs2 : n2 = op_node' /\ w2 = writer' /\ fs2 = flows'
    OBVIOUS
  <2>3. OpOf(A, op_node, mem_ctx, writer, flows, D, ctx, E, W, R, n2, w2, fs2)
    BY <2>1, <2>2
  <2>4. GraphOf(A, n2, mem_ctx, w2, fs2, E)
    BY <1>2, <2>3, GraphOp, Zenon
  <2> QED
    BY <2>2, <2>4
<1>11. Allocated' = A
  BY <1>4 DEF Allocated
<1> QED
  BY <1>1, <1>10, <1>11, GraphNext

\* Every step keeps the writers known and the flows in the graph.
LEMMA GraphStep ==
  ASSUME Ranges, Graph, [Next]_vars
  PROVE  Graph'
<1>1. PICK A : A = Allocated
  OBVIOUS
<1>2. PICK D : D = DOMAIN edges
  OBVIOUS
<1>3. GraphOf(A, op_node, mem_ctx, writer, flows, D)
  BY <1>1, <1>2, GraphIs
<1>4. op_node \in [A -> Ctxs] /\ writer \in [A -> [Bytes -> Ctxs]]
  BY <1>3 DEF GraphOf
<1>5. ASSUME NEW o \in Objects, NEW ctx \in Ctxs, Malloc(o, ctx) PROVE Graph'
  <2>1. o \notin A
    BY <1>1, <1>5 DEF Malloc
  <2>2. GraphOf(A \cup {o}, Put(op_node, o, ctx), Put(mem_ctx, o, ctx), Put(writer, o, [b \in Bytes |-> ctx]), flows, D)
    BY <1>3, <2>1, GraphAlloc
  <2>3. /\ op_node' = Put(op_node, o, ctx) /\ mem_ctx' = Put(mem_ctx, o, ctx)
        /\ writer' = Put(writer, o, [b \in Bytes |-> ctx]) /\ flows' = flows /\ edges' = edges
    BY <1>5 DEF Malloc
  <2>4. Allocated' = A \cup {o}
    BY <1>1, <2>3 DEF Put, Allocated
  <2>5. GraphOf(A \cup {o}, op_node', mem_ctx', writer', flows', DOMAIN edges')
    BY <1>2, <2>2, <2>3
  <2> QED
    BY <2>4, <2>5, GraphNext
<1>6. ASSUME NEW o \in Objects, NEW ctx \in Ctxs, NEW r, NEW v, Memset(o, ctx, r, v) PROVE Graph'
  <2>1. PICK links : /\ links = <<link_op_node(o, ctx, Same(value[o], value'[o], Span(r)), r[2] - r[1])>>
                     /\ edges' = Linked(links)
    BY <1>6 DEF Memset
  <2>2. DOMAIN links = {1} /\ links[1].edge = <<op_node[o], ctx, mem_ctx[o], "ORDER">>
    BY <2>1 DEF link_op_node, link_ctx_node
  <2>3. DOMAIN edges' = DOMAIN edges \cup {links[i].edge : i \in DOMAIN links}
    BY <2>1, LinkedIs
  <2>4. DOMAIN edges \subseteq DOMAIN edges' /\ <<op_node[o], ctx, mem_ctx[o], "ORDER">> \in DOMAIN edges'
    BY <2>2, <2>3
  <2>5. /\ o \in Allocated /\ op_node' = [op_node EXCEPT ![o] = ctx] /\ mem_ctx' = mem_ctx /\ flows' = flows
        /\ writer' = [writer EXCEPT ![o] = Set(@, r, ctx)]
    BY <1>6 DEF Memset
  <2> QED
    BY <2>4, <2>5, GraphWrite
<1>7. ASSUME NEW o \in Objects, NEW ctx \in Ctxs, NEW r, NEW v, CopyFromHost(o, ctx, r, v) PROVE Graph'
  <2>1. PICK links : /\ links = <<link_op_node(o, ctx, Same(value[o], value'[o], Span(r)), r[2] - r[1]),
                                  link_ctx_node(Host, ctx, Host, "READ", 0, r[2] - r[1], r[2] - r[1])>>
                     /\ edges' = Linked(links)
    BY <1>7 DEF CopyFromHost
  <2>2. 1 \in DOMAIN links /\ links[1].edge = <<op_node[o], ctx, mem_ctx[o], "ORDER">>
    BY <2>1 DEF link_op_node, link_ctx_node
  <2>3. DOMAIN edges' = DOMAIN edges \cup {links[i].edge : i \in DOMAIN links}
    BY <2>1, LinkedIs
  <2>4. DOMAIN edges \subseteq DOMAIN edges' /\ <<op_node[o], ctx, mem_ctx[o], "ORDER">> \in DOMAIN edges'
    BY <2>2, <2>3
  <2>5. /\ o \in Allocated /\ op_node' = [op_node EXCEPT ![o] = ctx] /\ mem_ctx' = mem_ctx /\ flows' = flows
        /\ writer' = [writer EXCEPT ![o] = Set(@, r, ctx)]
    BY <1>7 DEF CopyFromHost
  <2> QED
    BY <2>4, <2>5, GraphWrite
<1>8. ASSUME NEW o \in Objects, NEW ctx \in Ctxs, NEW r \in {<<0, Size>>, <<1, Size>>}, CopyToHost(o, ctx, r)
      PROVE Graph'
  <2>1. PICK same \in {0, r[2] - r[1]} : edges' = Linked(
          <<link_ctx_node(ctx, Host, mem_ctx[o], "SINK", same, r[2] - r[1], r[2] - r[1]),
            link_ctx_node(op_node[o], ctx, mem_ctx[o], "READ", 0, r[2] - r[1], Size)>>)
    BY <1>8 DEF CopyToHost
  <2>2. PICK links : links =
          <<link_ctx_node(ctx, Host, mem_ctx[o], "SINK", same, r[2] - r[1], r[2] - r[1]),
            link_ctx_node(op_node[o], ctx, mem_ctx[o], "READ", 0, r[2] - r[1], Size)>>
    OBVIOUS
  <2>3. 2 \in DOMAIN links /\ links[2].edge = <<op_node[o], ctx, mem_ctx[o], "READ">>
    BY <2>2 DEF link_ctx_node
  <2>4. PICK E : E = DOMAIN edges'
    OBVIOUS
  <2>5. E = D \cup {links[i].edge : i \in DOMAIN links}
    BY <1>2, <2>1, <2>2, <2>4, LinkedIs
  <2>6. D \subseteq E /\ <<op_node[o], ctx, mem_ctx[o], "READ">> \in E
    BY <2>3, <2>5
  <2>7. PICK W, R : W = {} /\ R = {o} \X Span(r)
    OBVIOUS
  <2>8. o \in A /\ Span(r) \subseteq Bytes
    <3>1. Size \in Nat
      BY FlowAssumption
    <3> QED
      BY <1>1, <1>8, <3>1 DEF CopyToHost, Span, Bytes
  <2>9. /\ R \subseteq A \X Bytes
        /\ \A x \in R : \/ <<op_node[x[1]], ctx, mem_ctx[x[1]], "READ">> \in E
                        \/ <<op_node[x[1]], ctx, mem_ctx[x[1]], "ORDER">> \in E
    BY <2>6, <2>7, <2>8
  <2>10. flows' = flows \cup {<<writer[x[1]][x[2]], ctx, x[1]>> : x \in R}
    <3>1. flows' = flows \cup {<<writer[o][b], ctx, o>> : b \in Span(r)}
      BY <1>8 DEF CopyToHost, ReadFlows
    <3>2. {<<writer[o][b], ctx, o>> : b \in Span(r)} = {<<writer[x[1]][x[2]], ctx, x[1]>> : x \in R}
      <4>1. ASSUME NEW b \in Span(r) PROVE \E x \in R : x[1] = o /\ x[2] = b
        <5>1. <<o, b>> \in R /\ <<o, b>>[1] = o /\ <<o, b>>[2] = b
          BY <2>7
        <5> QED
          BY <5>1
      <4>2. \A x \in R : x[1] = o /\ x[2] \in Span(r)
        BY <2>7
      <4> QED
        BY <4>1, <4>2
    <3> QED
      BY <3>1, <3>2
  <2>11. op_node' = op_node /\ mem_ctx' = mem_ctx /\ writer' = writer
    BY <1>8 DEF CopyToHost
  <2>12. op_node' = [q \in A |-> IF q \in W THEN ctx ELSE op_node[q]]
    BY <1>4, <2>7, <2>11
  <2>13. /\ writer' \in [A -> [Bytes -> Ctxs]]
         /\ \A q \in A, b \in Bytes : writer'[q][b] = writer[q][b] \/ (q \in W /\ writer'[q][b] = ctx)
         /\ \A q \in A : q \in W => <<op_node[q], ctx, mem_ctx[q], "ORDER">> \in E
    BY <1>4, <2>7, <2>11
  <2>14. GraphOf(A, op_node', mem_ctx, writer', flows', E)
    <3>1. OpOf(A, op_node, mem_ctx, writer, flows, D, ctx, E, W, R, op_node', writer', flows')
      BY <2>6, <2>9, <2>10, <2>12, <2>13, Zenon DEF OpOf
    <3> QED
      BY <1>3, <3>1, GraphOp, Zenon
  <2>15. Allocated' = A
    BY <1>1, <2>11 DEF Allocated
  <2> QED
    BY <2>4, <2>11, <2>14, <2>15, GraphNext
<1>9. ASSUME NEW src \in Objects, NEW dst \in Objects, NEW ctx \in Ctxs, NEW len \in {1, Size},
             CopyOnDevice(src, dst, ctx, len)
      PROVE Graph'
  <2>1. PICK to, after : to = Size - len /\ after = [op_node EXCEPT ![dst] = ctx]
    OBVIOUS
  <2>2. PICK links : links =
          <<link_op_node(dst, ctx, Same(value[dst], value'[dst], to .. Size - 1), len),
            link_ctx_node(after[src], ctx, mem_ctx[src], "READ", 0, len, Size)>>
    OBVIOUS
  <2>3. edges' = Linked(links)
    BY <1>9, <2>1, <2>2, Zenon DEF CopyOnDevice
  <2>4. /\ {1, 2} \subseteq DOMAIN links
        /\ links[1].edge = <<op_node[dst], ctx, mem_ctx[dst], "ORDER">>
        /\ links[2].edge = <<after[src], ctx, mem_ctx[src], "READ">>
    BY <2>2 DEF link_op_node, link_ctx_node
  <2>5. PICK E : E = DOMAIN edges'
    OBVIOUS
  <2>6. E = D \cup {links[i].edge : i \in DOMAIN links}
    BY <1>2, <2>3, <2>5, LinkedIs
  <2>7. /\ D \subseteq E /\ <<op_node[dst], ctx, mem_ctx[dst], "ORDER">> \in E
        /\ <<after[src], ctx, mem_ctx[src], "READ">> \in E
    BY <2>4, <2>6
  <2>8. src \in A /\ dst \in A
    BY <1>1, <1>9 DEF CopyOnDevice
  <2>9. \/ <<op_node[src], ctx, mem_ctx[src], "READ">> \in E
        \/ <<op_node[src], ctx, mem_ctx[src], "ORDER">> \in E
    <3>1. CASE src = dst
      BY <2>7, <3>1
    <3>2. CASE src # dst
      <4>1. after[src] = op_node[src]
        BY <1>4, <2>1, <2>8, <3>2
      <4> QED
        BY <2>7, <4>1
    <3> QED
      BY <3>1, <3>2
  <2>10. PICK W, R : W = {dst} /\ R = {src} \X (0 .. len - 1)
    OBVIOUS
  <2>11. 0 .. len - 1 \subseteq Bytes
    <3>1. Size \in Nat \ {0}
      BY FlowAssumption
    <3> QED
      BY <3>1 DEF Bytes
  <2>12. /\ R \subseteq A \X Bytes
         /\ \A x \in R : \/ <<op_node[x[1]], ctx, mem_ctx[x[1]], "READ">> \in E
                         \/ <<op_node[x[1]], ctx, mem_ctx[x[1]], "ORDER">> \in E
    BY <2>8, <2>9, <2>10, <2>11
  <2>13. flows' = flows \cup {<<writer[x[1]][x[2]], ctx, x[1]>> : x \in R}
    <3>1. flows' = flows \cup {<<writer[src][b], ctx, src>> : b \in 0 .. len - 1}
      BY <1>9, Zenon DEF CopyOnDevice, ReadFlows
    <3>2. {<<writer[src][b], ctx, src>> : b \in 0 .. len - 1} = {<<writer[x[1]][x[2]], ctx, x[1]>> : x \in R}
      <4>1. PICK S : S = 0 .. len - 1
        OBVIOUS
      <4>2. ASSUME NEW b \in S PROVE \E x \in R : x[1] = src /\ x[2] = b
        <5>1. <<src, b>> \in R /\ <<src, b>>[1] = src /\ <<src, b>>[2] = b
          BY <2>10, <4>1
        <5> QED
          BY <5>1
      <4>3. \A x \in R : x[1] = src /\ x[2] \in S
        BY <2>10, <4>1
      <4>4. {<<writer[src][b], ctx, src>> : b \in S} = {<<writer[x[1]][x[2]], ctx, x[1]>> : x \in R}
        BY <4>2, <4>3
      <4> QED
        BY <4>1, <4>4
    <3> QED
      BY <3>1, <3>2
  <2>14. op_node' = after /\ mem_ctx' = mem_ctx
    BY <1>9, <2>1, Zenon DEF CopyOnDevice
  <2>15. op_node' = [q \in A |-> IF q \in W THEN ctx ELSE op_node[q]]
    BY <1>4, <2>1, <2>10, <2>14, NodeOne
  <2>16. /\ writer' \in [A -> [Bytes -> Ctxs]]
         /\ \A q \in A, b \in Bytes : writer'[q][b] = writer[q][b] \/ (q \in W /\ writer'[q][b] = ctx)
    <3>1. PICK f : f = [b \in Bytes |-> IF b >= to THEN ctx ELSE writer[dst][b]]
      OBVIOUS
    <3>2. writer' = [writer EXCEPT ![dst] = f]
      BY <1>9, <2>1, <3>1, Zenon DEF CopyOnDevice
    <3>3. f \in [Bytes -> Ctxs] /\ \A b \in Bytes : f[b] = writer[dst][b] \/ f[b] = ctx
      BY <1>4, <2>8, <3>1
    <3>4. /\ writer' \in [A -> [Bytes -> Ctxs]]
          /\ writer'[dst] = f /\ \A q \in A : q # dst => writer'[q] = writer[q]
      BY <1>4, <2>8, <3>2, <3>3
    <3> QED
      BY <2>10, <3>3, <3>4
  <2>17. \A q \in A : q \in W => <<op_node[q], ctx, mem_ctx[q], "ORDER">> \in E
    BY <2>7, <2>10
  <2>18. GraphOf(A, op_node', mem_ctx, writer', flows', E)
    <3>1. OpOf(A, op_node, mem_ctx, writer, flows, D, ctx, E, W, R, op_node', writer', flows')
      BY <2>7, <2>12, <2>13, <2>15, <2>16, <2>17, Zenon DEF OpOf
    <3> QED
      BY <1>3, <3>1, GraphOp, Zenon
  <2>19. Allocated' = A
    BY <2>15 DEF Allocated
  <2> QED
    BY <2>5, <2>14, <2>18, <2>19, GraphNext
<1>10. CASE AnalysisBegin \/ (\E r \in Reads : UnitRead(r)) \/ (\E r \in Writes, v \in Values : UnitWrite(r, v))
             \/ UNCHANGED vars
  <2>1. op_node' = op_node /\ mem_ctx' = mem_ctx /\ writer' = writer /\ flows' = flows /\ edges' = edges
    BY <1>10, Zenon DEF AnalysisBegin, UnitRead, UnitWrite, vars
  <2> QED
    BY <2>1, Zenon DEF Graph, Allocated
<1>11. ASSUME NEW ctx \in Ctxs, KernelEnd(ctx) PROVE Graph'
  <2>1. PICK T : T = ({"R"} \X ReadObjects) \cup ({"W"} \X Written)
    OBVIOUS
  <2>2. PICK links :
          /\ edges' = Linked(links) /\ DOMAIN links = T
          /\ \A i \in T : i[1] = "R" => links[i].edge = <<op_node[i[2]], ctx, mem_ctx[i[2]], "READ">>
          /\ \A i \in T : i[1] # "R" => links[i].edge = <<op_node[i[2]], ctx, mem_ctx[i[2]], "ORDER">>
    <3> DEFINE L == [i \in T |->
          LET o == i[2] IN
          IF i[1] = "R"
          THEN link_ctx_node(op_node[o], ctx, mem_ctx[o], "READ", 0,
                             IF ReadTraceIgnore THEN Size ELSE Length(trace.read[o]), Size)
          ELSE link_op_node(o, ctx, RedundancyOf(o, value_cache'[o]), Length(trace.write[o]))]
    <3>1. edges' = Linked(L)
      BY <1>11, <2>1, Zenon DEF KernelEnd
    <3>2. DOMAIN L = T
      BY Zenon
    <3>3. ASSUME NEW i \in T, i[1] = "R" PROVE L[i].edge = <<op_node[i[2]], ctx, mem_ctx[i[2]], "READ">>
      <4>1. PICK n : L[i] = link_ctx_node(op_node[i[2]], ctx, mem_ctx[i[2]], "READ", 0, n, Size)
        BY <3>3, Zenon
      <4> HIDE DEF L
      <4> QED
        BY <4>1 DEF link_ctx_node
    <3>4. ASSUME NEW i \in T, i[1] # "R" PROVE L[i].edge = <<op_node[i[2]], ctx, mem_ctx[i[2]], "ORDER">>
      <4>1. PICK m, n : L[i] = link_op_node(i[2], ctx, m, n)
        BY <3>4, Zenon
      <4> HIDE DEF L
      <4> QED
        BY <4>1 DEF link_op_node, link_ctx_node
    <3> HIDE DEF L
    <3> QED
      BY <3>1, <3>2, <3>3, <3>4
  <2>3. PICK E : E = DOMAIN edges'
    OBVIOUS
  <2>4. E = D \cup {links[i].edge : i \in T}
    BY <1>2, <2>2, <2>3, LinkedIs
  <2>5. ASSUME NEW o \in ReadObjects PROVE <<op_node[o], ctx, mem_ctx[o], "READ">> \in E
    <3>1. PICK i : i = <<"R", o>>
      OBVIOUS
    <3>2. i \in T /\ i[1] = "R" /\ i[2] = o
      BY <2>1, <3>1
    <3> QED
      BY <2>2, <2>4, <3>2
  <2>6. ASSUME NEW o \in Written PROVE <<op_node[o], ctx, mem_ctx[o], "ORDER">> \in E
    <3>1. PICK i : i = <<"W", o>>
      OBVIOUS
    <3>2. i \in T /\ i[1] # "R" /\ i[2] = o
      BY <2>1, <3>1
    <3> QED
      BY <2>2, <2>4, <3>2
  <2>7. TraceOf(trace, touched) /\ A \subseteq Objects
    BY <1>1, <1>11, TracingIs DEF KernelEnd, Ranges, Placed
  <2>8. touched.read \subseteq A \X Bytes /\ touched.write \subseteq A \X Bytes
    BY <1>1, <2>7 DEF TraceOf
  <2>9. ASSUME NEW x \in touched.read PROVE <<op_node[x[1]], ctx, mem_ctx[x[1]], "READ">> \in E
    <3>1. PICK o, b, s : o = x[1] /\ b = x[2] /\ s = touched.read
      OBVIOUS
    <3>2. o \in A /\ o \in Objects /\ s \subseteq A \X Bytes /\ x \in s
      BY <2>7, <2>8, <3>1
    <3>3. b \in Hit(s, o)
      BY <3>1, <3>2 DEF Hit
    <3>4. trace.read[o] # {}
      BY <2>7, <3>1, <3>2, <3>3, Zenon DEF TraceOf, Exact
    <3>5. o \in ReadObjects
      BY <1>1, <3>2, <3>4 DEF ReadObjects
    <3> QED
      BY <2>5, <3>1, <3>5
  <2>10. ASSUME NEW o \in A, NEW b \in Bytes, <<o, b>> \in touched.write PROVE o \in Written
    <3>1. PICK s : s = touched.write
      OBVIOUS
    <3>2. b \in Hit(s, o)
      <4>1. <<o, b>>[1] = o /\ <<o, b>>[2] = b
        OBVIOUS
      <4> QED
        BY <2>10, <3>1, <4>1 DEF Hit
    <3>3. o \in Objects
      BY <2>7
    <3>4. Starts(trace.write[o]) /\ SpanOf(trace.write[o]) = Hit(s, o)
      BY <2>7, <3>1, <3>3, Zenon DEF TraceOf, Exact
    <3>5. trace.write[o] # {}
      BY <3>2, <3>4 DEF SpanOf
    <3> QED
      BY <1>1, <3>5 DEF Written
  <2>11. PICK W, R : W = Written /\ R = touched.read
    OBVIOUS
  <2>12. /\ op_node' = [q \in A |-> IF q \in W THEN ctx ELSE op_node[q]]
         /\ mem_ctx' = mem_ctx
         /\ flows' = flows \cup {<<writer[x[1]][x[2]], ctx, x[1]>> : x \in R}
         /\ writer' = [o \in A |-> [b \in Bytes |-> IF <<o, b>> \in touched.write THEN ctx ELSE writer[o][b]]]
    BY <1>1, <1>11, <2>11, Zenon DEF KernelEnd
  <2>13. /\ writer' \in [A -> [Bytes -> Ctxs]]
         /\ \A q \in A, b \in Bytes : writer'[q][b] = writer[q][b] \/ (q \in W /\ writer'[q][b] = ctx)
    BY <1>4, <2>10, <2>11, <2>12
  <2>14. /\ \A q \in A : q \in W => <<op_node[q], ctx, mem_ctx[q], "ORDER">> \in E
         /\ \A x \in R : \/ <<op_node[x[1]], ctx, mem_ctx[x[1]], "READ">> \in E
                         \/ <<op_node[x[1]], ctx, mem_ctx[x[1]], "ORDER">> \in E
         /\ R \subseteq A \X Bytes /\ D \subseteq E
    BY <2>4, <2>6, <2>8, <2>9, <2>11
  <2>15. GraphOf(A, op_node', mem_ctx, writer', flows', E)
    <3>1. OpOf(A, op_node, mem_ctx, writer, flows, D, ctx, E, W, R, op_node', writer', flows')
      BY <2>12, <2>13, <2>14, Zenon DEF OpOf
    <3> QED
      BY <1>3, <3>1, GraphOp, Zenon
  <2>16. Allocated' = A
    BY <2>12 DEF Allocated
  <2> QED
    BY <2>3, <2>12, <2>15, <2>16, GraphNext
<1> QED
  BY <1>5, <1>6, <1>7, <1>8, <1>9, <1>10, <1>11, Zenon DEF Next

-----------------------------------------------------------------------------
(* DataFlow: the theorems *)

\* Nothing is allocated and no kernel runs at the start.
LEMMA Initially == Init => FlowInv
<1> SUFFICES ASSUME Init PROVE FlowInv
  OBVIOUS
<1>1. Allocated = {} /\ trace = NoTrace
  BY DEF Init, Allocated
<1>2. Ranges
  BY <1>1 DEF Ranges, Placed
<1>3. Graph
  BY <1>1 DEF Init, Graph, Allocated
<1> QED
  BY <1>2, <1>3 DEF FlowInv

\* The ranges and the graph stay right in every step.
LEMMA FlowInvariance == Spec => []FlowInv
<1>1. FlowInv /\ [Next]_vars => FlowInv'
  BY RangesStep, GraphStep DEF FlowInv
<1> QED
  BY Initially, <1>1, PTL DEF Spec

\* The ranges of a kernel stand for exactly the bytes it accessed, for any objects,
\* regions and order of accesses (merge_memory_range, trace_analyze_address_analysis).
THEOREM RangesAreExact == Spec => []RangesExact
<1>1. FlowInv => RangesExact
  <2> SUFFICES ASSUME FlowInv, trace # NoTrace, NEW o \in Objects
               PROVE  /\ SpanOf(trace.write[o]) = {x[2] : x \in {y \in touched.write : y[1] = o}}
                      /\ ~ReadTraceIgnore => SpanOf(trace.read[o]) = {x[2] : x \in {y \in touched.read : y[1] = o}}
                      /\ (trace.read[o] = {}) = ({y \in touched.read : y[1] = o} = {})
    BY Zenon DEF RangesExact
  <2>1. Tracing
    BY DEF FlowInv, Ranges
  <2>2. PICK A, s : A = Allocated /\ s = touched.read
    OBVIOUS
  <2>3. s \subseteq A \X Bytes
    BY <2>1, <2>2 DEF Tracing
  <2>4. Hit(s, o) = {} <=> {y \in s : y[1] = o} = {}
    BY <2>3, HitIs
  <2>5. trace.read[o] = {} <=> Hit(touched.read, o) = {}
    BY <2>1, Zenon DEF Tracing
  <2>6. trace.read[o] = {} <=> {y \in touched.read : y[1] = o} = {}
    BY <2>2, <2>4, <2>5, Zenon
  <2>7. /\ SpanOf(trace.write[o]) = Hit(touched.write, o)
        /\ ~ReadTraceIgnore => SpanOf(trace.read[o]) = Hit(touched.read, o)
    BY <2>1, Zenon DEF Tracing
  <2>8. (trace.read[o] = {}) = ({y \in touched.read : y[1] = o} = {})
    BY <2>6
  <2> QED
    BY <2>7, <2>8, Zenon DEF Hit
<1> QED
  BY FlowInvariance, <1>1, PTL

\* If a context read a byte, the graph leads from the one that wrote it last to the
\* reader, although the analysis keeps one writer per object (link_op_node,
\* link_ctx_node).
THEOREM FlowsReach == Spec => []FlowReaches
<1>1. FlowInv => FlowReaches
  <2> SUFFICES ASSUME FlowInv, NEW x \in flows PROVE Leads(x[3], x[1], x[2])
    BY Zenon DEF FlowReaches
  <2>1. LeadsIn(DOMAIN edges, mem_ctx[x[3]], x[1], x[2])
    BY Zenon DEF FlowInv, Graph
  <2> QED
    BY <2>1, Zenon DEF Leads, LeadsIn
<1> QED
  BY FlowInvariance, <1>1, PTL
=============================================================================
