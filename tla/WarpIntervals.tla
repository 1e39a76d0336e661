--------------------------- MODULE WarpIntervals ---------------------------
(***************************************************************************)
(* How the analysis kernel turns the addresses of a warp into intervals    *)
(* and merges them (src/gpu-analysis.cu, src/include/utils.h).  A warp has *)
(* 2^LogWarp lanes, numbered from 0; a tile of the merge holds Tile        *)
(* intervals; an address 0 stands for an inactive lane.                    *)
(***************************************************************************)
EXTENDS Integers, Sequences, FiniteSets, SequencesExt

CONSTANTS LogWarp, Tile

ASSUME WarpAssumption == LogWarp \in Nat \ {0} /\ Tile \in Nat \ {0}

WarpSize == 2 ^ LogWarp
Lanes == 0 .. WarpSize - 1

-----------------------------------------------------------------------------
(* warp_sort: the bitonic network *)

\* bfe(lane, k): bit k of a lane, 0 above the top
bfe(lane, k) == (lane \div 2^k) % 2

\* shfl_xor(x, 2^j)
Partner(lane, j) == IF bfe(lane, j) = 0 THEN lane + 2^j ELSE lane - 2^j

\* One comparator of stage k at distance 2^j; the direction is
\* bfe(lane, k) ^ bfe(lane, j), and the last stage has no bit k.
comparator(x, k, j) ==
  [lane \in Lanes |->
     LET y == x[Partner(lane, j)]
         dir == bfe(lane, k) # bfe(lane, j)
     IN IF (x[lane] < y) = dir THEN y ELSE x[lane]]

\* Steps A to O: stages 1 .. LogWarp, each with distances from large to small.
WarpNetwork ==
  FlattenSeq([k \in 1 .. LogWarp |-> [i \in 1 .. k |-> <<k, k - i>>]])

warp_sort(x) == FoldLeft(LAMBDA v, s : comparator(v, s[1], s[2]), x, WarpNetwork)

-----------------------------------------------------------------------------
(* interval_compact, for one record *)

\* A lane starts an interval if it has the first address, or if its address is
\* not reached from the lane before.
StartPoint(x, size, lane) ==
  /\ x[lane] # 0
  /\ lane = 0 \/ x[lane - 1] = 0 \/ x[lane - 1] + size < x[lane]

\* The lane that ends the interval of a lane: the one before the next start.
EndLane(x, size, lane) ==
  LET later == {l \in Lanes : l > lane /\ StartPoint(x, size, l)} IN
  IF later = {} THEN WarpSize - 1 ELSE (CHOOSE l \in later : \A m \in later : l <= m) - 1

interval_compact(address, size) ==
  LET x == warp_sort(address) IN
  {[start |-> x[l], end |-> x[EndLane(x, size, l)] + size] :
     l \in {m \in Lanes : StartPoint(x, size, m)}}

-----------------------------------------------------------------------------
(* interval_merge, on a sequence of intervals *)

\* The sorted keys of a tile: start << 1 and (end << 1) + 1, with multiplicity.
Keys(recs) ==
  SortSeq(FlattenSeq([i \in DOMAIN recs |-> <<2 * recs[i].start, 2 * recs[i].end + 1>>]),
          LAMBDA a, b : a < b)

\* The running sum of +1 for a start and -1 for an end.
Depth(keys, i) ==
  Cardinality({j \in 1 .. i : keys[j] % 2 = 0}) - Cardinality({j \in 1 .. i : keys[j] % 2 = 1})

\* An interval ends where the depth is 0, and starts at the head of a run of
\* items that are no ends (FlagHeads of cub: the first one, and each one behind
\* an end).  A tile is loaded before any of its output is stored.
interval_merge_impl(recs) ==
  LET keys  == Keys(recs)
      idx   == [i \in 1 .. Len(keys) |-> i]
      first == SelectSeq(idx, LAMBDA i : i = 1 \/ Depth(keys, i - 1) = 0)
      last  == SelectSeq(idx, LAMBDA i : Depth(keys, i) = 0)
  IN [n \in 1 .. Len(first) |->
        [start |-> keys[first[n]] \div 2, end |-> (keys[last[n]] - 1) \div 2]]

\* Mutant: the remainder after the last full tile is left out.
FullTiles(n) == n \div Tile

\* Full tiles, and one for the remainder.
Tiles(n) == (n + Tile - 1) \div Tile

\* One pass over the first n intervals, tile by tile: the merged intervals are
\* put back from the front, and what lies behind them stays as it was.
Pass(recs, n) ==
  LET upto(t) == IF t * Tile < n THEN t * Tile ELSE n
      step(acc, t) ==
        LET out == interval_merge_impl(SubSeq(acc.recs, (t - 1) * Tile + 1, upto(t)))
            m   == acc.items + Len(out)
        IN [items |-> m,
            recs  |-> SubSeq(acc.recs, 1, acc.items) \o out
                        \o SubSeq(acc.recs, m + 1, Len(acc.recs))]
  IN FoldLeft(step, [items |-> 0, recs |-> recs], [t \in 1 .. Tiles(n) |-> t])

\* Two passes; the second one runs over head_index intervals again, the ones
\* behind the merged ones included.
interval_merge(recs) ==
  LET one == Pass(recs, Len(recs))
      two == Pass(one.recs, Len(recs))
      fin == IF one.items < Len(recs) THEN two ELSE one
  IN SubSeq(fin.recs, 1, fin.items)

=============================================================================
