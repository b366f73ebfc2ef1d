----------------------------- MODULE CacheModel -----------------------------
(***************************************************************************)
(* dhmp_handle_cache_model (dhmp_poll.c): which objects of one server the  *)
(* client asks it to drop from DRAM and which to copy there, once the      *)
(* DRAM is known to be scarce.  The candidates sa are the objects the      *)
(* cycle touched that are cached already or were touched at least          *)
(* threshold times, sorted by their number of accesses.  The function      *)
(* pairs the coldest cached object with the hottest uncached one, the next *)
(* coldest with the next hottest, until the two scans meet.                *)
(*                                                                         *)
(* An entry of sa is a record with at least rw (rwcnt) and inDram          *)
(* (in_dram).  Positions count from 1 where the code counts from 0.        *)
(***************************************************************************)
EXTENDS Integers, Sequences, SequencesExt, FiniteSetsExt

\* comp_sort_addr_entry: in ascending order of accesses.  qsort is free to
\* order entries with the same number of accesses either way.
Sorted(sa) == \A i, j \in DOMAIN sa : i < j => sa[i].rw <= sa[j].rw

SlipNextCached(sa, start, end) ==
  Max({i \in start .. end : i = start \/ sa[i].inDram})

\* Where the scan from the cold side stops: at a cached entry, or at end.
NextCached(sa, start, end) ==
  Min({i \in start .. end : i = end \/ sa[i].inDram})

\* Where the scan from the hot side stops: at an uncached entry, or at start.
NextUncached(sa, start, end) ==
  Max({j \in start .. end : j = start \/ ~ sa[j].inDram})

\* The loop of the two scans: before its first turn, and one turn of it.
FirstTurn(sa) == [start |-> 1, end |-> Len(sa), cold |-> <<>>, hot |-> <<>>]
Turn(sa, l) ==
  LET i == NextCached(sa, l.start, l.end)
      j == NextUncached(sa, i, l.end)
  IN IF l.start >= l.end THEN l
     ELSE IF i = j
     THEN [start |-> i, end |-> j, cold |-> l.cold, hot |-> l.hot]
     ELSE [start |-> i + 1, end |-> j - 1,
           cold |-> Append(l.cold, i), hot |-> Append(l.hot, j)]

\* How the loop ends.  A turn brings start and end together or takes both one
\* further, so that as many turns as there are entries are enough.
Scan(sa) ==
  LET turns[k \in 0 .. Len(sa)] ==
        IF k = 0 THEN FirstTurn(sa) ELSE Turn(sa, turns[k - 1])
  IN turns[Len(sa)]

SlipBelowStart(sa, start, threshold) ==
  LET below[i \in 0 .. Len(sa)] ==
        IF i = 0 \/ sa[i].rw < threshold THEN <<>>
        ELSE (IF sa[i].inDram THEN <<>> ELSE <<i>>) \o below[i - 1]
  IN below[IF start = 1 THEN 0 ELSE start - 2]
SlipBelowStartCached(sa, start, threshold) ==
  LET below[i \in 0 .. Len(sa)] ==
        IF i = 0 \/ sa[i].rw < threshold THEN <<>> ELSE <<i>> \o below[i - 1]
  IN below[start - 1]

\* The positions the last loop adds: from start - 1 down, until an entry is
\* below the threshold.
BelowStart(sa, start, threshold) ==
  LET below[i \in 0 .. Len(sa)] ==
        IF i = 0 \/ sa[i].rw < threshold THEN <<>>
        ELSE (IF sa[i].inDram THEN <<>> ELSE <<i>>) \o below[i - 1]
  IN below[start - 1]

\* cold_nvm and hot_nvm when the function returns.
EntriesAt(sa, positions) == [k \in DOMAIN positions |-> sa[positions[k]]]
HandleCacheModel(sa, threshold) ==
  LET l == Scan(sa)
  IN [cold |-> EntriesAt(sa, l.cold),
      hot |-> EntriesAt(sa, l.hot \o BelowStart(sa, l.start, threshold))]
=============================================================================
