------------------------------- MODULE Albums -------------------------------
(***************************************************************************)
(* The upload plan, internal/plan/build.go: items are sorted, grouped by   *)
(* source root and parent directory, and cut into albums.                  *)
(***************************************************************************)
EXTENDS Discovery

\* The comparison of sortItems; equal times and sizes go by path.
Less(a, b, order) ==
  CASE order = "mtime" ->
         a.mtime < b.mtime \/ (a.mtime = b.mtime /\ PathLess(a.path, b.path))
    [] order = "size" ->
         a.size < b.size \/ (a.size = b.size /\ PathLess(a.path, b.path))
    [] OTHER -> PathLess(a.path, b.path)

\* sortItems: any arrangement if the order is random.
Orderings(list, order, reverse) ==
  LET sorted == {s \in Arrangements(list) :
                   order # "random" => \A i, j \in DOMAIN s : i < j => ~Less(s[j], s[i], order)} IN
  IF reverse THEN {Reverse(s) : s \in sorted} ELSE sorted

GroupKey(item) == <<item.root, item.parent>>

\* The loop over the sorted items: the keys in the order in which they first
\* appear, and the items of each.
NoGroups == [order |-> << >>, of |-> << >>]
Put(groups, item) ==
  LET key == GroupKey(item)
      known == DOMAIN groups.of IN
  [order |-> IF key \in known THEN groups.order ELSE Append(groups.order, key),
   of |-> [k \in known \cup {key} |->
             IF k # key THEN groups.of[k]
             ELSE Append(IF key \in known THEN groups.of[key] ELSE << >>, item)]]
Grouped(list) ==
  LET after[n \in 0 .. Len(list)] ==
        IF n = 0 THEN NoGroups ELSE Put(after[n - 1], list[n]) IN
  after[Len(list)]

\* Mutant: the last item of every chunk is repeated in the next.
SplitOverlap(list, size) ==
  [i \in 1 .. (Len(list) + size - 1) \div size |->
     SubSeq(list, Max({1, (i - 1) * size}), Min({i * size, Len(list)}))]

\* split.
Split(list, size) ==
  [i \in 1 .. (Len(list) + size - 1) \div size |->
     SubSeq(list, (i - 1) * size + 1, Min({i * size, Len(list)}))]

\* Build, from sorted items: an album has the key of its group and its items.
Build(sorted, albumMax) ==
  LET groups == Grouped(sorted)
      AlbumsOf(key) == LET chunks == Split(groups.of[key], albumMax) IN
                       [i \in DOMAIN chunks |-> [key |-> key, items |-> chunks[i]]] IN
  FlattenSeq([k \in DOMAIN groups.order |-> AlbumsOf(groups.order[k])])
=============================================================================
