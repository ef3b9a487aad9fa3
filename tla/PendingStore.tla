---------------------------- MODULE PendingStore ----------------------------
(***************************************************************************)
(* The eviction rule of the pending-result directory (pending_results.rs): *)
(* files are sorted by (mtime, path) and the oldest Len - cap of them are  *)
(* removed.  A file is therefore removed exactly when at least cap others  *)
(* come after it in that order.  Paths are compared by name, and a name is *)
(* a natural number here because only its order matters.                   *)
(***************************************************************************)
EXTENDS Naturals, FiniteSets

EarlierFirst(mtime, m, n) == \* defect: the listing is sorted the other way
  mtime[m] < mtime[n]

\* json_files: the sort key, mtime first and the path as the tie-break.
Later(mtime, m, n) ==
  \/ mtime[m] > mtime[n]
  \/ mtime[m] = mtime[n] /\ m > n

\* The files that follow n in the listing.
After(files, mtime, n) == {m \in files : Later(mtime, m, n)}

\* existing.into_iter().take(existing.len() - max_pending_files)
Victims(files, mtime, cap) ==
  {n \in files : Cardinality(After(files, mtime, n)) >= cap}
=============================================================================
