---------------------------- MODULE KeyDiffCache ----------------------------
(***************************************************************************)
(* utils/cache/key-diff.cache.ts: a cache of values by key that remembers  *)
(* which keys were written and which were deleted.  It is the base of the  *)
(* printer cache, the floor store, the cache of printer events and that of *)
(* thumbnails; here it is a record, and its operations return the record   *)
(* they leave.  The lists of keys hold a key at most once: they are sets.  *)
(***************************************************************************)
EmptyCache == [values |-> [k \in {} |-> {}], updated |-> {}, deleted |-> {}]

\* markUpdated
MarkUpdated(c, keys) ==
    [values |-> c.values, updated |-> c.updated \cup keys, deleted |-> c.deleted \ keys]

\* Fault: a deleted key stays among the updated ones.
MarkDeletedToo(c, keys) ==
    [values |-> c.values, updated |-> c.updated, deleted |-> c.deleted \cup keys]

\* markDeleted, of keys that need not be in the cache
MarkDeleted(c, keys) ==
    [values |-> c.values, updated |-> c.updated \ keys, deleted |-> c.deleted \cup keys]

\* The values of a cache, or the rows of a table, with some of them written or
\* added
WithValues(values, new) ==
    [k \in DOMAIN values \cup DOMAIN new |-> IF k \in DOMAIN new THEN new[k] ELSE values[k]]

WithoutValues(values, keys) == [k \in DOMAIN values \ keys |-> values[k]]

\* setKeyValuesBatch, and setKeyValue of one key: "new" is a function.  Keys
\* that are not in it stay.
SetKeys(c, new) ==
    LET marked == MarkUpdated(c, DOMAIN new)
    IN  [values |-> WithValues(c.values, new), updated |-> marked.updated, deleted |-> marked.deleted]

SetKey(c, key, value) == SetKeys(c, [k \in {key} |-> value])

\* deleteKeysBatch, and deleteKeyValue of one key
DeleteKeys(c, keys) ==
    LET marked == MarkDeleted(c, keys)
    IN  [values |-> WithoutValues(c.values, keys),
         updated |-> marked.updated, deleted |-> marked.deleted]

\* What a reader of the differences relies on: a key is reported either as
\* written or as deleted, and rightly so.
DiffsOf(c) ==
    /\ c.updated \subseteq DOMAIN c.values
    /\ c.deleted \cap DOMAIN c.values = {}

=============================================================================
