------------------------------ MODULE HashMap ------------------------------
(***************************************************************************)
(* The hash map of src/src/struct/hashmap.c.  A bucket is a list.c list    *)
(* (module DList), here the sequence it implements; one not created yet is *)
(* an empty one, which every call treats alike.                            *)
(***************************************************************************)
EXTENDS Integers, SequencesExt, FiniteSetsExt

CONSTANTS
  Keys, Vals, NoVal,
  Hash,          \* map->hash: a number for each key
  DefaultSize,   \* DEFAULT_SIZE
  Sizes,         \* the sizes clients resize to
  MaxEntries     \* bound: entries

HashMapAssumption ==
  /\ NoVal \notin Keys \cup Vals
  /\ Hash \in [Keys -> Nat]
  /\ DefaultSize \in Nat \ {0}
  /\ Sizes \subseteq Nat \ {0}
  /\ MaxEntries \in Nat

VARIABLES
  buckets,   \* 0 .. size - 1 to the entries of each bucket; <<>> is no map
  done       \* the last completed call, its key and the value it returned

vars == <<buckets, done>>

NoMap == <<>>
NewBuckets(size) == [b \in 0 .. size - 1 |-> <<>>]
Size(bs) == Cardinality(DOMAIN bs)

BucketOf(bs, k) == Hash[k] % Size(bs)
Bucket(k) == buckets[BucketOf(buckets, k)]

\* The places of a key's entries in its bucket.
PlacesOf(k) == {i \in DOMAIN Bucket(k) : Bucket(k)[i].key = k}

\* hmap_get_entry: the first of them.
HasEntry(k) == PlacesOf(k) # {}
EntryOf(k) == Min(PlacesOf(k))

\* hmap_insert into buckets bs: the new entry goes in front of its bucket.
Inserted(bs, k, v) == [bs EXCEPT ![BucketOf(bs, k)] = <<[key |-> k, val |-> v]>> \o @]

Entries == FoldSet(LAMBDA b, n : n + Len(buckets[b]), 0, DOMAIN buckets)

Init == buckets = NoMap /\ done = <<"none", NoVal, NoVal>>

Create ==
  /\ buckets = NoMap
  /\ buckets' = NewBuckets(DefaultSize)
  /\ done' = <<"create", NoVal, NoVal>>

Destroy ==
  /\ buckets # NoMap
  /\ buckets' = NoMap
  /\ done' = <<"destroy", NoVal, NoVal>>

Insert(k, v) ==
  /\ buckets # NoMap /\ Entries < MaxEntries
  /\ buckets' = Inserted(buckets, k, v)
  /\ done' = <<"insert", k, v>>

\* hmap_set of a key without an entry inserts one.
Put(k, v) ==
  /\ buckets # NoMap /\ (HasEntry(k) \/ Entries < MaxEntries)
  /\ buckets' = IF HasEntry(k)
                  THEN [buckets EXCEPT ![BucketOf(buckets, k)][EntryOf(k)].val = v]
                  ELSE Inserted(buckets, k, v)
  /\ done' = <<"set", k, v>>

\* hmap_remove.
RemoveKey(k) ==
  /\ buckets # NoMap /\ HasEntry(k)
  /\ buckets' = [buckets EXCEPT ![BucketOf(buckets, k)] = RemoveAt(@, EntryOf(k))]
  /\ done' = <<"remove", k, Bucket(k)[EntryOf(k)].val>>

RemoveNothing(k) ==
  /\ buckets # NoMap /\ ~HasEntry(k)
  /\ done' = <<"remove", k, NoVal>>
  /\ UNCHANGED buckets

\* hmap_get; hmap_contains makes the same search.
Get(k) ==
  /\ buckets # NoMap
  /\ done' = <<"get", k, IF HasEntry(k) THEN Bucket(k)[EntryOf(k)].val ELSE NoVal>>
  /\ UNCHANGED buckets

\* hmap_rehash: the old entries, bucket by bucket and first to last.
OldEntries == FoldLeft(LAMBDA es, i : es \o buckets[i - 1], <<>>, [i \in 1 .. Size(buckets) |-> i])

\* Mutant: the entries keep the number of their bucket.
ResizeKeepsBuckets(size) ==
  /\ buckets # NoMap
  /\ buckets' = [b \in 0 .. size - 1 |-> IF b \in DOMAIN buckets THEN Reverse(buckets[b]) ELSE <<>>]
  /\ done' = <<"resize", NoVal, NoVal>>

\* hmap_resize: all entries are inserted into new buckets.
Resize(size) ==
  /\ buckets # NoMap
  /\ buckets' = FoldLeft(LAMBDA bs, e : Inserted(bs, e.key, e.val), NewBuckets(size), OldEntries)
  /\ done' = <<"resize", NoVal, NoVal>>

Next ==
  \/ Create \/ Destroy
  \/ \E k \in Keys : RemoveKey(k) \/ RemoveNothing(k) \/ Get(k)
  \/ \E k \in Keys, v \in Vals : Insert(k, v) \/ Put(k, v)
  \/ \E size \in Sizes : Resize(size)

Spec == Init /\ [][Next]_vars
-----------------------------------------------------------------------------
\* The map answers as if every key had a stack of values of its own, whatever
\* keys share its bucket and however often the map was resized.
ValuesOf(k) ==
  IF buckets = NoMap THEN <<>>
  ELSE LET mine == SelectSeq(Bucket(k), LAMBDA e : e.key = k)
       IN  [i \in DOMAIN mine |-> mine[i].val]
Stacks == INSTANCE Bindings WITH stacks <- [k \in Keys |-> ValuesOf(k)]
ImplementsBindings == Stacks!Spec
=============================================================================
