---------------------------- MODULE ExtendibleHash ----------------------------
(***************************************************************************)
(* The page table of the buffer pool: ExtendibleHash<K, V>                 *)
(* (include/hash/extendible_hash.h).  Only the class declaration is in the *)
(* source tree: the state below is its members, and the operations are     *)
(* modelled from the contract of spec section 4.2.                         *)
(*                                                                         *)
(*   globalDepth  the member globalDepth                                   *)
(*   buckets      vector<shared_ptr<Bucket>>, the directory: slot i + 1    *)
(*                holds the id of the bucket that directory index i shares *)
(*   bucket       the Bucket objects, by id: localDepth and keymap         *)
(*   bucketNum    the member bucketNum, the count of distinct buckets      *)
(*   ret          the last call, its key and its result                    *)
(*                                                                         *)
(* Every public method holds the table-wide latch for its whole body (the  *)
(* policy spec 4.2 calls the simplest correct one), so Find, Insert and    *)
(* Remove are one atomic step each.  Bucket ids are 0..bucketNum-1 in the  *)
(* order the buckets are allocated.                                        *)
(***************************************************************************)
EXTENDS Naturals, Sequences, FiniteSets, Functions, TLC

CONSTANTS Keys, Vals, BucketSize, NotFound

VARIABLES globalDepth, buckets, bucket, bucketNum, ret

vars == <<globalDepth, buckets, bucket, bucketNum, ret>>

\* Bucket(int depth): a bucket of the given local depth with no pairs.
NewBucket(depth) == [localDepth |-> depth, keymap |-> <<>>]

\* HashKey: std::hash of an integer key is the key itself.
HashKey(k) == k

\* getIndex: the low globalDepth bits of the hash.
GetIndex(gd, k) == HashKey(k) % (2 ^ gd)

\* Bit b (from 0) of n.
Bit(n, b) == (n \div (2 ^ b)) % 2

\* ExtendibleHash(size): one bucket of depth 0 under a directory of one slot.
Init ==
    /\ globalDepth = 0
    /\ buckets = <<0>>
    /\ bucket = (0 :> NewBucket(0))
    /\ bucketNum = 1
    /\ ret = [op |-> "none", key |-> NotFound, res |-> NotFound]

\* The table as a record, for the recursive Insert.
Table == [gd |-> globalDepth, dir |-> buckets, bkt |-> bucket, num |-> bucketNum]

\* Mutant of Split: entries are redistributed on bit localDepth of their
\* hash rather than bit localDepth - 1.
SplitWrongBit(t, b) ==
    LET d   == t.bkt[b].localDepth + 1
        t1  == IF d > t.gd THEN [t EXCEPT !.gd = @ + 1, !.dir = @ \o @] ELSE t
        nb  == t.num
        km  == t.bkt[b].keymap
        hi  == {x \in DOMAIN km : Bit(HashKey(x), d) = 1}
    IN  [t1 EXCEPT
           !.num = @ + 1,
           !.bkt = (nb :> [localDepth |-> d, keymap |-> Restrict(km, hi)])
                     @@ [@ EXCEPT ![b] = [localDepth |-> d, keymap |-> Restrict(km, DOMAIN km \ hi)]],
           !.dir = [i \in DOMAIN t1.dir |->
                      IF t1.dir[i] = b /\ Bit(i - 1, d - 1) = 1 THEN nb ELSE t1.dir[i]]]

\* Split of a full bucket b: a new bucket, both at local depth + 1; the
\* directory doubles (every slot pointer duplicated) when that depth
\* exceeds the global depth; the entries whose hash has bit localDepth - 1
\* set move to the new bucket, and so do the directory slots of b whose
\* index has that bit set.
Split(t, b) ==
    LET d   == t.bkt[b].localDepth + 1
        t1  == IF d > t.gd THEN [t EXCEPT !.gd = @ + 1, !.dir = @ \o @] ELSE t
        nb  == t.num
        km  == t.bkt[b].keymap
        hi  == {x \in DOMAIN km : Bit(HashKey(x), d - 1) = 1}
    IN  [t1 EXCEPT
           !.num = @ + 1,
           !.bkt = (nb :> [localDepth |-> d, keymap |-> Restrict(km, hi)])
                     @@ [@ EXCEPT ![b] = [localDepth |-> d, keymap |-> Restrict(km, DOMAIN km \ hi)]],
           !.dir = [i \in DOMAIN t1.dir |->
                      IF t1.dir[i] = b /\ Bit(i - 1, d - 1) = 1 THEN nb ELSE t1.dir[i]]]

\* Mutant of InsertInto: a key already present keeps its old value (the
\* pair is added the way map::insert adds it).
RECURSIVE InsertIntoNoOverwrite(_, _, _)
InsertIntoNoOverwrite(t, k, v) ==
    LET b  == t.dir[GetIndex(t.gd, k) + 1]
        km == t.bkt[b].keymap
    IN  IF k \in DOMAIN km \/ Cardinality(DOMAIN km) < BucketSize
        THEN [t EXCEPT !.bkt[b].keymap = km @@ (k :> v)]
        ELSE InsertIntoNoOverwrite(Split(t, b), k, v)

\* Mutant of InsertInto: a bucket counts as having room while it holds
\* BucketSize pairs.
RECURSIVE InsertIntoLateSplit(_, _, _)
InsertIntoLateSplit(t, k, v) ==
    LET b  == t.dir[GetIndex(t.gd, k) + 1]
        km == t.bkt[b].keymap
    IN  IF k \in DOMAIN km \/ Cardinality(DOMAIN km) <= BucketSize
        THEN [t EXCEPT !.bkt[b].keymap = (k :> v) @@ km]
        ELSE InsertIntoLateSplit(Split(t, b), k, v)

\* Insert: overwrite a key already present, add to a bucket with room,
\* else split the bucket and retry, until the pair fits (redistribution
\* can leave every entry on one side).
RECURSIVE InsertInto(_, _, _)
InsertInto(t, k, v) ==
    LET b  == t.dir[GetIndex(t.gd, k) + 1]
        km == t.bkt[b].keymap
    IN  IF k \in DOMAIN km \/ Cardinality(DOMAIN km) < BucketSize
        THEN [t EXCEPT !.bkt[b].keymap = (k :> v) @@ km]
        ELSE InsertInto(Split(t, b), k, v)

\* The bucket that key k's directory slot names.
Owner(k) == bucket[buckets[GetIndex(globalDepth, k) + 1]]

Find(k) ==
    /\ ret' = [op |-> "Find", key |-> k,
               res |-> IF k \in DOMAIN Owner(k).keymap THEN Owner(k).keymap[k] ELSE NotFound]
    /\ UNCHANGED <<globalDepth, buckets, bucket, bucketNum>>

Insert(k, v) ==
    LET t == InsertInto(Table, k, v)
    IN  /\ globalDepth' = t.gd
        /\ buckets' = t.dir
        /\ bucket' = t.bkt
        /\ bucketNum' = t.num
        /\ ret' = [op |-> "Insert", key |-> k, res |-> v]

\* Remove: erase from the owning bucket; buckets never merge.
Remove(k) ==
    LET b == buckets[GetIndex(globalDepth, k) + 1]
    IN  /\ bucket' = [bucket EXCEPT ![b].keymap = Restrict(@, DOMAIN @ \ {k})]
        /\ ret' = [op |-> "Remove", key |-> k, res |-> k \in DOMAIN bucket[b].keymap]
        /\ UNCHANGED <<globalDepth, buckets, bucketNum>>

Next ==
    \/ \E k \in Keys : Find(k)
    \/ \E k \in Keys, v \in Vals : Insert(k, v)
    \/ \E k \in Keys : Remove(k)

Spec == Init /\ [][Next]_vars

-----------------------------------------------------------------------------
(* Properties.                                                             *)

\* The pairs of the table: those of every bucket.
Contents == [k \in UNION {DOMAIN bucket[b].keymap : b \in DOMAIN bucket} |->
                (CHOOSE b \in DOMAIN bucket : k \in DOMAIN bucket[b].keymap)]

TypeOK ==
    /\ globalDepth \in Nat
    /\ buckets \in [1..2 ^ globalDepth -> DOMAIN bucket]
    /\ DOMAIN bucket = 0..bucketNum - 1
    /\ \A b \in DOMAIN bucket :
          /\ bucket[b].localDepth \in 0..globalDepth
          /\ DOMAIN bucket[b].keymap \subseteq Keys
          /\ Cardinality(DOMAIN bucket[b].keymap) <= BucketSize
          /\ \A k \in DOMAIN bucket[b].keymap : bucket[b].keymap[k] \in Vals

\* The extendible-hashing invariant that Find and Remove rely on: a
\* bucket of local depth d is named by exactly the directory slots that
\* agree with one of them in their low d bits, it holds only keys whose
\* hash agrees in those bits, and every bucket allocated is named by some
\* slot (bucketNum counts the distinct buckets).  A wrong bit in the
\* redistribution, a missed doubling or a slot left pointing at the old
\* bucket breaks it.
DirectoryConsistent ==
    \A i \in DOMAIN buckets :
        LET b == buckets[i]
            d == bucket[b].localDepth
        IN  /\ \A j \in DOMAIN buckets : buckets[j] = b <=> (j - 1) % (2 ^ d) = (i - 1) % (2 ^ d)
            /\ \A k \in DOMAIN bucket[b].keymap : HashKey(k) % (2 ^ d) = (i - 1) % (2 ^ d)
            /\ Range(buckets) = DOMAIN bucket

\* The table is a map: every Find, Insert and Remove is a step of the
\* contract HashSpec on the pairs of all buckets, with the same result.
Map == INSTANCE HashSpec WITH table <- [k \in DOMAIN Contents |-> bucket[Contents[k]].keymap[k]]
HashRefinement == Map!Spec
====
