------------------------------ MODULE MCBTree ------------------------------
(***************************************************************************)
(* Instances of BTree for TLC: the pages of 64 bytes the code uses, the    *)
(* overflow bit above every key.                                           *)
(***************************************************************************)
EXTENDS BTree

CONSTANT MaxKey

\* One value per key, as in src/tests/db/btree_tests.c.
KeyIsValue == {<<k, k>> : k \in 1 .. MaxKey}

\* In this order the tree has four leaves and a full root after eight adds; one
\* key fits between any two of these, before the first and after the last.
EverySecond == <<2, 4, 6, 8, 10, 12, 14, 16>>
NoScript == <<>>

\* Several values for a key.
KeysAndValues == {<<k, v>> : k \in 1 .. MaxKey, v \in 1 .. 2}
=============================================================================
