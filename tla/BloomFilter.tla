----------------------------- MODULE BloomFilter -----------------------------
(***************************************************************************)
(* The DuplicateFilter of app/utils/bloom_filter.py and the BloomFilter it *)
(* falls back to, as operators on a record.  A Bloom filter is its set of  *)
(* one bits; Hash[k] is the set of indexes _hashes computes for k, so two  *)
(* keys collide exactly as their indexes overlap.                          *)
(***************************************************************************)
EXTENDS Integers, FiniteSets

CONSTANTS Keys, Bits,
          Hash,                 \* _hashes, a function from Keys to sets of bits
          UseExactCheck,        \* use_exact_check
          ExactCheckThreshold   \* exact_check_threshold

ASSUME FilterAssumption ==
    /\ Hash \in [Keys -> SUBSET Bits]
    /\ UseExactCheck \in BOOLEAN
    /\ ExactCheckThreshold \in Nat
    /\ IsFiniteSet(Keys)

\* has_exact is "exact_set is not None"; bits are the ones of bloom.bit_array.
FilterType == [has_exact : BOOLEAN, exact : SUBSET Keys, bits : SUBSET Bits]

NewFilter == [has_exact |-> UseExactCheck, exact |-> {}, bits |-> {}]

BitsOf(keys) == UNION {Hash[k] : k \in keys}

\* Mutant: one common bit is enough.
SharesABit(f, k) == Hash[k] \intersect f.bits # {}

InBloom(f, k) == Hash[k] \subseteq f.bits

\* Mutant: the key is stored in place of its bits.
AddKeyToBits(f, k) == [f EXCEPT !.bits = @ \union {k}]

AddToBloom(f, k) == [f EXCEPT !.bits = @ \union Hash[k]]

\* Whether is_duplicate(k) looks at the exact set or at the Bloom filter.
ChecksExactly(f) == UseExactCheck /\ f.has_exact

\* What is_duplicate(k) returns.
IsDuplicate(f, k) == IF ChecksExactly(f) THEN k \in f.exact ELSE InBloom(f, k)

\* Mutant: the keys seen so far are dropped at the switch to the Bloom filter.
ForgetfulMigrate(f) == [has_exact |-> FALSE, exact |-> {}, bits |-> f.bits]

\* The switch to the Bloom filter takes every key of the exact set along.
Migrate(f) == [has_exact |-> FALSE, exact |-> {}, bits |-> f.bits \union BitsOf(f.exact)]

\* What is_duplicate(k) leaves behind.
Remember(f, k) ==
    LET grown == [f EXCEPT !.exact = @ \union {k}]
    IN  IF IsDuplicate(f, k) THEN f
        ELSE IF ~ChecksExactly(f) THEN AddToBloom(f, k)
        ELSE IF Cardinality(grown.exact) > ExactCheckThreshold THEN Migrate(grown)
        ELSE grown

AddKey(f, k) ==
    IF f.has_exact THEN [f EXCEPT !.exact = @ \union {k}] ELSE AddToBloom(f, k)

\* clear() creates a new exact set only if there is none: one that exists is kept.
ClearFilter(f) ==
    [f EXCEPT !.bits = {},
              !.exact = IF f.has_exact THEN f.exact ELSE {},
              !.has_exact = TRUE]
==============================================================================
