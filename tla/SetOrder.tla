------------------------------ MODULE SetOrder ------------------------------
(***************************************************************************)
(* comtypes.SetOrder and SetOrderSize: a set that keeps the order of its   *)
(* keys, made of a Go map from positions to entries.  Add puts a key at    *)
(* position len(m), which is free only while no position below it is.      *)
(***************************************************************************)
EXTENDS FiniteSets, Integers, Sequences

CONSTANTS
    Keys, Values,
    MaxEntries,     \* bound: entries of an unbounded set
    Sizes           \* the sizes NewSetOrder is asked for

ASSUME SetOrderAssumption == MaxEntries \in Nat /\ Sizes \subseteq Nat

VARIABLES
    entries,    \* the map
    size,       \* of a SetOrderSize; 0: a plain SetOrder
    made,       \* the set has been made
    added,      \* the keys in the order of their Add, until one is removed
    latest,     \* the value each of them was given last
    removed,    \* a key has been removed
    replaced    \* AddOrReplace has been called

setOrderVars == <<entries, size, made, added, latest, removed, replaced>>

SetOrderInit ==
    /\ entries = <<>> /\ size = 0 /\ made = FALSE
    /\ added = <<>> /\ latest = <<>>
    /\ removed = FALSE /\ replaced = FALSE

NewSetOrder(n) ==
    /\ ~ made /\ made' = TRUE
    /\ size' = n
    /\ UNCHANGED <<entries, added, latest, removed, replaced>>

Length == Cardinality(DOMAIN entries)
Contains(k) == \E i \in DOMAIN entries : entries[i].key = k
PositionOf(k) == CHOOSE i \in DOMAIN entries : entries[i].key = k

(* m[i] = entry: puts it there, over whatever is.                          *)
PutAt(i, k, v) ==
    entries' = [j \in DOMAIN entries \union {i} |->
                  IF j = i THEN [key |-> k, value |-> v] ELSE entries[j]]

(* Mutant of AppendEntry: positions start at one.                          *)
AppendAfter(k, v) ==
    /\ PutAt(Length + 1, k, v)
    /\ added' = IF removed THEN added ELSE Append(added, k)

AppendEntry(k, v) ==
    /\ PutAt(Length, k, v)
    /\ added' = IF removed THEN added ELSE Append(added, k)

Kept(k, v) ==
    latest' = IF removed THEN latest
              ELSE [j \in DOMAIN latest \union {k} |-> IF j = k THEN v ELSE latest[j]]

(* Add: nothing if the key is there, or a sized set holds more than size.  *)
Add(k, v) ==
    /\ made /\ Length < MaxEntries
    /\ ~ Contains(k)
    /\ size > 0 => ~ (Length > size)
    /\ AppendEntry(k, v) /\ Kept(k, v)
    /\ UNCHANGED <<size, made, removed, replaced>>

(* AddOrReplace, which the size does not bound: its receiver is the        *)
(* embedded SetOrder.                                                      *)
AddOrReplace(k, v) ==
    /\ made /\ Length < MaxEntries
    /\ replaced' = TRUE
    /\ IF Contains(k) THEN PutAt(PositionOf(k), k, v) /\ UNCHANGED added
                      ELSE AppendEntry(k, v)
    /\ Kept(k, v)
    /\ UNCHANGED <<size, made, removed>>

Remove(k) ==
    /\ Contains(k)
    /\ entries' = [j \in DOMAIN entries \ {PositionOf(k)} |-> entries[j]]
    /\ removed' = TRUE
    /\ added' = <<>> /\ latest' = <<>>
    /\ UNCHANGED <<size, made, replaced>>

(* AsList and Entries: positions 0 to len - 1, a zero entry where there is *)
(* none.                                                                   *)
AsList ==
    [i \in 1..Length |->
       IF i - 1 \in DOMAIN entries THEN entries[i - 1] ELSE [key |-> "", value |-> ""]]

SetOrderNext ==
    \/ \E n \in Sizes : NewSetOrder(n)
    \/ \E k \in Keys : Remove(k) \/ \E v \in Values : Add(k, v) \/ AddOrReplace(k, v)

SetOrderSpec == SetOrderInit /\ [][SetOrderNext]_setOrderVars

-----------------------------------------------------------------------------
(* Properties.                                                             *)

(* Until something is removed the list is the keys in the order they were  *)
(* added, each with its latest value, and no entry was overwritten or      *)
(* refused its place.  (After a Remove, Add may overwrite an entry:        *)
(* set_order.go:69.)  A sized set that is only added to holds one entry    *)
(* more than its size at most (57-60), and no key is ever there twice.     *)
ListKeepsOrder ==
    /\ ~ removed => AsList = [i \in DOMAIN added |->
                                [key |-> added[i], value |-> latest[added[i]]]]
    /\ size > 0 /\ ~ replaced => Length <= size + 1
    /\ \A i, j \in DOMAIN entries : entries[i].key = entries[j].key => i = j
=============================================================================
