----------------------------- MODULE HashTable -----------------------------
(***************************************************************************)
(* structure/hashtable.c: buckets in one array, chained by hash, with a    *)
(* list of removed buckets to reuse and an array that doubles when every   *)
(* bucket is in use.                                                       *)
(*                                                                         *)
(* The table is a record with the fields of ef_hashtable_t; the hash heads *)
(* that C keeps in front of arrData are the field `entry`.  A bucket's     *)
(* hash is that of its key, so it is not kept.  Values are what the caller *)
(* hands over and val_dtor destroys.                                       *)
(***************************************************************************)
EXTENDS Doubling, FiniteSets, FiniteSetsExt

CONSTANTS Key, Val,
          NoKey,                \* a null key
          hash_func,            \* the hash of each key
          HASH_TABLE_INIT_CAP,
          CapArgs,              \* cap arguments of new and resize
          MaxCap                \* bound: no table grows beyond

ASSUME KeyAssumption  == NoKey \notin Key /\ hash_func \in [Key -> Nat]
ASSUME CapAssumption  == /\ HASH_TABLE_INIT_CAP \in PowersOfTwo(HASH_TABLE_INIT_CAP)
                         /\ MaxCap \in Nat
                         /\ CapArgs \subseteq 0 .. MaxCap

VARIABLES ht,                   \* the table
          owned                 \* values handed over and not yet destroyed

vars == <<ht, owned>>

Nil    == -1                    \* the index that ends a chain
Unused == [key |-> NoKey, val |-> NoKey, next |-> 0]

\* The least capacity a table can have that is not below cap.
hash_recap(cap) == Expanded(HASH_TABLE_INIT_CAP, cap - 1)

Slot(t, k)  == hash_func[k] % t.cap
Live(t)     == {i \in 0 .. t.next - 1 : t.arrData[i].key # NoKey}
InSlot(t, s) == {i \in Live(t) : Slot(t, t.arrData[i].key) = s}

\* The bucket of key k: follow the chain from its head.
ef_hashtable_find_key(t, k) ==
    LET find[i \in -1 .. t.cap - 1] == IF i = Nil \/ t.arrData[i].key = k THEN i
                                       ELSE find[t.arrData[i].next]
    IN  find[t.entry[Slot(t, k)]]

NewTable(cap) == [cap     |-> hash_recap(cap),
                  used    |-> 0,
                  next    |-> 0,
                  removed |-> Nil,
                  entry   |-> [s \in 0 .. hash_recap(cap) - 1 |-> Nil],
                  arrData |-> [i \in 0 .. hash_recap(cap) - 1 |-> Unused]]

\* Put key and value into bucket i, at the head of the key's chain.
Link(t, i, k, v) ==
    [t EXCEPT !.used = @ + 1,
              !.arrData[i] = [key |-> k, val |-> v, next |-> t.entry[Slot(t, k)]],
              !.entry[Slot(t, k)] = i]

\* Mutant: the size mask is renewed after the buckets were moved.
StaleSlot(t, c, k) == hash_func[k] % t.cap

\* The slot of key k when table t has been given c buckets.
NewSlot(t, c, k) == hash_func[k] % c

\* The live buckets in order at the front of a new array, each linked in
\* front of its chain.
Resized(t, cap) ==
    LET c       == hash_recap(cap)
        rank(i) == Cardinality({j \in Live(t) : j < i})
        old     == [n \in 0 .. Cardinality(Live(t)) - 1 |->
                      t.arrData[CHOOSE i \in Live(t) : rank(i) = n]]
        Chained(s, n) == {m \in DOMAIN old : m < n /\ NewSlot(t, c, old[m].key) = s}
        LastOf(S) == IF S = {} THEN Nil ELSE Max(S)
    IN  [cap     |-> c,
         used    |-> t.used,
         next    |-> t.used,
         removed |-> Nil,
         entry   |-> [s \in 0 .. c - 1 |-> LastOf(Chained(s, c))],
         arrData |-> [n \in 0 .. c - 1 |->
                        IF n \in DOMAIN old
                        THEN [old[n] EXCEPT !.next = LastOf(Chained(NewSlot(t, c, old[n].key), n))]
                        ELSE Unused]]
-----------------------------------------------------------------------------
Init == \E cap \in CapArgs : ht = NewTable(cap) /\ owned = {}

\* The key is there: destroy its value, keep the new one.
Replace(k, v) ==
    LET i == ef_hashtable_find_key(ht, k)
    IN  /\ i # Nil
        /\ ht' = [ht EXCEPT !.arrData[i].val = v]
        /\ owned' = (owned \ {ht.arrData[i].val}) \cup {v}

\* Mutant: the removed list is not advanced.
AllocKeepsRemoved == IF ht.next < ht.cap THEN [i |-> ht.next, t |-> [ht EXCEPT !.next = @ + 1]]
                     ELSE IF ht.removed # Nil THEN [i |-> ht.removed, t |-> ht]
                     ELSE LET t == Resized(ht, 2 * ht.cap)
                          IN  [i |-> t.next, t |-> [t EXCEPT !.next = @ + 1]]

\* A bucket never used, else a removed one, else one of a doubled array; and
\* the table without it.
Alloc == IF ht.next < ht.cap THEN [i |-> ht.next, t |-> [ht EXCEPT !.next = @ + 1]]
         ELSE IF ht.removed # Nil
         THEN [i |-> ht.removed, t |-> [ht EXCEPT !.removed = ht.arrData[ht.removed].next]]
         ELSE LET t == Resized(ht, 2 * ht.cap)
              IN  [i |-> t.next, t |-> [t EXCEPT !.next = @ + 1]]

Full == ht.next = ht.cap /\ ht.removed = Nil

\* The key is new.  Without memory for it the bucket goes to the removed
\* list and the value stays the caller's.
Insert(k, v) ==
    /\ ef_hashtable_find_key(ht, k) = Nil
    /\ Full => 2 * ht.cap <= MaxCap
    /\ LET b == Alloc
       IN  \/ /\ ht' = Link(b.t, b.i, k, v)
              /\ owned' = owned \cup {v}
           \/ /\ ht' = [b.t EXCEPT !.arrData[b.i].next = b.t.removed, !.removed = b.i]
              /\ UNCHANGED owned

ef_hashtable_set_key_value(k, v) == v \notin owned /\ (Replace(k, v) \/ Insert(k, v))

\* Mutant: the value is not destroyed.
FreeKeepsValue(i, t) ==
    /\ ht' = [t EXCEPT !.arrData[i] = [key |-> NoKey, val |-> NoKey, next |-> t.removed],
                       !.removed = i, !.used = @ - 1]
    /\ UNCHANGED owned

\* Destroy key and value of bucket i, already unlinked in t, and keep the
\* bucket for reuse.
ef_hashtable_free_bucket(i, t) ==
    /\ ht' = [t EXCEPT !.arrData[i] = [key |-> NoKey, val |-> NoKey, next |-> t.removed],
                       !.removed = i, !.used = @ - 1]
    /\ owned' = owned \ {t.arrData[i].val}

\* Bucket i of key k taken out of its chain: from the head, or from the one
\* before.
Unlinked(t, k, i) ==
    LET s      == Slot(t, k)
        rest   == t.arrData[i].next
        before == CHOOSE j \in InSlot(t, s) : t.arrData[j].next = i
    IN  IF t.entry[s] = i THEN [t EXCEPT !.entry[s] = rest]
        ELSE [t EXCEPT !.arrData[before].next = rest]

ef_hashtable_remove_key(k) ==
    LET i == ef_hashtable_find_key(ht, k)
    IN  i # Nil /\ ef_hashtable_free_bucket(i, Unlinked(ht, k, i))

\* Refused when the buckets in use would not fit.
ef_hashtable_resize(cap) == /\ hash_recap(cap) >= ht.used
                            /\ ht' = Resized(ht, cap)
                            /\ UNCHANGED owned

\* Destroy every value; the next table is a new one.
ef_hashtable_free == /\ \E cap \in CapArgs : ht' = NewTable(cap)
                     /\ owned' = owned \ {ht.arrData[i].val : i \in Live(ht)}

Next == \/ ef_hashtable_free
        \/ \E cap \in CapArgs : ef_hashtable_resize(cap)
        \/ \E k \in Key : ef_hashtable_remove_key(k)
        \/ \E k \in Key, v \in Val : ef_hashtable_set_key_value(k, v)

Spec == Init /\ [][Next]_vars
-----------------------------------------------------------------------------
(* Properties *)

\* The indices met when following `next` from index i.
After(t, i) == IF i = Nil THEN Nil ELSE t.arrData[i].next
Walk(t, i) == LET at[n \in 0 .. t.cap] == IF n = 0 THEN i ELSE After(t, at[n - 1])
              IN  at
Reached(t, i) == {Walk(t, i)[n] : n \in 0 .. t.cap} \ {Nil}
Ends(t, i)    == Walk(t, i)[t.cap] = Nil

\* Counters and links stay inside the array of buckets.
TypeOK == /\ ht.cap \in {HASH_TABLE_INIT_CAP * p : p \in {1} \cup PowersOfTwo(2 * MaxCap)}
          /\ ht.used \in 0 .. ht.next /\ ht.next \in 0 .. ht.cap
          /\ ht.removed \in -1 .. ht.next - 1
          /\ ht.entry \in [0 .. ht.cap - 1 -> -1 .. ht.next - 1]
          /\ ht.arrData \in [0 .. ht.cap - 1 -> [key : Key \cup {NoKey}, val : Val \cup {NoKey},
                                                 next : -1 .. ht.cap - 1]]
          /\ owned \subseteq Val

\* Every chain ends and holds exactly the live buckets of its slot, so a
\* search finds every key that was set, through removals in mid-chain, reuse
\* and resizes.
ChainsComplete == \A s \in 0 .. ht.cap - 1 : /\ Ends(ht, ht.entry[s])
                                             /\ Reached(ht, ht.entry[s]) = InSlot(ht, s)

\* Every bucket handed out once is live or on the removed list, which holds
\* no live one: no bucket is lost, none is handed out twice.
RemovedComplete == /\ Ends(ht, ht.removed)
                   /\ Reached(ht, ht.removed) = (0 .. ht.next - 1) \ Live(ht)
                   /\ ht.used = Cardinality(Live(ht))

\* Chains, removed list and counters agree through every order of setting,
\* removing, reusing and resizing (hashtable.c:150-177, 240-281).
TableInv == TypeOK /\ ChainsComplete /\ RemovedComplete

\* A value handed to the table is destroyed when its key is set again or
\* removed or the table is freed, and not before: the values not destroyed
\* are those of the live buckets, each in one bucket.
OwnedStored == /\ owned = {ht.arrData[i].val : i \in Live(ht)}
               /\ Cardinality(owned) = ht.used

\* The keys a search finds.
Found == {k \in Key : ef_hashtable_find_key(ht, k) # Nil}
M == INSTANCE Map WITH
       map <- [k \in Found |-> ht.arrData[ef_hashtable_find_key(ht, k)].val]
\* The table implements a map: what a search finds is what was set last.
ImplementsMap == M!Spec
=============================================================================
