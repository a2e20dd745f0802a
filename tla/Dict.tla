-------------------------------- MODULE Dict --------------------------------
(***************************************************************************)
(* The hash table of hiredis (dict.c), in which async.c keeps the          *)
(* callbacks of subscriptions: chains of entries, a table that doubles     *)
(* when it is full, and an iterator whose user may delete the entry it is  *)
(* given.  A table is the sequence of its chains.  Memory is never short.  *)
(***************************************************************************)
EXTENDS Naturals, SequencesExt, FiniteSetsExt

CONSTANTS
    DictKeys,               \* keys, as sequences of bytes
    DictVals,
    DICT_HT_INITIAL_SIZE

ASSUME DictAssumption ==
    /\ DictKeys \subseteq Seq(0..255) /\ <<>> \notin DictKeys
    /\ DICT_HT_INITIAL_SIZE \in Nat \ {0}

VARIABLES
    ht,                     \* the dict: table and used
    iter,                   \* the dictIterator, with the keys it has given out
    mapping,                \* what the table should hold (history)
    toVisit                 \* the keys when the iteration began (history)

dictVars == <<ht, iter, mapping, toVisit>>

NoDict == [table |-> <<>>, used |-> 0]
NoEntry == <<>>             \* a NULL dictEntry; an entry is named by its key
NoIter == [index |-> 0, entry |-> NoEntry, nextEntry |-> NoEntry, seen |-> <<>>, on |-> FALSE]

DictSize(d) == Len(d.table)

(* hash * 33 + c on unsigned ints.  Masks are far below 2^16, so that only the
   lower 16 bits matter. *)
DictGenHashFunction(key) == FoldLeft(LAMBDA hash, c : (hash * 33 + c) % 2^16, 5381, key)

(* hash & sizemask, as a place in the sequence. *)
Slot(size, key) == (DictGenHashFunction(key) % size) + 1
Chain(d, key) == d.table[Slot(DictSize(d), key)]
KeysOf(chain) == {chain[i].key : i \in DOMAIN chain}

-----------------------------------------------------------------------------
(* _dictNextPower: doubled from the initial size on. *)
NextPower(size) ==
    LET powers == {DICT_HT_INITIAL_SIZE * 2^i : i \in 0..size} IN Min({p \in powers : p >= size})

(* Every entry goes to the head of its new chain. *)
DictExpand(d, size) ==
    LET real == NextPower(size)
        Move(table, he) == [table EXCEPT ![Slot(real, he.key)] = <<he>> \o @]
    IN  [d EXCEPT !.table = FoldLeft(Move, [i \in 1..real |-> <<>>], FlattenSeq(d.table))]

ExpandIfNeeded(d) ==
    IF DictSize(d) = 0 THEN DictExpand(d, DICT_HT_INITIAL_SIZE)
    ELSE IF d.used = DictSize(d) THEN DictExpand(d, DictSize(d) * 2) ELSE d

(* dictAdd, after _dictKeyIndex has found no entry of that key. *)
DictAdd(d, key, val) ==
    [table |-> [d.table EXCEPT ![Slot(DictSize(d), key)] = <<[key |-> key, val |-> val]>> \o @],
     used |-> d.used + 1]

(* dictReplace: the value of the entry that is there, or a new entry; the table has
   grown in either case. *)
SetVal(chain, key, val) ==
    [i \in DOMAIN chain |-> IF chain[i].key = key THEN [chain[i] EXCEPT !.val = val] ELSE chain[i]]
DictReplace(d, key, val) ==
    IF key \in KeysOf(Chain(d, key))
    THEN [d EXCEPT !.table[Slot(DictSize(d), key)] = SetVal(@, key, val)]
    ELSE DictAdd(d, key, val)

DictFind(d, key) ==
    IF DictSize(d) = 0 THEN {} ELSE {he \in ToSet(Chain(d, key)) : he.key = key}

Unlink(d, key) ==
    [table |-> [d.table EXCEPT ![Slot(DictSize(d), key)] = SelectSeq(@, LAMBDA he : he.key # key)],
     used |-> d.used - 1]

(* What follows the entry of key in its chain. *)
After(d, key) ==
    LET chain == Chain(d, key)
        i == CHOOSE j \in DOMAIN chain : chain[j].key = key
    IN  IF i < Len(chain) THEN chain[i + 1].key ELSE NoEntry

(* dictNext: along the chain, then the first entry of the next chain that has one. *)
DictNext(d, it) ==
    LET rest == {i \in (it.index + 1)..DictSize(d) : d.table[i] # <<>>}
        given == IF it.entry # NoEntry /\ it.nextEntry # NoEntry THEN it.nextEntry
                 ELSE IF rest # {} THEN d.table[Min(rest)][1].key ELSE NoEntry
    IN  IF given = NoEntry THEN [it EXCEPT !.index = DictSize(d) + 1, !.entry = NoEntry]
        ELSE [index |-> Slot(DictSize(d), given), entry |-> given,
              nextEntry |-> After(d, given), seen |-> Append(it.seen, given), on |-> TRUE]

-----------------------------------------------------------------------------
DictInit == ht = NoDict /\ iter = NoIter /\ mapping = <<>> /\ toVisit = {}

Keeps(key, val) == mapping' = [k \in DOMAIN mapping \cup {key} |-> IF k = key THEN val ELSE mapping[k]]
Forget(key) == mapping' = [k \in DOMAIN mapping \ {key} |-> mapping[k]]

Adds(key, val) ==
    /\ ~ iter.on
    /\ LET d == ExpandIfNeeded(ht) IN
       \/ key \notin KeysOf(Chain(d, key)) /\ ht' = DictAdd(d, key, val) /\ Keeps(key, val)
       \/ key \in KeysOf(Chain(d, key)) /\ ht' = d /\ UNCHANGED mapping
    /\ UNCHANGED <<iter, toVisit>>
Replaces(key, val) ==
    /\ ~ iter.on
    /\ ht' = DictReplace(ExpandIfNeeded(ht), key, val) /\ Keeps(key, val)
    /\ UNCHANGED <<iter, toVisit>>
(* While an iterator is used only the entry it has given out is deleted. *)
Deletes(key) ==
    /\ iter.on => key = iter.entry
    /\ IF DictFind(ht, key) = {} THEN UNCHANGED ht ELSE ht' = Unlink(ht, key)
    /\ Forget(key)
    /\ UNCHANGED <<iter, toVisit>>
Iterates ==
    /\ ~ iter.on
    /\ iter' = [NoIter EXCEPT !.on = TRUE] /\ toVisit' = DOMAIN mapping
    /\ UNCHANGED <<ht, mapping>>
GoesOn ==
    /\ iter.on /\ iter.index <= DictSize(ht)
    /\ iter' = DictNext(ht, iter)
    /\ UNCHANGED <<ht, mapping, toVisit>>
EndsIteration ==
    /\ iter.on /\ iter.index > DictSize(ht)
    /\ iter' = NoIter /\ toVisit' = {}
    /\ UNCHANGED <<ht, mapping>>
(* dictRelease, and a new dict. *)
Releases == ~ iter.on /\ ht' = NoDict /\ mapping' = <<>> /\ UNCHANGED <<iter, toVisit>>

DictStep ==
    \/ \E key \in DictKeys : Deletes(key) \/ \E val \in DictVals : Adds(key, val) \/ Replaces(key, val)
    \/ Iterates \/ GoesOn \/ EndsIteration \/ Releases
DictSpec == DictInit /\ [][DictStep]_dictVars

-----------------------------------------------------------------------------
(* Every entry is in the chain of its hash and there once, and used counts them;
   the table is never more than full. *)
DictSound ==
    LET all == FlattenSeq(ht.table) IN
    /\ Len(all) = ht.used /\ ht.used <= DictSize(ht)
    /\ \A i, j \in DOMAIN all : all[i].key = all[j].key => i = j
    /\ \A i \in DOMAIN ht.table : \A he \in ToSet(ht.table[i]) : Slot(DictSize(ht), he.key) = i

(* dictFind gives what was put in last, however the table has grown since. *)
FindExact ==
    \A key \in DictKeys :
        DictFind(ht, key) = IF key \in DOMAIN mapping THEN {[key |-> key, val |-> mapping[key]]} ELSE {}

(* An iterator gives out every entry once, although the user deletes them. *)
AllVisited ==
    /\ \A i, j \in DOMAIN iter.seen : iter.seen[i] = iter.seen[j] => i = j
    /\ iter.on /\ iter.index > DictSize(ht) => ToSet(iter.seen) = toVisit
=============================================================================
