---------------------------- MODULE NamedLabels -----------------------------
(***************************************************************************)
(* The labels of a CodeHolder that have names (asmjit/base/codeholder.cpp) *)
(* and the hash table that finds them (ZoneHash, asmjit/base/zone.cpp).    *)
(*                                                                         *)
(* The key of a search, LabelByName, has a member hVal that nothing sets:  *)
(* get reads whatever is there, and so looks in any one of the buckets.    *)
(***************************************************************************)
EXTENDS Naturals, Sequences, FiniteSets, Functions

CONSTANTS
    Names,
    Hash,           \* hashRound over the name, ^ the id of a local label's parent: [name, index]
    Primes,         \* the prime table
    MaxLabels       \* bound: labels

VARIABLES
    labels,         \* the LabelEntries: [name, hVal], name "" without one; history: parent
    buckets,        \* _data: a sequence of label indices for each, the first one first
    bucketsGrow,    \* _bucketsGrow
    size,           \* _size
    newData         \* in _rehash: the new buckets; << >> outside

vars == <<labels, buckets, bucketsGrow, size, newData>>

HashAssumption ==
    /\ MaxLabels \in Nat /\ "" \notin Names
    /\ Hash \in [Names \X (0..MaxLabels) -> Nat]
    /\ Primes \in Seq(Nat \ {0}) /\ Primes # << >>
    /\ \A i, j \in 1..Len(Primes) : i < j => Primes[i] < Primes[j]

\* _embedded: one bucket, empty.
Init ==
    /\ labels = << >> /\ buckets = << << >> >> /\ bucketsGrow = 1 /\ size = 0
    /\ newData = << >>

-----------------------------------------------------------------------------
(* ZoneHash.                                                               *)

Bucket(hVal, count) == (hVal % count) + 1

\* ZoneHash_getClosestPrime: the first one above x, or the last.
ClosestPrime(x) ==
    LET above == {i \in 1..Len(Primes) : Primes[i] > x}
    IN  Primes[IF above = {} THEN Len(Primes) ELSE CHOOSE i \in above : \A j \in above : i <= j]

Pushed(data, entries, label) ==
    [data EXCEPT ![Bucket(entries[label].hVal, Len(data))] = <<label>> \o @]

Empty(count) == [b \in 1..count |-> << >>]

\* _put; if there is memory for a larger table, _rehash begins.
Put(entries, label) ==
    LET data  == Pushed(buckets, entries, label)
        chain == data[Bucket(entries[label].hVal, Len(data))]
        count == ClosestPrime(Len(data))
        grow  == size + 1 >= bucketsGrow /\ Len(chain) > 1 /\ count # Len(data)
    IN  /\ size' = size + 1
        /\ buckets' = data
        /\ newData' \in {<< >>} \cup (IF grow THEN {Empty(count)} ELSE {})
        /\ UNCHANGED bucketsGrow

Rehashing == newData # << >>

\* Faulty variant: a node goes where it was.
RehashNode_Stay(b) ==
    /\ newData' = [newData EXCEPT ![IF b <= Len(newData) THEN b ELSE 1] = <<Head(buckets[b])>> \o @]
    /\ buckets' = [buckets EXCEPT ![b] = Tail(@)]

\* _rehash: the first node of a bucket goes to the front of its new one.
RehashNode(b) ==
    /\ newData' = Pushed(newData, labels, Head(buckets[b]))
    /\ buckets' = [buckets EXCEPT ![b] = Tail(@)]

\* It begins with the first bucket, and ends behind the last.
Rehash ==
    /\ Rehashing
    /\ \/ \E b \in 1..Len(buckets) :
             /\ buckets[b] # << >> /\ \A c \in 1..b - 1 : buckets[c] = << >>
             /\ RehashNode(b)
             /\ UNCHANGED bucketsGrow
       \/ /\ \A b \in 1..Len(buckets) : buckets[b] = << >>
          /\ buckets' = newData /\ bucketsGrow' = (Len(newData) * 9) \div 10
          /\ newData' = << >>
    /\ UNCHANGED <<labels, size>>

\* get: the first label with that name in bucket b, 0 for nullptr.
Get(name, b) ==
    LET found == {i \in 1..Len(buckets[b]) : labels[buckets[b][i]].name = name}
    IN  IF found = {} THEN 0 ELSE buckets[b][CHOOSE i \in found : \A j \in found : i <= j]

-----------------------------------------------------------------------------
(* CodeHolder.                                                             *)

NewLabelId ==
    /\ ~Rehashing /\ Len(labels) < MaxLabels
    /\ labels' = Append(labels, [name |-> "", hVal |-> 0, parent |-> 0])
    /\ UNCHANGED <<buckets, bucketsGrow, size, newData>>

\* newNamedLabelId of a global label (parent 0) or a local one; if the name is found it
\* returns an error.
NewNamedLabelId(name, parent, b) ==
    /\ ~Rehashing /\ Len(labels) < MaxLabels
    /\ Get(name, b) = 0
    /\ labels' = Append(labels, [name |-> name, hVal |-> Hash[name, parent], parent |-> parent])
    /\ Put(labels', Len(labels'))

Next ==
    \/ NewLabelId
    \/ \E name \in Names, parent \in 0..Len(labels), b \in 1..Len(buckets) :
          NewNamedLabelId(name, parent, b)
    \/ Rehash

Spec == Init /\ [][Next]_vars

-----------------------------------------------------------------------------
Named == {l \in 1..Len(labels) : labels[l].name # ""}

\* l is in the bucket of its hash value, and in no other.
Has(data, l) ==
    \A b \in 1..Len(data) : l \in Range(data[b]) <=> b = Bucket(labels[l].hVal, Len(data))

Lacks(data, l) == \A b \in 1..Len(data) : l \notin Range(data[b])

\* The buckets hold labels that have names, each once.
BucketsOf(data) ==
    \A b \in 1..Len(data) : IsInjective(data[b]) /\ Range(data[b]) \subseteq Named

\* Each label that has a name is in the table once, in the bucket of its hash value; while
\* the table grows, in the old one or in the new one.
InTable ==
    /\ BucketsOf(buckets) /\ BucketsOf(newData)
    /\ \A l \in Named : \/ Has(buckets, l) /\ Lacks(newData, l)
                        \/ Rehashing /\ Has(newData, l) /\ Lacks(buckets, l)
    /\ size = Cardinality(Named)

\* Through all rehashing no label that has a name is lost from the table or is in it twice,
\* and a search with the hash value that a label was stored with finds the label or one of
\* the same name.
NamesAreFound ==
    /\ InTable
    /\ ~Rehashing => \A l \in Named :
          LET found == Get(labels[l].name, Bucket(labels[l].hVal, Len(buckets)))
          IN  found \in Named /\ labels[found].name = labels[l].name

\* "Don't allow to insert duplicates. Local labels allow duplicates that have different id"
\* (codeholder.cpp:477): no two labels have one name and one parent.
NoDuplicates ==
    \A l, m \in Named :
        labels[l].name = labels[m].name /\ labels[l].parent = labels[m].parent => l = m

\* "Local labels allow duplicates that have different id, this is already accomplished by
\* having a different hashes" (codeholder.cpp:477): a name is refused only if there is a label
\* of that name and that parent.
LocalsMayRepeat ==
    \A name \in Names, parent \in 0..Len(labels), b \in 1..Len(buckets) :
        ~Rehashing /\ Get(name, b) # 0 =>
            \E l \in Named : labels[l].name = name /\ labels[l].parent = parent

=============================================================================
