----------------------------- MODULE EditorProofs -----------------------------
(***************************************************************************)
(* Theorems about what the windows do, for every set of connections,       *)
(* clients and plugins and any number of tasks, packets and loads: the     *)
(* rows of ConnectionMonitor, the packets of Replay and the lists of       *)
(* Plugins.                                                                *)
(***************************************************************************)
EXTENDS MCEditor, FiniteSetTheorems, SequenceTheorems, TLAPS

-----------------------------------------------------------------------------
(* Sequences without repetitions.                                          *)

LEMMA TailOfInjective ==
    ASSUME NEW S, NEW s \in Seq(S), s # << >>, IsInjective(s)
    PROVE  /\ Head(s) \in S /\ Contains(s, Head(s))
           /\ Tail(s) \in Seq(S) /\ IsInjective(Tail(s))
           /\ \A x : Contains(Tail(s), x) <=> Contains(s, x) /\ x # Head(s)
<1>1. Len(s) \in Nat /\ Len(s) > 0 /\ Head(s) = s[1] /\ s[1] \in S /\ DOMAIN s = 1..Len(s)
      BY EmptySeq, ElementOfSeq
<1>2. /\ Tail(s) \in Seq(S) /\ Len(Tail(s)) = Len(s) - 1
      /\ \A i \in 1..Len(Tail(s)) : Tail(s)[i] = s[i + 1]
      BY HeadTailProperties
<1>3. DOMAIN Tail(s) = 1..Len(Tail(s))
      BY <1>2
<1>4. IsInjective(Tail(s))
  <2> SUFFICES ASSUME NEW i \in 1..Len(Tail(s)), NEW j \in 1..Len(Tail(s)), Tail(s)[i] = Tail(s)[j]
               PROVE  i = j
      BY <1>3 DEF IsInjective
  <2>1. i + 1 \in 1..Len(s) /\ j + 1 \in 1..Len(s) /\ s[i + 1] = s[j + 1]
        BY <1>1, <1>2
  <2> QED BY <1>1, <2>1 DEF IsInjective
<1>5. ASSUME NEW x PROVE Contains(Tail(s), x) <=> Contains(s, x) /\ x # Head(s)
  <2>1. ASSUME NEW i \in 1..Len(Tail(s)), Tail(s)[i] = x PROVE Contains(s, x) /\ x # Head(s)
    <3>1. i + 1 \in 1..Len(s) /\ s[i + 1] = x /\ 1 \in 1..Len(s) /\ i + 1 # 1
          BY <1>1, <1>2, <2>1
    <3>2. x # s[1]
          BY <1>1, <3>1 DEF IsInjective
    <3> QED BY <1>1, <3>1, <3>2 DEF Contains
  <2>2. ASSUME NEW i \in 1..Len(s), s[i] = x, x # Head(s) PROVE Contains(Tail(s), x)
    <3>1. i # 1
          BY <1>1, <2>2
    <3>2. i - 1 \in 1..Len(Tail(s)) /\ i - 1 + 1 = i
          BY <1>1, <1>2, <3>1
    <3>3. Tail(s)[i - 1] = x
          BY <1>2, <2>2, <3>2
    <3> QED BY <3>2, <3>3 DEF Contains
  <2> QED BY <2>1, <2>2 DEF Contains
<1>6. Contains(s, Head(s))
      BY <1>1 DEF Contains
<1> QED BY <1>1, <1>2, <1>4, <1>5, <1>6

LEMMA ElementsOfAppend ==
    ASSUME NEW S, NEW s \in Seq(S), NEW x \in S
    PROVE  /\ Append(s, x) \in Seq(S) /\ Len(Append(s, x)) = Len(s) + 1 /\ Len(s) \in Nat
           /\ \A i \in 1..Len(s) : Append(s, x)[i] = s[i]
           /\ Append(s, x)[Len(s) + 1] = x
<1>1. Append(s, x) \in Seq(S) /\ Len(Append(s, x)) = Len(s) + 1
      BY AppendProperties, Zenon
<1>2. \A i \in 1..Len(s) : Append(s, x)[i] = s[i]
      BY SMTT(20)
<1>3. Append(s, x)[Len(s) + 1] = x
      BY AppendProperties, Zenon
<1> QED BY <1>1, <1>2, <1>3

LEMMA AppendToInjective ==
    ASSUME NEW S, NEW s \in Seq(S), IsInjective(s), NEW y \in S, ~Contains(s, y)
    PROVE  /\ Append(s, y) \in Seq(S) /\ IsInjective(Append(s, y))
           /\ \A x : Contains(Append(s, y), x) <=> Contains(s, x) \/ x = y
<1> DEFINE r == Append(s, y)
<1>1. r \in Seq(S) /\ Len(r) = Len(s) + 1
      BY ElementsOfAppend
<1>2. \A i \in 1..Len(s) : r[i] = s[i]
      BY ElementsOfAppend
<1>3. r[Len(s) + 1] = y
      BY ElementsOfAppend
<1>4. Len(s) \in Nat /\ DOMAIN s = 1..Len(s) /\ DOMAIN r = 1..Len(r)
      BY <1>1
<1>5. \A i \in 1..Len(s) : s[i] # y
      BY DEF Contains
<1> HIDE DEF r
<1>6. IsInjective(r)
  <2> SUFFICES ASSUME NEW i \in 1..Len(r), NEW j \in 1..Len(r), r[i] = r[j] PROVE i = j
      BY <1>4 DEF IsInjective
  <2>1. (i \in 1..Len(s) \/ i = Len(s) + 1) /\ (j \in 1..Len(s) \/ j = Len(s) + 1)
        BY <1>1, <1>4
  <2>2. CASE i \in 1..Len(s) /\ j \in 1..Len(s)
        BY <1>2, <1>4, <2>2 DEF IsInjective
  <2> QED BY <1>2, <1>3, <1>5, <2>1, <2>2
<1>7. ASSUME NEW x PROVE Contains(r, x) <=> Contains(s, x) \/ x = y
  <2>1. \A i \in 1..Len(r) : i \in 1..Len(s) \/ i = Len(s) + 1
        BY <1>1, <1>4
  <2>2. Len(s) + 1 \in 1..Len(r) /\ \A i \in 1..Len(s) : i \in 1..Len(r)
        BY <1>1, <1>4
  <2> QED BY <1>2, <1>3, <2>1, <2>2 DEF Contains
<1> QED BY <1>1, <1>6, <1>7 DEF r

LEMMA SuffixOf ==
    ASSUME NEW S, NEW s \in Seq(S), NEW k \in 1..Len(s)
    PROVE  /\ SubSeq(s, k + 1, Len(s)) \in Seq(S) /\ Len(SubSeq(s, k + 1, Len(s))) = Len(s) - k
           /\ \A i \in 1..Len(s) - k : SubSeq(s, k + 1, Len(s))[i] = s[k + i]
<1>1. Len(s) \in Nat /\ k \in Nat /\ k <= Len(s) /\ \A i \in 1..Len(s) : s[i] \in S
      BY ElementOfSeq
<1>2. PICK m \in Nat : m = k + 1
      BY <1>1
<1>3. PICK n \in Nat : n = Len(s)
      BY <1>1
<1>4. m \in Int /\ n \in Int /\ \A i \in m .. n : s[i] \in S
      BY <1>1, <1>2, <1>3
<1>5. /\ SubSeq(s, m, n) \in Seq(S) /\ Len(SubSeq(s, m, n)) = IF m <= n THEN n - m + 1 ELSE 0
      /\ \A i \in 1 .. n - m + 1 : SubSeq(s, m, n)[i] = s[m + i - 1]
      BY <1>4, SubSeqProperties
<1>6. (IF m <= n THEN n - m + 1 ELSE 0) = Len(s) - k
      BY <1>1, <1>2, <1>3
<1>7. ASSUME NEW i \in 1..Len(s) - k PROVE SubSeq(s, m, n)[i] = s[k + i]
  <2>1. i \in 1 .. n - m + 1 /\ m + i - 1 = k + i
        BY <1>1, <1>2, <1>3
  <2>2. SubSeq(s, m, n)[i] = s[m + i - 1]
        BY <1>5, <2>1
  <2> QED BY <2>1, <2>2
<1> QED BY <1>2, <1>3, <1>5, <1>6, <1>7

LEMMA RemoveAtInjective ==
    ASSUME NEW S, NEW s \in Seq(S), IsInjective(s), NEW k \in 1..Len(s)
    PROVE  RemoveAt(s, k) \in Seq(S) /\ IsInjective(RemoveAt(s, k))
<1> DEFINE r == RemoveAt(s, k)
           a == SubSeq(s, 1, k - 1)
           b == SubSeq(s, k + 1, Len(s))
<1>1. Len(s) \in Nat /\ DOMAIN s = 1..Len(s) /\ \A i \in 1..Len(s) : s[i] \in S
      BY ElementOfSeq
<1>2. /\ a \in Seq(S) /\ Len(a) = k - 1
      /\ \A i \in 1..k - 1 : a[i] = s[i]
      BY <1>1
<1>3. /\ b \in Seq(S) /\ Len(b) = Len(s) - k
      /\ \A i \in 1..Len(s) - k : b[i] = s[k + i]
      BY <1>1, SuffixOf
<1>4. r = a \o b
      BY DEF RemoveAt
<1> HIDE DEF a, b, r
<1>5. /\ r \in Seq(S) /\ Len(r) = Len(s) - 1
      /\ \A i \in 1..Len(r) : r[i] = IF i <= k - 1 THEN a[i] ELSE b[i - (k - 1)]
  <2>1. /\ r \in Seq(S) /\ Len(r) = Len(a) + Len(b)
        /\ \A i \in 1 .. Len(a) + Len(b) : r[i] = IF i <= Len(a) THEN a[i] ELSE b[i - Len(a)]
        BY <1>2, <1>3, <1>4, ConcatProperties
  <2>2. Len(a) + Len(b) = Len(s) - 1
        BY <1>1, <1>2, <1>3
  <2> QED BY <1>2, <2>1, <2>2
<1>6. \A i \in 1..Len(r) : r[i] = s[IF i <= k - 1 THEN i ELSE i + 1]
  <2> SUFFICES ASSUME NEW i \in 1..Len(r) PROVE r[i] = s[IF i <= k - 1 THEN i ELSE i + 1]
      OBVIOUS
  <2>1. CASE i <= k - 1
        BY <1>1, <1>2, <1>5, <2>1, SMTT(20)
  <2>2. CASE ~(i <= k - 1)
    <3>1. i - (k - 1) \in 1..Len(s) - k /\ k + (i - (k - 1)) = i + 1
          BY <1>1, <1>5, <2>2
    <3>2. b[i - (k - 1)] = s[i + 1]
          BY <1>3, <3>1
    <3> QED BY <1>5, <2>2, <3>2
  <2> QED BY <2>1, <2>2
<1>7. IsInjective(r)
  <2> SUFFICES ASSUME NEW i \in 1..Len(r), NEW j \in 1..Len(r), r[i] = r[j] PROVE i = j
      BY <1>5 DEF IsInjective
  <2> DEFINE at(n) == IF n <= k - 1 THEN n ELSE n + 1
  <2>1. at(i) \in 1..Len(s) /\ at(j) \in 1..Len(s)
        BY <1>1, <1>5
  <2>2. s[at(i)] = s[at(j)]
        BY <1>6
  <2>3. at(i) = at(j)
        BY <1>1, <2>1, <2>2 DEF IsInjective
  <2> QED BY <2>3
<1> QED BY <1>5, <1>7 DEF r

LEMMA RemoveFromInjective ==
    ASSUME NEW S, NEW s \in Seq(S), IsInjective(s), NEW x
    PROVE  RemoveFirst(s, x) \in Seq(S) /\ IsInjective(RemoveFirst(s, x))
<1>1. CASE ~ \E i \in 1..Len(s) : s[i] = x
      BY <1>1 DEF RemoveFirst
<1>2. CASE \E i \in 1..Len(s) : s[i] = x
  <2>1. PICK k \in 1..Len(s) : s[k] = x
        BY <1>2
  <2>2. k \in Nat /\ {i \in 1..Len(s) : s[i] = x} = {k}
        BY <2>1 DEF IsInjective
  <2>3. SelectInSeq(s, LAMBDA v : v = x) = k
        BY <2>2 DEF SelectInSeq, Min
  <2>4. RemoveFirst(s, x) = RemoveAt(s, k)
        BY <1>2, <2>3 DEF RemoveFirst
  <2> QED BY <2>4, RemoveAtInjective
<1> QED BY <1>1, <1>2

-----------------------------------------------------------------------------
(* The rows of an editor.                                                  *)

Stages == {"none", "queued", "test", "filter", "invoke", "add", "remove", "ended"}

MonTypeOK ==
    /\ clients \in Seq(Connections)
    /\ connected \in [Connections -> {"new", "up", "down"}]
    /\ pc \in [Tasks -> Stages]
    /\ todo \in [Tasks -> Seq(Connections)]
    /\ found \in [Tasks -> Seq(Connections)]
    /\ connList \in [Tasks -> Seq(Connections)]
    /\ rows \in Seq(Connections)

\* The server has no client twice: a connection is added when it is new.
ClientsInv ==
    /\ IsInjective(clients)
    /\ \A c \in Connections : Contains(clients, c) => connected[c] # "new"

\* One task at a time is on the UI thread.
UIInv == \A t, u \in Tasks : pc[t] \in {"add", "remove"} /\ pc[u] \in {"add", "remove"} => t = u

\* A task has found no client twice, and whom it has still to add has a row only if the
\* copy of the rows has it.
TaskInv(t) ==
    /\ pc[t] = "filter" =>
          /\ IsInjective(todo[t]) /\ IsInjective(found[t])
          /\ \A c \in Connections : ~(Contains(found[t], c) /\ Contains(todo[t], c))
    /\ pc[t] \in {"invoke", "add"} => IsInjective(found[t])
    /\ pc[t] = "add" =>
          /\ IsInjective(todo[t])
          /\ \A c \in Connections :
                Contains(todo[t], c) /\ Contains(rows, c) => Contains(connList[t], c)

MonInv ==
    /\ MonTypeOK /\ ClientsInv /\ UIInv
    /\ \A t \in Tasks : TaskInv(t)
    /\ IsInjective(rows)


LEMMA EmptyRows ==
    /\ << >> \in Seq(Connections) /\ IsInjective(<< >>)
    /\ \A x : ~Contains(<< >>, x)
BY DEF IsInjective, Contains

LEMMA MonInit == Fresh => MonInv
BY EmptyRows DEF Fresh, MonInv, MonTypeOK, ClientsInv, UIInv, TaskInv, Stages, Tasks

\* A task of which nothing has changed, and the rows have not either unless another task
\* is on the UI thread.
LEMMA TaskUnchanged ==
    ASSUME NEW t \in Tasks, TaskInv(t), UNCHANGED <<pc[t], todo[t], found[t], connList[t]>>,
           rows' = rows \/ pc[t] # "add"
    PROVE  TaskInv(t)'
BY DEF TaskInv

\* The connections come and go.
LEMMA NetworkStep ==
    ASSUME MonInv, NEW c \in Connections, AddClient(c) \/ Lose(c) \/ ServerDisconnect
    PROVE  MonInv'
<1> USE DEF MonInv
<1>1. UNCHANGED <<pc, todo, found, connList, rows>>
      BY DEF AddClient, Lose, ServerDisconnect, tasks
<1>2. UIInv' /\ (\A t \in Tasks : TaskInv(t)') /\ IsInjective(rows)'
      BY <1>1 DEF UIInv, TaskInv
<1>3. CASE AddClient(c)
  <2>1. connected[c] = "new" /\ connected' = [connected EXCEPT ![c] = "up"] /\ clients' = Append(clients, c)
        BY <1>3 DEF AddClient
  <2>2. ~Contains(clients, c)
        BY <2>1 DEF ClientsInv
  <2>3. /\ clients' \in Seq(Connections) /\ IsInjective(clients')
        /\ \A x : Contains(clients', x) <=> Contains(clients, x) \/ x = c
        BY <2>1, <2>2, AppendToInjective DEF MonTypeOK, ClientsInv
  <2>4. connected' \in [Connections -> {"new", "up", "down"}] /\ connected'[c] = "up"
        /\ \A x \in Connections : x # c => connected'[x] = connected[x]
        BY <2>1 DEF MonTypeOK
  <2>5. ClientsInv'
        BY <2>3, <2>4 DEF ClientsInv
  <2> QED BY <1>1, <1>2, <2>3, <2>4, <2>5 DEF MonTypeOK
<1>4. CASE Lose(c)
  <2>1. clients' = clients /\ connected' = [connected EXCEPT ![c] = "down"]
        BY <1>4 DEF Lose
  <2> QED BY <1>1, <1>2, <2>1 DEF MonTypeOK, ClientsInv
<1>5. CASE ServerDisconnect
  <2>1. clients' = << >> /\ connected' = connected
        BY <1>5 DEF ServerDisconnect
  <2> QED BY <1>1, <1>2, <2>1, EmptyRows DEF MonTypeOK, ClientsInv
<1> QED BY <1>3, <1>4, <1>5

\* A step of a task leaves the others alone.
LEMMA OthersUnchanged ==
    ASSUME MonInv, NEW t \in Tasks, MonitorConnections(t)
    PROVE  /\ \A u \in Tasks \ {t} : UNCHANGED <<pc[u], todo[u], found[u], connList[u]>>
           /\ UNCHANGED <<clients, connected>>
BY DEF MonInv, MonTypeOK, MonitorConnections, Start, Test, Filter, Invoke, AddRows, RemoveRows, network

LEMMA TaskStep ==
    ASSUME MonInv, NEW t \in Tasks, MonitorConnections(t)
    PROVE  /\ MonTypeOK' /\ UIInv' /\ TaskInv(t)' /\ IsInjective(rows')
           /\ rows' = rows \/ \A u \in Tasks \ {t} : pc[u] # "add"
<1> USE DEF MonInv
<1>0. MonTypeOK /\ UIInv /\ TaskInv(t) /\ IsInjective(rows) /\ IsInjective(clients)
      BY DEF ClientsInv
<1>1. /\ clients \in Seq(Connections) /\ todo[t] \in Seq(Connections) /\ found[t] \in Seq(Connections)
      /\ connList[t] \in Seq(Connections) /\ rows \in Seq(Connections)
      BY DEF MonTypeOK
<1>2. UNCHANGED <<clients, connected>>
      BY OthersUnchanged
<1>3. CASE Start(t)
  <2>1. /\ pc' = [pc EXCEPT ![t] = IF t \in cancelled THEN "ended" ELSE "test"]
        /\ UNCHANGED <<todo, found, connList, rows>>
        BY <1>3 DEF Start
  <2> QED BY <1>0, <1>2, <2>1 DEF MonTypeOK, UIInv, TaskInv, Stages
<1>4. CASE Test(t)
  <2>0. UNCHANGED <<connList, rows>>
        BY <1>4 DEF Test
  <2>1. CASE pc' = [pc EXCEPT ![t] = "ended"] /\ UNCHANGED <<todo, found>>
        BY <1>0, <1>2, <2>0, <2>1 DEF MonTypeOK, UIInv, TaskInv, Stages
  <2>2. CASE /\ pc' = [pc EXCEPT ![t] = "filter"] /\ todo' = [todo EXCEPT ![t] = clients]
             /\ found' = [found EXCEPT ![t] = << >>]
    <3>1. pc'[t] = "filter" /\ todo'[t] = clients /\ found'[t] = << >>
          BY <1>0, <2>2 DEF MonTypeOK
    <3>2. TaskInv(t)'
          BY <1>0, <3>1, EmptyRows DEF TaskInv
    <3> QED BY <1>0, <1>1, <1>2, <2>0, <2>2, <3>2, EmptyRows DEF MonTypeOK, UIInv, Stages
  <2> QED BY <1>4, <2>1, <2>2 DEF Test
<1>5. CASE Filter(t)
  <2>0. UNCHANGED <<connList, rows>> /\ pc[t] = "filter"
        BY <1>5 DEF Filter
  <2>1. CASE todo[t] = << >>
    <3>1. pc' = [pc EXCEPT ![t] = "invoke"] /\ UNCHANGED <<todo, found>>
          BY <1>5, <2>1 DEF Filter
    <3> QED BY <1>0, <1>2, <2>0, <3>1 DEF MonTypeOK, UIInv, TaskInv, Stages
  <2>2. CASE todo[t] # << >>
    <3>1. /\ todo' = [todo EXCEPT ![t] = Tail(todo[t])] /\ pc' = pc
          /\ found' = [found EXCEPT ![t] =
                IF connected[Head(todo[t])] = "up" THEN Append(found[t], Head(todo[t])) ELSE found[t]]
          BY <1>5, <2>2 DEF Filter
    <3>2. /\ IsInjective(todo[t]) /\ IsInjective(found[t])
          /\ \A c \in Connections : ~(Contains(found[t], c) /\ Contains(todo[t], c))
          BY <1>0, <2>0 DEF TaskInv
    <3>3. PICK h \in Connections : h = Head(todo[t]) /\ Contains(todo[t], h)
          BY <1>1, <2>2, <3>2, TailOfInjective
    <3>4. /\ Tail(todo[t]) \in Seq(Connections) /\ IsInjective(Tail(todo[t]))
          /\ \A x : Contains(Tail(todo[t]), x) <=> Contains(todo[t], x) /\ x # h
          BY <1>1, <2>2, <3>2, <3>3, TailOfInjective
    <3>5. /\ Append(found[t], h) \in Seq(Connections) /\ IsInjective(Append(found[t], h))
          /\ \A x : Contains(Append(found[t], h), x) <=> Contains(found[t], x) \/ x = h
          BY <1>1, <3>2, <3>3, AppendToInjective
    <3>6. todo'[t] = Tail(todo[t]) /\ found'[t] \in {Append(found[t], h), found[t]}
          BY <1>0, <3>1, <3>3 DEF MonTypeOK
    <3>7. TaskInv(t)'
      <4>1. IsInjective(todo'[t]) /\ IsInjective(found'[t])
            BY <3>2, <3>4, <3>5, <3>6
      <4>2. \A c \in Connections : ~(Contains(found'[t], c) /\ Contains(todo'[t], c))
            BY <3>2, <3>4, <3>5, <3>6
      <4> QED BY <2>0, <3>1, <4>1, <4>2 DEF TaskInv
    <3>8. MonTypeOK'
          BY <1>0, <1>1, <1>2, <2>0, <3>1, <3>3, <3>4, <3>5 DEF MonTypeOK
    <3> QED BY <1>0, <2>0, <3>1, <3>7, <3>8 DEF UIInv
  <2> QED BY <2>1, <2>2
<1>6. CASE Invoke(t)
  <2>1. /\ pc[t] = "invoke" /\ (\A u \in Tasks : pc[u] \notin {"add", "remove"})
        /\ pc' = [pc EXCEPT ![t] = "add"] /\ todo' = [todo EXCEPT ![t] = found[t]]
        /\ connList' = [connList EXCEPT ![t] = rows] /\ UNCHANGED <<found, rows>>
        BY <1>6 DEF Invoke, UIFree
  <2>2. pc'[t] = "add" /\ todo'[t] = found[t] /\ connList'[t] = rows
        BY <1>0, <2>1 DEF MonTypeOK
  <2>3. TaskInv(t)'
        BY <1>0, <2>1, <2>2 DEF TaskInv
  <2>4. UIInv'
        BY <1>0, <2>1 DEF UIInv, MonTypeOK
  <2> QED BY <1>0, <1>1, <1>2, <2>1, <2>3, <2>4 DEF MonTypeOK, Stages
<1>7. CASE AddRows(t)
  <2>0. pc[t] = "add" /\ found' = found /\ \A u \in Tasks \ {t} : pc[u] \notin {"add", "remove"}
        BY <1>0, <1>7 DEF AddRows, UIInv
  <2>1. CASE todo[t] = << >>
    <3>1. /\ pc' = [pc EXCEPT ![t] = "remove"] /\ todo' = [todo EXCEPT ![t] = connList[t]]
          /\ connList' = [connList EXCEPT ![t] = << >>] /\ rows' = rows
          BY <1>7, <2>1 DEF AddRows
    <3>2. TaskInv(t)'
          BY <1>0, <3>1 DEF TaskInv, MonTypeOK
    <3>3. UIInv'
          BY <1>0, <2>0, <3>1 DEF UIInv, MonTypeOK
    <3> QED BY <1>0, <1>1, <1>2, <2>0, <3>1, <3>2, <3>3, EmptyRows DEF MonTypeOK, Stages
  <2>2. CASE todo[t] # << >>
    <3>1. /\ todo' = [todo EXCEPT ![t] = Tail(todo[t])] /\ UNCHANGED <<pc, connList>>
          /\ rows' = IF Contains(connList[t], Head(todo[t])) THEN rows ELSE Append(rows, Head(todo[t]))
          BY <1>7, <2>2 DEF AddRows
    <3>2. /\ IsInjective(todo[t]) /\ IsInjective(found[t])
          /\ \A c \in Connections : Contains(todo[t], c) /\ Contains(rows, c) => Contains(connList[t], c)
          BY <1>0, <2>0 DEF TaskInv
    <3>3. PICK h \in Connections : h = Head(todo[t]) /\ Contains(todo[t], h)
          BY <1>1, <2>2, <3>2, TailOfInjective
    <3>4. /\ Tail(todo[t]) \in Seq(Connections) /\ IsInjective(Tail(todo[t]))
          /\ \A x : Contains(Tail(todo[t]), x) <=> Contains(todo[t], x) /\ x # h
          BY <1>1, <2>2, <3>2, <3>3, TailOfInjective
    <3>5. /\ rows' \in Seq(Connections) /\ IsInjective(rows')
          /\ \A x : Contains(rows', x) => Contains(rows, x) \/ x = h
      <4>1. CASE Contains(connList[t], h)
            BY <1>0, <1>1, <3>1, <3>3, <4>1
      <4>2. CASE ~Contains(connList[t], h)
        <5>1. ~Contains(rows, h)
              BY <3>2, <3>3, <4>2
        <5>2. rows' = Append(rows, h)
              BY <3>1, <3>3, <4>2
        <5> QED BY <1>0, <1>1, <5>1, <5>2, AppendToInjective
      <4> QED BY <4>1, <4>2
    <3>6. todo'[t] = Tail(todo[t])
          BY <1>0, <3>1 DEF MonTypeOK
    <3>7. TaskInv(t)'
      <4>1. \A c \in Connections : Contains(todo'[t], c) /\ Contains(rows', c) => Contains(connList[t], c)
            BY <3>2, <3>4, <3>5, <3>6
      <4> QED BY <2>0, <3>1, <3>2, <3>4, <3>6, <4>1 DEF TaskInv
    <3>8. MonTypeOK'
          BY <1>0, <1>2, <2>0, <3>1, <3>4, <3>5 DEF MonTypeOK
    <3> QED BY <1>0, <2>0, <3>1, <3>5, <3>7, <3>8 DEF UIInv
  <2> QED BY <2>1, <2>2
<1>8. CASE RemoveRows(t)
  <2>0. pc[t] = "remove" /\ UNCHANGED <<found, connList>> /\ \A u \in Tasks \ {t} : pc[u] \notin {"add", "remove"}
        BY <1>0, <1>8 DEF RemoveRows, UIInv
  <2>1. CASE todo[t] = << >>
    <3>1. pc' = [pc EXCEPT ![t] = "test"] /\ UNCHANGED <<todo, rows>>
          BY <1>8, <2>1 DEF RemoveRows
    <3> QED BY <1>0, <1>2, <2>0, <3>1 DEF MonTypeOK, UIInv, TaskInv, Stages
  <2>2. CASE todo[t] # << >>
    <3>1. /\ todo' = [todo EXCEPT ![t] = Tail(todo[t])] /\ pc' = pc
          /\ rows' \in {rows, RemoveFirst(rows, Head(todo[t]))}
          BY <1>8, <2>2 DEF RemoveRows
    <3>2. rows' \in Seq(Connections) /\ IsInjective(rows')
          BY <1>0, <1>1, <3>1, RemoveFromInjective
    <3>3. Tail(todo[t]) \in Seq(Connections)
          BY <1>1, <2>2, HeadTailProperties
    <3>4. MonTypeOK'
          BY <1>0, <1>2, <2>0, <3>1, <3>2, <3>3 DEF MonTypeOK
    <3>5. TaskInv(t)'
          BY <2>0, <3>1 DEF TaskInv
    <3> QED BY <1>0, <2>0, <3>1, <3>2, <3>4, <3>5 DEF UIInv
  <2> QED BY <2>1, <2>2
<1> QED BY <1>3, <1>4, <1>5, <1>6, <1>7, <1>8 DEF MonitorConnections

LEMMA MonStep == MonInv /\ [Next]_vars => MonInv'
<1> SUFFICES ASSUME MonInv, [Next]_vars PROVE MonInv'
    OBVIOUS
<1>1. ASSUME NEW c \in Connections, AddClient(c) \/ Lose(c) PROVE MonInv'
      BY <1>1, NetworkStep
<1>2. CASE ServerDisconnect
  <2>1. UNCHANGED <<pc, todo, found, connList, rows, connected>> /\ clients' = << >>
        BY <1>2 DEF ServerDisconnect, tasks
  <2> QED BY <2>1, EmptyRows DEF MonInv, MonTypeOK, ClientsInv, UIInv, TaskInv
<1>3. CASE Loaded
  <2>1. /\ pc' = [pc EXCEPT ![source'] = "queued"]
        /\ UNCHANGED <<clients, connected, todo, found, connList, rows>>
        BY <1>3 DEF Loaded, network
  <2> QED BY <2>1 DEF MonInv, MonTypeOK, ClientsInv, UIInv, TaskInv, Stages
<1>4. CASE Closed \/ UNCHANGED vars
  <2>1. UNCHANGED <<clients, connected, pc, todo, found, connList, rows>>
        BY <1>4 DEF Closed, vars, network, tasks
  <2> QED BY <2>1 DEF MonInv, MonTypeOK, ClientsInv, UIInv, TaskInv
<1>5. ASSUME NEW t \in Tasks, MonitorConnections(t) PROVE MonInv'
  <2>1. /\ MonTypeOK' /\ UIInv' /\ TaskInv(t)' /\ IsInjective(rows')
        /\ rows' = rows \/ \A u \in Tasks \ {t} : pc[u] # "add"
        BY <1>5, TaskStep
  <2>2. /\ \A u \in Tasks \ {t} : UNCHANGED <<pc[u], todo[u], found[u], connList[u]>>
        /\ UNCHANGED <<clients, connected>>
        BY <1>5, OthersUnchanged
  <2>3. \A u \in Tasks \ {t} : TaskInv(u)'
        BY <2>1, <2>2, TaskUnchanged DEF MonInv
  <2>4. ClientsInv'
        BY <2>2 DEF MonInv, ClientsInv
  <2> QED BY <2>1, <2>3, <2>4 DEF MonInv
<1> QED BY <1>1, <1>2, <1>3, <1>4, <1>5 DEF Next


\* A step of another part of the program leaves the rows alone.
LEMMA EditorRunsMonitor == [EditorNext]_<<part, vars, replayVars, pluginVars>> => [Next]_vars
BY DEF EditorNext

\* However many tasks update the list, and from however old copies of the clients, a client
\* has one row.
THEOREM RowsCorrect == EditorSpec => []OneRowPerClient
<1>1. EditorInit => MonInv
      BY MonInit DEF EditorInit
<1>2. MonInv => OneRowPerClient
      BY DEF MonInv, OneRowPerClient
<1> QED BY <1>1, <1>2, MonStep, EditorRunsMonitor, PTL DEF EditorSpec


-----------------------------------------------------------------------------
(* The packets sent once more.                                             *)

ReplayTypeOK ==
    /\ mains \in Seq(Mains)
    /\ ID \in [Mains -> IDs \cup {0}]
    /\ mainConnected \in [Mains -> BOOLEAN]
    /\ Relay \in [Mains -> Nat]
    /\ handshakeComplete \in [Mains -> BOOLEAN]
    /\ relays \in Seq([parent : Mains, connected : BOOLEAN])
    /\ models \in Seq([from : Replaying!Objects, source : {"Client", "Server"}])
    /\ readBuffers \in [Replaying!Objects -> Seq(Nat)]
    /\ sent \in [Replaying!Objects -> Seq(Nat \X {"relayed", "replayed"})]

\* Where there is a connection, a relay or a packet, there is a ClientMain, whose ID stays.
ExistInv ==
    /\ \A c \in Mains : mainConnected[c] => ID[c] # 0
    /\ \A c \in Mains : handshakeComplete[c] => Relay[c] # 0
    /\ \A r \in 1..Len(relays) : ID[relays[r].parent] # 0
    /\ \A n \in 1..Len(models) : ID[models[n].from[1]] # 0

\* A client object has the packets to process that it has received.
ReadInv ==
    \A o \in Replaying!Objects : \A i \in 1..Len(readBuffers[o]) :
        /\ readBuffers[o][i] \in 1..Len(models)
        /\ models[readBuffers[o][i]].from = o

\* Packet n is rightly sent by the client object o.
Due(o, n, how) ==
    /\ n \in 1..Len(models)
    /\ (models[n].from[2] = 0) # (o[2] = 0)
    /\ \/ models[n].from[1] = o[1]
       \/ how = "replayed" /\ o[2] = 0 /\ ID[o[1]] = ID[models[n].from[1]]

SentInv ==
    \A o \in Replaying!Objects : \A i \in 1..Len(sent[o]) : Due(o, sent[o][i][1], sent[o][i][2])

ReplayInv == ReplayTypeOK /\ ExistInv /\ ReadInv /\ SentInv


\* What every step leaves of the packets and the IDs.
Kept ==
    /\ Len(models) <= Len(models') /\ Len(models') \in Nat
    /\ \A n \in 1..Len(models) : models'[n] = models[n]
    /\ \A c \in Mains : ID[c] # 0 => ID'[c] = ID[c]

LEMMA ObjectParts ==
    /\ \A o \in Replaying!Objects : o[1] \in Mains /\ Replaying!MainOf(o[1]) \in Replaying!Objects
    /\ \A c \in Mains : /\ Replaying!MainOf(c) \in Replaying!Objects
                        /\ Replaying!MainOf(c)[1] = c /\ Replaying!MainOf(c)[2] = 0
    /\ \A c, r : Replaying!RelayOf(c, r)[1] = c /\ Replaying!RelayOf(c, r)[2] = r
BY DEF Replaying!Objects, Replaying!MainOf, Replaying!RelayOf

LEMMA KeptOfSame ==
    ASSUME ReplayTypeOK, models' = models, ID' = ID
    PROVE  Kept
BY DEF ReplayTypeOK, Kept

LEMMA IndexKept ==
    ASSUME ReplayInv, Kept
    PROVE  \A n \in 1..Len(models) : n \in 1..Len(models') /\ models'[n] = models[n]
<1>1. Len(models) \in Nat
      BY DEF ReplayInv, ReplayTypeOK
<1> QED BY <1>1 DEF Kept

\* A packet that was rightly sent remains so.
LEMMA DueKept ==
    ASSUME ReplayInv, Kept, NEW o \in Replaying!Objects, NEW n, NEW how, Due(o, n, how)
    PROVE  Due(o, n, how)'
<1>1. n \in 1..Len(models) /\ n \in 1..Len(models')
      BY DEF Due, Kept, ReplayInv, ReplayTypeOK
<1>2. models'[n] = models[n]
      BY <1>1 DEF Kept
<1>3. models[n].from \in Replaying!Objects
  <2>1. models \in Seq([from : Replaying!Objects, source : {"Client", "Server"}])
        BY DEF ReplayInv, ReplayTypeOK
  <2>2. models[n] \in [from : Replaying!Objects, source : {"Client", "Server"}]
        BY <1>1, <2>1, ElementOfSeq
  <2> QED BY <2>2
<1>4. models[n].from[1] \in Mains /\ o[1] \in Mains /\ ID[models[n].from[1]] # 0
      BY <1>1, <1>3, ObjectParts DEF ReplayInv, ExistInv
<1>5. ID[o[1]] = ID[models[n].from[1]] => ID'[o[1]] = ID'[models[n].from[1]]
      BY <1>4 DEF Kept
<1> QED BY <1>1, <1>2, <1>5 DEF Due

LEMMA SentKept == ASSUME ReplayInv, Kept, sent' = sent PROVE SentInv'
<1> SUFFICES ASSUME NEW o \in Replaying!Objects, NEW i \in 1..Len(sent[o])
             PROVE  Due(o, sent[o][i][1], sent[o][i][2])'
    BY DEF SentInv
<1>1. Due(o, sent[o][i][1], sent[o][i][2])
      BY DEF ReplayInv, SentInv
<1> QED BY <1>1, DueKept

\* Send of a packet that is due.
LEMMA SendKept ==
    ASSUME ReplayInv, Kept, NEW p, NEW n \in Nat, NEW how \in {"relayed", "replayed"},
           Replaying!Send(p, n, how), p \in Replaying!Objects => Due(p, n, how)'
    PROVE  SentInv' /\ sent' \in [Replaying!Objects -> Seq(Nat \X {"relayed", "replayed"})]
<1> DEFINE Items == Nat \X {"relayed", "replayed"}
<1>0. sent \in [Replaying!Objects -> Seq(Items)]
      BY DEF ReplayInv, ReplayTypeOK
<1>1. CASE sent' = sent
      BY <1>0, <1>1, SentKept
<1>2. CASE sent' = [sent EXCEPT ![p] = Append(sent[p], <<n, how>>)]
  <2>1. ASSUME NEW o \in Replaying!Objects, o # p PROVE sent'[o] = sent[o]
        BY <1>0, <1>2, <2>1
  <2>2. ASSUME p \in Replaying!Objects
        PROVE  /\ sent'[p] = Append(sent[p], <<n, how>>) /\ sent'[p] \in Seq(Items)
               /\ Len(sent[p]) \in Nat /\ Len(sent'[p]) = Len(sent[p]) + 1
               /\ \A i \in 1..Len(sent[p]) : sent'[p][i] = sent[p][i]
               /\ sent'[p][Len(sent[p]) + 1] = <<n, how>>
    <3>1. sent[p] \in Seq(Items) /\ <<n, how>> \in Items /\ sent'[p] = Append(sent[p], <<n, how>>)
          BY <1>0, <1>2, <2>2
    <3> QED BY <3>1, ElementsOfAppend
  <2>3. sent' \in [Replaying!Objects -> Seq(Items)]
    <3>1. DOMAIN sent' = Replaying!Objects /\ sent' = [o \in Replaying!Objects |-> sent'[o]]
          BY <1>0, <1>2
    <3>2. \A o \in Replaying!Objects : sent'[o] \in Seq(Items)
          BY <1>0, <2>1, <2>2
    <3> QED BY <3>1, <3>2
  <2>4. ASSUME NEW o \in Replaying!Objects, NEW i \in 1..Len(sent'[o])
        PROVE  Due(o, sent[o][i][1], sent[o][i][2])'
    <3>1. PICK e : e = sent'[o][i]
          OBVIOUS
    <3> SUFFICES Due(o, e[1], e[2])'
        BY <3>1 DEF Due
    <3>2. ASSUME i \in 1..Len(sent[o]), e = sent[o][i] PROVE Due(o, e[1], e[2])'
      <4>1. Due(o, e[1], e[2])
            BY <3>2 DEF ReplayInv, SentInv
      <4> QED BY <4>1, DueKept
    <3>3. CASE o # p
          BY <2>1, <3>1, <3>2, <3>3
    <3>4. CASE o = p
      <4>1. i \in 1..Len(sent[p]) \/ i = Len(sent[p]) + 1
            BY <2>2, <3>4
      <4>2. CASE i \in 1..Len(sent[p])
            BY <2>2, <3>1, <3>2, <3>4, <4>2
      <4>3. CASE i = Len(sent[p]) + 1
        <5>1. e[1] = n /\ e[2] = how
              BY <2>2, <3>1, <3>4, <4>3
        <5> QED BY <3>4, <5>1 DEF Due
      <4> QED BY <4>1, <4>2, <4>3
    <3> QED BY <3>3, <3>4
  <2> QED BY <2>3, <2>4 DEF SentInv
<1> QED BY <1>1, <1>2 DEF Replaying!Send

LEMMA ReadKept == ASSUME ReplayInv, Kept, readBuffers' = readBuffers PROVE ReadInv'
<1> SUFFICES ASSUME NEW o \in Replaying!Objects, NEW i \in 1..Len(readBuffers[o])
             PROVE  readBuffers[o][i] \in 1..Len(models') /\ models'[readBuffers[o][i]].from = o
    BY DEF ReadInv
<1>1. readBuffers[o][i] \in 1..Len(models) /\ models[readBuffers[o][i]].from = o
      BY DEF ReplayInv, ReadInv
<1> QED BY <1>1, IndexKept

\* The next packet to process, and the others.
LEMMA TakeKept ==
    ASSUME ReplayInv, Kept, NEW p \in Replaying!Objects, readBuffers[p] # << >>, Replaying!Take(p)
    PROVE  /\ ReadInv' /\ readBuffers' \in [Replaying!Objects -> Seq(Nat)]
           /\ Head(readBuffers[p]) \in 1..Len(models) /\ Head(readBuffers[p]) \in Nat
           /\ models[Head(readBuffers[p])].from = p
           /\ ID[p[1]] # 0
<1>1. /\ readBuffers \in [Replaying!Objects -> Seq(Nat)] /\ readBuffers[p] \in Seq(Nat)
      /\ readBuffers' = [readBuffers EXCEPT ![p] = Tail(readBuffers[p])]
      BY DEF ReplayInv, ReplayTypeOK, Replaying!Take
<1>2. /\ Len(readBuffers[p]) \in Nat /\ Len(readBuffers[p]) > 0 /\ Head(readBuffers[p]) = readBuffers[p][1]
      /\ Tail(readBuffers[p]) \in Seq(Nat) /\ Len(Tail(readBuffers[p])) = Len(readBuffers[p]) - 1
      /\ \A i \in 1..Len(Tail(readBuffers[p])) : Tail(readBuffers[p])[i] = readBuffers[p][i + 1]
      BY <1>1, EmptySeq, HeadTailProperties
<1>3. /\ Head(readBuffers[p]) \in 1..Len(models) /\ models[Head(readBuffers[p])].from = p
      BY <1>2 DEF ReplayInv, ReadInv
<1>4. ID[p[1]] # 0
      BY <1>3 DEF ReplayInv, ExistInv
<1>5. ReadInv'
  <2> SUFFICES ASSUME NEW o \in Replaying!Objects, NEW i \in 1..Len(readBuffers'[o])
               PROVE  /\ readBuffers'[o][i] \in 1..Len(models')
                      /\ models'[readBuffers'[o][i]].from = o
      BY DEF ReadInv
  <2>1. PICK j \in 1..Len(readBuffers[o]) : readBuffers'[o][i] = readBuffers[o][j]
    <3>1. CASE o # p
          BY <1>1, <3>1
    <3>2. CASE o = p
      <4>1. readBuffers'[p] = Tail(readBuffers[p])
            BY <1>1
      <4>2. i + 1 \in 1..Len(readBuffers[p]) /\ readBuffers'[p][i] = readBuffers[p][i + 1]
            BY <1>2, <3>2, <4>1
      <4> QED BY <3>2, <4>2
    <3> QED BY <3>1, <3>2
  <2>2. readBuffers[o][j] \in 1..Len(models) /\ models[readBuffers[o][j]].from = o
        BY DEF ReplayInv, ReadInv
  <2> QED BY <2>1, <2>2, IndexKept
<1>6. readBuffers' \in [Replaying!Objects -> Seq(Nat)]
      BY <1>1, <1>2
<1>7. Head(readBuffers[p]) \in Nat
      BY <1>3
<1> QED BY <1>3, <1>4, <1>5, <1>6, <1>7


LEMMA ReplayInit == Replaying!Init => ReplayInv
<1> SUFFICES ASSUME Replaying!Init PROVE ReplayInv
    OBVIOUS
<1>1. ReplayTypeOK
      BY DEF Replaying!Init, ReplayTypeOK
<1>2. ExistInv
      BY DEF Replaying!Init, ExistInv
<1>3. ReadInv /\ SentInv
      BY DEF Replaying!Init, ReadInv, SentInv
<1> QED BY <1>1, <1>2, <1>3 DEF ReplayInv

\* Only what exists is connected.
LEMMA ConnectedExists ==
    ASSUME ReplayInv, NEW o \in Replaying!Objects, Replaying!Connected(o)
    PROVE  ID[o[1]] # 0
<1>1. o[1] \in Mains
      BY ObjectParts
<1>2. relays \in Seq([parent : Mains, connected : BOOLEAN])
      BY DEF ReplayInv, ReplayTypeOK
<1>3. CASE o[2] = 0
      BY <1>1, <1>3 DEF Replaying!Connected, ReplayInv, ExistInv
<1>4. CASE o[2] # 0
  <2>1. o[2] \in 1..Len(relays) /\ relays[o[2]].parent = o[1]
        BY <1>2, <1>4 DEF Replaying!Connected
  <2> QED BY <2>1 DEF ReplayInv, ExistInv
<1> QED BY <1>3, <1>4

LEMMA ReplayClientsStep ==
    ASSUME ReplayInv, NEW c \in Mains, Replaying!AddClient(c) \/ Replaying!ServerDisconnect
    PROVE  ReplayInv'
<1>1. CASE Replaying!AddClient(c)
  <2>1. PICK n \in IDs : ID' = [ID EXCEPT ![c] = n]
        BY <1>1 DEF Replaying!AddClient
  <2>2. /\ ID[c] = 0 /\ mainConnected' = [mainConnected EXCEPT ![c] = TRUE] /\ mains' = Append(mains, c)
        /\ UNCHANGED <<Relay, handshakeComplete, relays, models, readBuffers, sent>>
        BY <1>1 DEF Replaying!AddClient
  <2>3. ReplayTypeOK
        BY DEF ReplayInv
  <2>4. n # 0 /\ ID'[c] = n /\ \A d \in Mains : d # c => ID'[d] = ID[d]
        BY <2>1, <2>3, RandomAssumption DEF ReplayTypeOK
  <2>5. \A d \in Mains : ID[d] # 0 => ID'[d] = ID[d]
        BY <2>2, <2>4
  <2>6. Kept
        BY <2>2, <2>3, <2>5 DEF Kept, ReplayTypeOK
  <2>7. ReadInv' /\ SentInv'
        BY <2>2, <2>6, ReadKept, SentKept
  <2>8. ReplayTypeOK'
    <3>1. Append(mains, c) \in Seq(Mains)
          BY <2>3, ElementsOfAppend DEF ReplayTypeOK
    <3> QED BY <2>1, <2>2, <2>3, <3>1 DEF ReplayTypeOK
  <2>9. ExistInv'
    <3>1. /\ \A r \in 1..Len(relays) : relays[r].parent \in Mains
          /\ \A k \in 1..Len(models) : models[k].from[1] \in Mains
      <4>1. /\ relays \in Seq([parent : Mains, connected : BOOLEAN])
            /\ models \in Seq([from : Replaying!Objects, source : {"Client", "Server"}])
            BY <2>3 DEF ReplayTypeOK
      <4>2. \A r \in 1..Len(relays) : relays[r] \in [parent : Mains, connected : BOOLEAN]
            BY <4>1, ElementOfSeq
      <4>3. \A k \in 1..Len(models) : models[k] \in [from : Replaying!Objects, source : {"Client", "Server"}]
            BY <4>1, ElementOfSeq
      <4>4. \A k \in 1..Len(models) : models[k].from \in Replaying!Objects
            BY <4>3
      <4> QED BY <4>2, <4>4, ObjectParts
    <3>2. ExistInv
          BY DEF ReplayInv
    <3>3. \A d \in Mains : mainConnected'[d] => mainConnected[d] \/ d = c
          BY <2>2, <2>3 DEF ReplayTypeOK
    <3>4. \A d \in Mains : mainConnected'[d] => ID'[d] # 0
          BY <2>4, <2>5, <3>2, <3>3 DEF ExistInv
    <3>5. /\ \A r \in 1..Len(relays) : ID'[relays[r].parent] # 0
          /\ \A k \in 1..Len(models) : ID'[models[k].from[1]] # 0
          BY <2>5, <3>1, <3>2 DEF ExistInv
    <3> QED BY <2>2, <3>2, <3>4, <3>5 DEF ExistInv
  <2> QED BY <2>7, <2>8, <2>9 DEF ReplayInv
<1>2. CASE Replaying!ServerDisconnect
  <2>1. mains' = << >> /\ UNCHANGED <<ID, mainConnected, Relay, handshakeComplete, relays, models, readBuffers, sent>>
        BY <1>2 DEF Replaying!ServerDisconnect
  <2>2. Kept /\ ReplayTypeOK
        BY <2>1, KeptOfSame DEF ReplayInv
  <2>3. ReadInv' /\ SentInv'
        BY <2>1, <2>2, ReadKept, SentKept
  <2>4. mains' \in Seq(Mains)
        BY <2>1
  <2>5. ReplayTypeOK'
        BY <2>1, <2>2, <2>4 DEF ReplayTypeOK
  <2>6. ExistInv'
        BY <2>1 DEF ExistInv, ReplayInv
  <2> QED BY <2>3, <2>5, <2>6 DEF ReplayInv
<1> QED BY <1>1, <1>2

LEMMA ReplayReceiveStep ==
    ASSUME ReplayInv, NEW o \in Replaying!Objects, NEW local \in BOOLEAN, Replaying!Receive(o, local)
    PROVE  ReplayInv'
<1> DEFINE Models == [from : Replaying!Objects, source : {"Client", "Server"}]
<1>1. PICK m \in Models : m.from = o /\ models' = Append(models, m)
  <2>1. [from |-> o, source |-> IF local THEN "Client" ELSE "Server"] \in Models
        OBVIOUS
  <2> QED BY <2>1 DEF Replaying!Receive
<1>2. /\ readBuffers' = [readBuffers EXCEPT ![o] = Append(readBuffers[o], Len(models) + 1)]
      /\ UNCHANGED <<mains, ID, mainConnected, Relay, handshakeComplete, relays, sent>>
      BY DEF Replaying!Receive, Replaying!objects
<1>3. ReplayTypeOK /\ ExistInv /\ ReadInv
      BY DEF ReplayInv
<1>4. /\ models \in Seq(Models) /\ readBuffers \in [Replaying!Objects -> Seq(Nat)]
      /\ readBuffers[o] \in Seq(Nat)
      BY <1>3 DEF ReplayTypeOK
<1>5. /\ models' \in Seq(Models) /\ Len(models') = Len(models) + 1 /\ Len(models) \in Nat
      /\ \A k \in 1..Len(models) : models'[k] = models[k]
      /\ models'[Len(models) + 1] = m
      BY <1>1, <1>4, ElementsOfAppend
<1> HIDE DEF Models
<1>6. Kept
      BY <1>2, <1>5 DEF Kept
<1>7. SentInv'
      BY <1>2, <1>6, SentKept
<1>8. Len(models) + 1 \in Nat
      BY <1>5
<1>9. /\ readBuffers'[o] = Append(readBuffers[o], Len(models) + 1)
      /\ \A p \in Replaying!Objects : p # o => readBuffers'[p] = readBuffers[p]
      BY <1>2, <1>4
<1>10. /\ readBuffers'[o] \in Seq(Nat) /\ Len(readBuffers[o]) \in Nat
       /\ Len(readBuffers'[o]) = Len(readBuffers[o]) + 1
       /\ \A i \in 1..Len(readBuffers[o]) : readBuffers'[o][i] = readBuffers[o][i]
       /\ readBuffers'[o][Len(readBuffers[o]) + 1] = Len(models) + 1
       BY <1>4, <1>8, <1>9, ElementsOfAppend
<1>11. ReadInv'
  <2> SUFFICES ASSUME NEW p \in Replaying!Objects, NEW i \in 1..Len(readBuffers'[p])
               PROVE  readBuffers'[p][i] \in 1..Len(models') /\ models'[readBuffers'[p][i]].from = p
      BY DEF ReadInv
  <2>1. ASSUME i \in 1..Len(readBuffers[p]), readBuffers'[p][i] = readBuffers[p][i]
        PROVE  readBuffers'[p][i] \in 1..Len(models') /\ models'[readBuffers'[p][i]].from = p
    <3>1. readBuffers[p][i] \in 1..Len(models) /\ models[readBuffers[p][i]].from = p
          BY <1>3, <2>1 DEF ReadInv
    <3> QED BY <1>6, <2>1, <3>1, IndexKept
  <2>2. CASE p # o
        BY <1>9, <2>1, <2>2
  <2>3. CASE p = o
    <3>1. i \in 1..Len(readBuffers[o]) \/ i = Len(readBuffers[o]) + 1
          BY <1>10, <2>3
    <3>2. CASE i \in 1..Len(readBuffers[o])
          BY <1>10, <2>1, <2>3, <3>2
    <3>3. CASE i = Len(readBuffers[o]) + 1
      <4>1. readBuffers'[p][i] = Len(models) + 1 /\ Len(models) + 1 \in 1..Len(models')
            BY <1>5, <1>10, <2>3, <3>3
      <4> QED BY <1>1, <1>5, <2>3, <4>1
    <3> QED BY <3>1, <3>2, <3>3
  <2> QED BY <2>2, <2>3
<1>12. readBuffers' \in [Replaying!Objects -> Seq(Nat)]
  <2>1. DOMAIN readBuffers' = Replaying!Objects /\ readBuffers' = [p \in Replaying!Objects |-> readBuffers'[p]]
        BY <1>2, <1>4
  <2> QED BY <1>4, <1>9, <1>10, <2>1
<1>13. ReplayTypeOK'
       BY <1>2, <1>3, <1>5, <1>12 DEF ReplayTypeOK, Models
<1>14. ExistInv'
  <2>1. ID[o[1]] # 0
        BY ConnectedExists DEF Replaying!Receive
  <2>2. ASSUME NEW k \in 1..Len(models') PROVE ID[models'[k].from[1]] # 0
    <3>1. k \in 1..Len(models) \/ k = Len(models) + 1
          BY <1>5
    <3> QED BY <1>1, <1>3, <1>5, <2>1, <3>1 DEF ExistInv
  <2> QED BY <1>2, <1>3, <2>2 DEF ExistInv
<1> QED BY <1>7, <1>11, <1>13, <1>14 DEF ReplayInv

LEMMA ReplayRelayStep ==
    ASSUME ReplayInv, NEW c \in Mains, NEW up \in BOOLEAN, Replaying!ConnectRelay(c, up)
    PROVE  ReplayInv'
<1> DEFINE Relays == [parent : Mains, connected : BOOLEAN]
<1>1. PICK r \in Relays : r.parent = c /\ relays' = Append(relays, r)
  <2>1. [parent |-> c, connected |-> up] \in Relays
        OBVIOUS
  <2> QED BY <2>1 DEF Replaying!ConnectRelay
<1>2. /\ readBuffers[Replaying!MainOf(c)] # << >> /\ Replaying!Take(Replaying!MainOf(c))
      /\ Relay' = [Relay EXCEPT ![c] = Len(relays) + 1]
      /\ handshakeComplete' = [handshakeComplete EXCEPT ![c] = up]
      /\ UNCHANGED <<mains, ID, mainConnected, models, sent>>
      BY DEF Replaying!ConnectRelay
<1>3. ReplayTypeOK /\ ExistInv
      BY DEF ReplayInv
<1>4. Kept
      BY <1>2, <1>3, KeptOfSame
<1>5. ReadInv' /\ readBuffers' \in [Replaying!Objects -> Seq(Nat)] /\ ID[c] # 0
  <2>1. PICK p \in Replaying!Objects : p = Replaying!MainOf(c) /\ p[1] = c
        BY ObjectParts
  <2>2. ReadInv' /\ readBuffers' \in [Replaying!Objects -> Seq(Nat)] /\ ID[p[1]] # 0
        BY <1>2, <1>4, <2>1, TakeKept
  <2> QED BY <2>1, <2>2
<1>6. SentInv'
      BY <1>2, <1>4, SentKept
<1>7. /\ relays' \in Seq(Relays) /\ Len(relays') = Len(relays) + 1 /\ Len(relays) \in Nat
      /\ \A k \in 1..Len(relays) : relays'[k] = relays[k]
      /\ relays'[Len(relays) + 1] = r
      BY <1>1, <1>3, ElementsOfAppend DEF ReplayTypeOK
<1> HIDE DEF Relays
<1>8. ReplayTypeOK'
      BY <1>2, <1>3, <1>5, <1>7 DEF ReplayTypeOK, Relays
<1>9. ExistInv'
  <2>1. \A d \in Mains : handshakeComplete'[d] => Relay'[d] # 0
        BY <1>2, <1>3, <1>7 DEF ExistInv, ReplayTypeOK
  <2>2. ASSUME NEW k \in 1..Len(relays') PROVE ID[relays'[k].parent] # 0
    <3>1. k \in 1..Len(relays) \/ k = Len(relays) + 1
          BY <1>7
    <3> QED BY <1>1, <1>3, <1>5, <1>7, <3>1 DEF ExistInv
  <2> QED BY <1>2, <1>3, <2>1, <2>2 DEF ExistInv
<1> QED BY <1>5, <1>6, <1>8, <1>9 DEF ReplayInv

LEMMA ReplayProcessStep ==
    ASSUME ReplayInv,
           \/ \E c \in Mains : Replaying!Forward(c)
           \/ \E o \in Replaying!Objects : Replaying!Answer(o)
    PROVE  ReplayInv'
<1>0. ReplayTypeOK /\ ExistInv
      BY DEF ReplayInv
<1>1. ASSUME NEW c \in Mains, Replaying!Forward(c) PROVE ReplayInv'
  <2>1. /\ readBuffers[Replaying!MainOf(c)] # << >> /\ Replaying!Take(Replaying!MainOf(c))
        /\ handshakeComplete[c] /\ UNCHANGED <<mains, ID, Relay, handshakeComplete, relays, models>>
        BY <1>1 DEF Replaying!Forward
  <2>2. Kept
        BY <1>0, <2>1, KeptOfSame
  <2>3. PICK n : n = Head(readBuffers[Replaying!MainOf(c)])
        OBVIOUS
  <2>4. /\ ReadInv' /\ readBuffers' \in [Replaying!Objects -> Seq(Nat)]
        /\ n \in 1..Len(models) /\ n \in Nat /\ models[n].from = Replaying!MainOf(c)
        BY <2>1, <2>2, <2>3, TakeKept, ObjectParts
  <2>5. /\ mainConnected' \in [Mains -> BOOLEAN]
        /\ \A d \in Mains : mainConnected'[d] => mainConnected[d]
        /\ sent' = sent \/ Replaying!Send(Replaying!Current(c), n, "relayed")
        BY <1>0, <1>1, <2>3 DEF Replaying!Forward, ReplayTypeOK
  <2>6. PICK p : p = Replaying!Current(c)
        OBVIOUS
  <2>7. Due(p, n, "relayed")'
    <3>1. p[1] = c /\ p[2] # 0
          BY <1>0, <2>1, <2>6, ObjectParts DEF Replaying!Current, ExistInv
    <3>2. models'[n].from[1] = c /\ models'[n].from[2] = 0 /\ n \in 1..Len(models')
          BY <2>1, <2>4, ObjectParts
    <3> QED BY <3>1, <3>2 DEF Due
  <2>8. SentInv' /\ sent' \in [Replaying!Objects -> Seq(Nat \X {"relayed", "replayed"})]
    <3>1. CASE sent' = sent
          BY <1>0, <2>2, <3>1, SentKept DEF ReplayTypeOK
    <3>2. CASE Replaying!Send(p, n, "relayed")
          BY <2>2, <2>4, <2>7, <3>2, SendKept
    <3> QED BY <2>5, <2>6, <3>1, <3>2
  <2>9. ReplayTypeOK' /\ ExistInv'
        BY <1>0, <2>1, <2>4, <2>5, <2>8 DEF ReplayTypeOK, ExistInv
  <2> QED BY <2>4, <2>8, <2>9 DEF ReplayInv
<1>2. ASSUME NEW o \in Replaying!Objects, Replaying!Answer(o) PROVE ReplayInv'
  <2>1. /\ o[2] # 0 /\ readBuffers[o] # << >> /\ Replaying!Take(o)
        /\ Replaying!Send(Replaying!MainOf(o[1]), Head(readBuffers[o]), "relayed")
        /\ UNCHANGED <<mains, ID, mainConnected, Relay, handshakeComplete, relays, models>>
        BY <1>2 DEF Replaying!Answer, Replaying!objects
  <2>2. Kept
        BY <1>0, <2>1, KeptOfSame
  <2>3. PICK n, p : n = Head(readBuffers[o]) /\ p = Replaying!MainOf(o[1])
        OBVIOUS
  <2>4. /\ ReadInv' /\ readBuffers' \in [Replaying!Objects -> Seq(Nat)]
        /\ n \in 1..Len(models) /\ n \in Nat /\ models[n].from = o
        BY <2>1, <2>2, <2>3, TakeKept
  <2>5. Due(p, n, "relayed")'
    <3>1. p[1] = o[1] /\ p[2] = 0
          BY <2>3, ObjectParts
    <3> QED BY <2>1, <2>4, <3>1 DEF Due
  <2>6. SentInv' /\ sent' \in [Replaying!Objects -> Seq(Nat \X {"relayed", "replayed"})]
        BY <2>1, <2>2, <2>3, <2>4, <2>5, SendKept
  <2>7. ReplayTypeOK' /\ ExistInv'
        BY <1>0, <2>1, <2>4, <2>6 DEF ReplayTypeOK, ExistInv
  <2> QED BY <2>4, <2>6, <2>7 DEF ReplayInv
<1> QED BY <1>1, <1>2

LEMMA ReplayLoseStep ==
    ASSUME ReplayInv, NEW o \in Replaying!Objects, Replaying!Lose(o)
    PROVE  ReplayInv'
<1>0. ReplayTypeOK /\ ExistInv
      BY DEF ReplayInv
<1>1. UNCHANGED <<mains, ID, Relay, handshakeComplete, models, readBuffers, sent>>
      BY DEF Replaying!Lose
<1>2. ReadInv' /\ SentInv'
      BY <1>0, <1>1, KeptOfSame, ReadKept, SentKept
<1>3. CASE mainConnected' = [mainConnected EXCEPT ![o[1]] = FALSE] /\ relays' = relays
      BY <1>0, <1>1, <1>2, <1>3 DEF ReplayInv, ReplayTypeOK, ExistInv
<1>4. CASE relays' = [relays EXCEPT ![o[2]].connected = FALSE] /\ mainConnected' = mainConnected
  <2>1. relays \in Seq([parent : Mains, connected : BOOLEAN])
        BY <1>0 DEF ReplayTypeOK
  <2>2. relays' \in Seq([parent : Mains, connected : BOOLEAN]) /\ Len(relays') = Len(relays)
    <3> DEFINE Relays == [parent : Mains, connected : BOOLEAN]
    <3>1. relays \in [1..Len(relays) -> Relays] /\ Len(relays) \in Nat
          BY <2>1, LenProperties
    <3>2. relays' \in [1..Len(relays) -> Relays]
          BY <1>4, <3>1
    <3> HIDE DEF Relays
    <3>3. relays' \in Seq(Relays)
          BY <3>1, <3>2
    <3>4. Len(relays') = Len(relays)
          BY <3>1, <3>2
    <3> QED BY <3>3, <3>4 DEF Relays
  <2>3. \A r \in 1..Len(relays) : relays'[r].parent = relays[r].parent
        BY <1>4, <2>1
  <2> QED BY <1>0, <1>1, <1>2, <1>4, <2>2, <2>3 DEF ReplayInv, ReplayTypeOK, ExistInv
<1> QED BY <1>3, <1>4 DEF Replaying!Lose

LEMMA ReplayPacketStep ==
    ASSUME ReplayInv, NEW n \in DOMAIN models, Replaying!SendPacketByModel(n)
    PROVE  ReplayInv'
<1>0. ReplayTypeOK /\ ExistInv /\ ReadInv
      BY DEF ReplayInv
<1>1. UNCHANGED <<mains, ID, mainConnected, Relay, handshakeComplete, relays, models, readBuffers>>
      BY DEF Replaying!SendPacketByModel, Replaying!objects
<1>2. Kept
      BY <1>0, <1>1, KeptOfSame
<1>3. n \in 1..Len(models) /\ n \in Nat
      BY <1>0 DEF ReplayTypeOK
<1>4. PICK p : Replaying!Send(p, n, "replayed") /\ Due(p, n, "replayed")'
  <2>1. CASE \E i \in Replaying!FirstOrDefault(models[n].from[1]) :
                /\ models[n].from[2] # 0
                /\ Replaying!Send(Replaying!MainOf(mains[i]), n, "replayed")
    <3>1. PICK i \in DOMAIN mains : /\ ID[mains[i]] = ID[models[n].from[1]] /\ models[n].from[2] # 0
                                    /\ Replaying!Send(Replaying!MainOf(mains[i]), n, "replayed")
          BY <2>1 DEF Replaying!FirstOrDefault
    <3>2. PICK p : p = Replaying!MainOf(mains[i])
          OBVIOUS
    <3>3. p[1] = mains[i] /\ p[2] = 0
          BY <3>2 DEF Replaying!MainOf
    <3>4. Due(p, n, "replayed")'
          BY <1>1, <1>3, <3>1, <3>3 DEF Due
    <3> QED BY <3>1, <3>2, <3>4
  <2>2. CASE /\ models[n].from[2] = 0 /\ Relay[models[n].from[1]] # 0
             /\ Replaying!Send(Replaying!Current(models[n].from[1]), n, "replayed")
    <3>1. PICK p : p = Replaying!Current(models[n].from[1])
          OBVIOUS
    <3>2. p[1] = models[n].from[1] /\ p[2] # 0
          BY <2>2, <3>1 DEF Replaying!Current, Replaying!RelayOf
    <3>3. Due(p, n, "replayed")'
          BY <1>1, <1>3, <2>2, <3>2 DEF Due
    <3> QED BY <2>2, <3>1, <3>3
  <2> QED BY <2>1, <2>2 DEF Replaying!SendPacketByModel
<1>5. SentInv' /\ sent' \in [Replaying!Objects -> Seq(Nat \X {"relayed", "replayed"})]
      BY <1>2, <1>3, <1>4, SendKept
<1>6. ReadInv' /\ ReplayTypeOK' /\ ExistInv'
      BY <1>0, <1>1, <1>2, <1>5, ReadKept DEF ReplayTypeOK, ExistInv
<1> QED BY <1>5, <1>6 DEF ReplayInv


LEMMA ReplayStep == ReplayInv /\ [Replaying!Next]_(Replaying!vars) => ReplayInv'
<1> SUFFICES ASSUME ReplayInv, [Replaying!Next]_(Replaying!vars) PROVE ReplayInv'
    OBVIOUS
<1>1. CASE UNCHANGED Replaying!vars
  <2>1. UNCHANGED <<mains, ID, mainConnected, Relay, handshakeComplete, relays, models, readBuffers, sent>>
        BY <1>1 DEF Replaying!vars, Replaying!objects
  <2>2. ReadInv' /\ SentInv'
        BY <2>1, KeptOfSame, ReadKept, SentKept DEF ReplayInv
  <2> QED BY <2>1, <2>2 DEF ReplayInv, ReplayTypeOK, ExistInv
<1>2. ASSUME NEW c \in Mains, Replaying!AddClient(c) PROVE ReplayInv'
      BY <1>2, ReplayClientsStep
<1>3. CASE Replaying!ServerDisconnect
  <2>1. PICK c \in Mains : TRUE
    <3>1. mains # << >> /\ mains \in Seq(Mains)
          BY <1>3 DEF Replaying!ServerDisconnect, ReplayInv, ReplayTypeOK
    <3> QED BY <3>1
  <2> QED BY <1>3, <2>1, ReplayClientsStep
<1>4. ASSUME NEW o \in Replaying!Objects, NEW local \in BOOLEAN, Replaying!Receive(o, local) PROVE ReplayInv'
      BY <1>4, ReplayReceiveStep
<1>5. ASSUME NEW c \in Mains, NEW up \in BOOLEAN, Replaying!ConnectRelay(c, up) PROVE ReplayInv'
      BY <1>5, ReplayRelayStep
<1>6. ASSUME NEW o \in Replaying!Objects, Replaying!Lose(o) PROVE ReplayInv'
      BY <1>6, ReplayLoseStep
<1>7. CASE Replaying!ReplayPacket
      BY <1>7, ReplayPacketStep DEF Replaying!ReplayPacket
<1>8. ASSUME \/ \E c \in Mains : Replaying!Forward(c)
             \/ \E o \in Replaying!Objects : Replaying!Answer(o)
      PROVE  ReplayInv'
      BY <1>8, ReplayProcessStep
<1> QED BY <1>1, <1>2, <1>3, <1>4, <1>5, <1>6, <1>7, <1>8 DEF Replaying!Next

LEMMA EditorRunsReplay ==
    [EditorNext]_<<part, vars, replayVars, pluginVars>> => [Replaying!Next]_(Replaying!vars)
BY DEF EditorNext, replayVars, Replaying!vars, Replaying!objects

\* However many clients, relays and packets: what is relayed stays in its connection, and
\* what the user sends once more goes to the other side of a connection with the same ID.
THEOREM ReplayCorrect == EditorSpec => []StaysInConnection
<1>1. EditorInit => ReplayInv
      BY ReplayInit DEF EditorInit
<1>2. ASSUME ReplayInv PROVE StaysInConnection
  <2> SUFFICES ASSUME NEW o \in Replaying!Objects, NEW i \in DOMAIN sent[o]
               PROVE  LET n == sent[o][i][1] IN
                      /\ (models[n].from[2] = 0) # (o[2] = 0)
                      /\ \/ models[n].from[1] = o[1]
                         \/ sent[o][i][2] = "replayed" /\ o[2] = 0 /\ ID[o[1]] = ID[models[n].from[1]]
      BY DEF StaysInConnection, Replaying!StaysInConnection, Replaying!From
  <2>1. i \in 1..Len(sent[o])
        BY <1>2 DEF ReplayInv, ReplayTypeOK
  <2>2. Due(o, sent[o][i][1], sent[o][i][2])
        BY <1>2, <2>1 DEF ReplayInv, SentInv
  <2> QED BY <2>2 DEF Due
<1> QED BY <1>1, <1>2, ReplayStep, EditorRunsReplay, PTL DEF EditorSpec


-----------------------------------------------------------------------------
(* The plugins that are listed.                                            *)

\* The list as the loads have made it: what the last one found and listed is pluginsList.
PluginsInv ==
    /\ items \in Seq(Files) /\ pluginsList \subseteq Files
    /\ foundBy \in Seq(SUBSET Files) /\ listedAt \in Seq(Nat)
    /\ Len(listedAt) = Len(items)
    /\ \A i \in 1..Len(items) : listedAt[i] \in 1..Len(foundBy) /\ items[i] \in foundBy[listedAt[i]]
    /\ \A i \in 1..Len(items) : listedAt[i] = Len(foundBy) => items[i] \in pluginsList
    /\ \A p \in pluginsList : \E i \in 1..Len(items) : items[i] = p /\ listedAt[i] = Len(foundBy)
    /\ \A i, j \in 1..Len(items) : i < j /\ items[i] = items[j] => listedAt[i] + 1 < listedAt[j]
    /\ \A n \in 1..Len(foundBy) : \A p \in foundBy[n] :
          \E i \in 1..Len(items) : items[i] = p /\ listedAt[i] \in {n - 1, n}

\* The Cardinality that Plugins reaches is the one of this module.
LEMMA SameCardinality == \A S : Plugged!Cardinality(S) = Cardinality(S)
BY DEF Plugged!Cardinality, Cardinality

\* A set as a sequence has each of its elements in one place, and nothing else.
LEMMA SetToSeqPlaces ==
    ASSUME NEW S, IsFiniteSet(S)
    PROVE  /\ Plugged!SetToSeq(S) \in Seq(S)
           /\ \A i, j \in 1..Len(Plugged!SetToSeq(S)) :
                 Plugged!SetToSeq(S)[i] = Plugged!SetToSeq(S)[j] => i = j
           /\ \A p \in S : \E i \in 1..Len(Plugged!SetToSeq(S)) : Plugged!SetToSeq(S)[i] = p
<1> DEFINE f == Plugged!SetToSeq(S)
           n == Cardinality(S)
<1>1. n \in Nat /\ ExistsBijection(1..n, S)
      BY FS_CardinalityType
<1>2. PICK g \in [1..n -> S] : \A i, j \in 1..n : g[i] = g[j] => i = j
      BY <1>1 DEF ExistsBijection, Bijection, Injection, IsInjective
<1>3. Plugged!IsInjective(g)
      BY <1>2 DEF Plugged!IsInjective
<1>4. f \in [1..n -> S] /\ Plugged!IsInjective(f)
  <2>1. f = CHOOSE h \in [1..n -> S] : Plugged!IsInjective(h)
        BY SameCardinality DEF Plugged!SetToSeq
  <2>2. \E h \in [1..n -> S] : Plugged!IsInjective(h)
        BY <1>2, <1>3
  <2> HIDE DEF f, n
  <2> QED BY <2>1, <2>2
<1> HIDE DEF f
<1>5. f \in Seq(S) /\ Len(f) = n
      BY <1>1, <1>4
<1>6. \A i, j \in 1..n : f[i] = f[j] => i = j
      BY <1>4 DEF Plugged!IsInjective
<1>7. \A p \in S : \E i \in 1..n : f[i] = p
  <2>1. f \in Injection(1..n, S)
        BY <1>4, <1>6 DEF Injection, IsInjective
  <2>2. Cardinality(1..n) = n
        BY <1>1, FS_Interval
  <2>3. f \in Surjection(1..n, S)
        BY <2>1, <2>2, FS_Injection
  <2> QED BY <2>3 DEF Surjection
<1> QED BY <1>5, <1>6, <1>7 DEF f

LEMMA PluginsInit == Plugged!Init => PluginsInv
<1> SUFFICES ASSUME Plugged!Init PROVE PluginsInv
    OBVIOUS
<1>1. items = << >> /\ pluginsList = {} /\ foundBy = << >> /\ listedAt = << >>
      BY DEF Plugged!Init
<1>2. << >> \in Seq(Files) /\ << >> \in Seq(Nat) /\ << >> \in Seq(SUBSET Files) /\ Len(<< >>) = 0
      BY EmptySeq
<1> QED BY <1>1, <1>2 DEF PluginsInv

\* Where the elements of a concatenation come from.
LEMMA ConcatAt ==
    ASSUME NEW S, NEW s \in Seq(S), NEW u \in Seq(S)
    PROVE  /\ s \o u \in Seq(S) /\ Len(s \o u) = Len(s) + Len(u)
           /\ \A i \in 1..Len(s) : (s \o u)[i] = s[i]
           /\ \A i \in 1..Len(u) : (s \o u)[Len(s) + i] = u[i]
<1>1. /\ s \o u \in Seq(S) /\ Len(s \o u) = Len(s) + Len(u)
      /\ \A i \in 1 .. Len(s) + Len(u) : (s \o u)[i] = IF i <= Len(s) THEN s[i] ELSE u[i - Len(s)]
      BY ConcatProperties
<1>2. Len(s) \in Nat /\ Len(u) \in Nat
      BY LenProperties
<1> QED BY <1>1, <1>2

\* A load that lists u, whose files were found and are not in what the last one listed.
LEMMA PluginsLoad ==
    ASSUME PluginsInv, NEW valid \in SUBSET Files, NEW u, NEW s, NEW a, NEW f,
           u \in Seq(Files), \A i, j \in 1..Len(u) : u[i] = u[j] => i = j,
           \A i \in 1..Len(u) : u[i] \in valid /\ u[i] \notin pluginsList,
           \A p \in valid \ pluginsList : \E i \in 1..Len(u) : u[i] = p,
           items' = s, listedAt' = a, foundBy' = f, pluginsList' = valid \ pluginsList,
           s = items \o u, f = Append(foundBy, valid),
           a = listedAt \o [i \in 1..Len(u) |-> Len(foundBy) + 1]
    PROVE  PluginsInv'
<1> DEFINE m == Len(items)
           n == Len(foundBy)
           k == Len(u)
           c == [i \in 1..k |-> n + 1]
<1>1. m \in Nat /\ n \in Nat /\ k \in Nat
      BY DEF PluginsInv
<1>2. /\ s \in Seq(Files) /\ Len(s) = m + k
      /\ \A i \in 1..m : s[i] = items[i]
      /\ \A i \in 1..k : s[m + i] = u[i]
  <2>1. items \in Seq(Files) /\ u \in Seq(Files)
        BY DEF PluginsInv
  <2> QED BY <2>1, ConcatAt
<1>3. c \in Seq(Nat) /\ Len(c) = k /\ \A i \in 1..k : c[i] = n + 1
      BY <1>1
<1>4. /\ a \in Seq(Nat) /\ Len(a) = m + k
      /\ \A i \in 1..m : a[i] = listedAt[i]
      /\ \A i \in 1..k : a[m + i] = n + 1
  <2>1. listedAt \in Seq(Nat) /\ Len(listedAt) = m
        BY DEF PluginsInv
  <2>2. PICK d : d = c
        OBVIOUS
  <2>3. d \in Seq(Nat) /\ Len(d) = k /\ \A i \in 1..k : d[i] = n + 1
        BY <1>3, <2>2
  <2>4. a = listedAt \o d
        BY <2>2
  <2>5. /\ listedAt \o d \in Seq(Nat) /\ Len(listedAt \o d) = Len(listedAt) + Len(d)
        /\ \A i \in 1..Len(listedAt) : (listedAt \o d)[i] = listedAt[i]
        /\ \A i \in 1..Len(d) : (listedAt \o d)[Len(listedAt) + i] = d[i]
    <3>1. PICK b : b = listedAt /\ b \in Seq(Nat)
          BY <2>1
    <3>2. d \in Seq(Nat)
          BY <2>3
    <3>3. /\ b \o d \in Seq(Nat) /\ Len(b \o d) = Len(b) + Len(d)
          /\ \A i \in 1..Len(b) : (b \o d)[i] = b[i]
          /\ \A i \in 1..Len(d) : (b \o d)[Len(b) + i] = d[i]
          BY ONLY <3>1, <3>2, ConcatAt
    <3> QED BY <3>1, <3>3
  <2> HIDE DEF c, m, n, k
  <2> QED BY <2>1, <2>3, <2>4, <2>5
<1>5. /\ f \in Seq(SUBSET Files) /\ Len(f) = n + 1
      /\ \A i \in 1..n : f[i] = foundBy[i]
      /\ f[n + 1] = valid
      BY AppendProperties DEF PluginsInv
<1>6. \A i \in 1..(m + k) : i \in 1..m \/ \E h \in 1..k : i = m + h
  <2> SUFFICES ASSUME NEW i \in 1..(m + k), i \notin 1..m PROVE \E h \in 1..k : i = m + h
      OBVIOUS
  <2>1. i - m \in 1..k /\ i = m + (i - m)
        BY <1>1
  <2> QED BY <2>1
<1>7. \A i \in 1..m : i \in 1..(m + k)
      BY <1>1
<1>8. \A h \in 1..k : m + h \in 1..(m + k)
      BY <1>1
<1> HIDE DEF c, m, n, k
<1>9. /\ \A i \in 1..m : listedAt[i] \in 1..n /\ items[i] \in foundBy[listedAt[i]]
      /\ \A i \in 1..m : listedAt[i] = n => items[i] \in pluginsList
      /\ \A p \in pluginsList : \E i \in 1..m : items[i] = p /\ listedAt[i] = n
      /\ \A i, j \in 1..m : i < j /\ items[i] = items[j] => listedAt[i] + 1 < listedAt[j]
      /\ \A x \in 1..n : \A p \in foundBy[x] : \E i \in 1..m : items[i] = p /\ listedAt[i] \in {x - 1, x}
      BY DEF PluginsInv, m, n
<1>10. \A i \in 1..(m + k) : a[i] \in 1..(n + 1) /\ s[i] \in f[a[i]]
  <2> SUFFICES ASSUME NEW i \in 1..(m + k) PROVE a[i] \in 1..(n + 1) /\ s[i] \in f[a[i]]
      OBVIOUS
  <2>1. CASE i \in 1..m
        BY <1>1, <1>2, <1>4, <1>5, <1>9, <2>1
  <2>2. ASSUME NEW h \in 1..k, i = m + h PROVE a[i] \in 1..(n + 1) /\ s[i] \in f[a[i]]
    <3>1. a[i] = n + 1 /\ s[i] = u[h] /\ u[h] \in valid
          BY <1>2, <1>4, <2>2 DEF k
    <3>2. n + 1 \in 1..(n + 1)
          BY <1>1
    <3>3. s[i] \in f[n + 1]
          BY <1>5, <3>1
    <3> QED BY <3>1, <3>2, <3>3
  <2> QED BY <1>6, <2>1, <2>2
<1>11. \A i \in 1..(m + k) : a[i] = n + 1 => s[i] \in valid \ pluginsList
  <2> SUFFICES ASSUME NEW i \in 1..(m + k), a[i] = n + 1 PROVE s[i] \in valid \ pluginsList
      OBVIOUS
  <2>1. i \notin 1..m
        BY <1>1, <1>4, <1>9
  <2>2. PICK h \in 1..k : i = m + h
        BY <1>6, <2>1
  <2> QED BY <1>2, <2>2 DEF k
<1>12. \A p \in valid \ pluginsList : \E i \in 1..(m + k) : s[i] = p /\ a[i] = n + 1
  <2> SUFFICES ASSUME NEW p \in valid \ pluginsList PROVE \E i \in 1..(m + k) : s[i] = p /\ a[i] = n + 1
      OBVIOUS
  <2>1. PICK h \in 1..k : u[h] = p
        BY DEF k
  <2> QED BY <1>2, <1>4, <1>8, <2>1
<1>13. \A i, j \in 1..(m + k) : i < j /\ s[i] = s[j] => a[i] + 1 < a[j]
  <2> SUFFICES ASSUME NEW i \in 1..(m + k), NEW j \in 1..(m + k), i < j, s[i] = s[j]
               PROVE  a[i] + 1 < a[j]
      OBVIOUS
  <2>1. CASE j \in 1..m
    <3>1. i \in 1..m
          BY <1>1, <2>1
    <3> QED BY <1>2, <1>4, <1>9, <2>1, <3>1
  <2>2. ASSUME NEW g \in 1..k, j = m + g PROVE a[i] + 1 < a[j]
    <3>1. s[j] = u[g] /\ a[j] = n + 1 /\ u[g] \notin pluginsList
          BY <1>2, <1>4, <2>2 DEF k
    <3>2. CASE i \in 1..m
      <4>1. s[i] = items[i] /\ a[i] = listedAt[i] /\ listedAt[i] \in 1..n
            BY <1>2, <1>4, <1>9, <3>2
      <4>2. listedAt[i] # n
            BY <1>9, <3>1, <3>2, <4>1
      <4>3. PICK v : v = listedAt[i]
            OBVIOUS
      <4>4. v \in 1..n /\ v # n
            BY <4>1, <4>2, <4>3
      <4>5. v + 1 < n + 1
            BY <1>1, <4>4
      <4> QED BY <3>1, <4>1, <4>3, <4>5
    <3>3. ASSUME NEW h \in 1..k, i = m + h PROVE FALSE
      <4>1. u[h] = u[g]
            BY <1>2, <3>1, <3>3
      <4>2. h = g
            BY <4>1 DEF k
      <4> QED BY <1>1, <2>2, <3>3, <4>2
    <3> QED BY <1>6, <3>2, <3>3
  <2> QED BY <1>6, <2>1, <2>2
<1>14. \A x \in 1..(n + 1) : \A p \in f[x] : \E i \in 1..(m + k) : s[i] = p /\ a[i] \in {x - 1, x}
  <2> SUFFICES ASSUME NEW x \in 1..(n + 1), NEW p \in f[x]
               PROVE  \E i \in 1..(m + k) : s[i] = p /\ a[i] \in {x - 1, x}
      OBVIOUS
  <2>1. CASE x \in 1..n
    <3>1. PICK i \in 1..m : items[i] = p /\ listedAt[i] \in {x - 1, x}
          BY <1>5, <1>9, <2>1
    <3> QED BY <1>2, <1>4, <1>7, <3>1
  <2>2. CASE x = n + 1 /\ p \in pluginsList
    <3>1. PICK i \in 1..m : items[i] = p /\ listedAt[i] = n
          BY <1>9, <2>2
    <3>2. n = x - 1
          BY <1>1, <2>2
    <3> QED BY <1>2, <1>4, <1>7, <3>1, <3>2
  <2>3. CASE x = n + 1 /\ p \notin pluginsList
        BY <1>5, <1>12, <2>3
  <2>4. x \in 1..n \/ x = n + 1
        BY <1>1
  <2> QED BY <2>1, <2>2, <2>3, <2>4
<1>15. pluginsList' \subseteq Files
       OBVIOUS
<1>16. Len(s) = m + k /\ Len(a) = m + k /\ Len(f) = n + 1
       BY <1>2, <1>4, <1>5
<1> QED BY ONLY <1>2, <1>4, <1>5, <1>10, <1>11, <1>12, <1>13, <1>14, <1>15, <1>16,
               items' = s, listedAt' = a, foundBy' = f, pluginsList' = valid \ pluginsList DEF PluginsInv

LEMMA PluginsStep == PluginsInv /\ [Plugged!Next]_(Plugged!vars) => PluginsInv'
<1> SUFFICES ASSUME PluginsInv, [Plugged!Next]_(Plugged!vars) PROVE PluginsInv'
    OBVIOUS
<1>1. CASE Plugged!UpdatePluginsList
  <2>1. PICK valid \in SUBSET Files :
            /\ pluginsList' = valid \ pluginsList
            /\ items' = items \o Plugged!SetToSeq(valid \ pluginsList)
            /\ foundBy' = Append(foundBy, valid)
            /\ listedAt' = listedAt \o [i \in 1..Len(Plugged!SetToSeq(valid \ pluginsList)) |-> Len(foundBy) + 1]
        BY <1>1 DEF Plugged!UpdatePluginsList, Plugged!Fresh
  <2>2. PICK fresh : fresh = valid \ pluginsList
        OBVIOUS
  <2>3. fresh \subseteq Files /\ IsFiniteSet(fresh)
        BY <2>2, FilesAssumption, FS_Subset
  <2>4. PICK u : u = Plugged!SetToSeq(fresh)
        OBVIOUS
  <2>5. /\ u \in Seq(fresh) /\ \A i, j \in 1..Len(u) : u[i] = u[j] => i = j
        /\ \A p \in fresh : \E i \in 1..Len(u) : u[i] = p
        BY <2>3, <2>4, SetToSeqPlaces
  <2>6. u \in Seq(Files) /\ \A i \in 1..Len(u) : u[i] \in fresh
        BY <2>3, <2>5, SeqMonotonic, ElementOfSeq
  <2>7. /\ items' = items \o u /\ foundBy' = Append(foundBy, valid)
        /\ listedAt' = listedAt \o [i \in 1..Len(u) |-> Len(foundBy) + 1]
        BY <2>1, <2>2, <2>4
  <2> QED BY <2>1, <2>2, <2>5, <2>6, <2>7, PluginsLoad
<1>2. CASE UNCHANGED <<pluginsList, items, foundBy, listedAt>>
      BY <1>2 DEF PluginsInv
<1>3. CASE Plugged!SandboxFails
      BY <1>2, <1>3 DEF Plugged!SandboxFails
<1>4. CASE \/ Plugged!Launch \/ Plugged!Stop
           \/ \E t \in Plugged!Threads : Plugged!LoadAssembly(t) \/ Plugged!Aborted(t)
      BY <1>2, <1>4 DEF Plugged!Launch, Plugged!Stop, Plugged!LoadAssembly, Plugged!Aborted,
            Plugged!Create, Plugged!SetLoaded, Plugged!PluginReturns, Plugged!listing
<1>5. CASE UNCHANGED Plugged!vars
      BY <1>2, <1>5 DEF Plugged!vars, Plugged!listing
<1> QED BY <1>1, <1>3, <1>4, <1>5 DEF Plugged!Next

LEMMA EditorRunsPlugins ==
    [EditorNext]_<<part, vars, replayVars, pluginVars>> => [Plugged!Next]_(Plugged!vars)
BY DEF EditorNext, pluginVars, Plugged!vars, Plugged!listing, Plugged!handler

\* Whatever files there are, and however often the window is loaded: no plugin is listed by
\* two loads in a row, and none that two loads in a row have found is left out by both.
THEOREM ListedCorrect == EditorSpec => []ListedEverySecondTime
<1>1. EditorInit => PluginsInv
      BY PluginsInit DEF EditorInit
<1>2. ASSUME PluginsInv PROVE ListedEverySecondTime
  <2>1. DOMAIN items = 1..Len(items) /\ DOMAIN foundBy = 1..Len(foundBy)
        BY <1>2 DEF PluginsInv
  <2> QED BY <1>2, <2>1 DEF PluginsInv, ListedEverySecondTime, Plugged!ListedEverySecondTime
<1> QED BY <1>1, <1>2, PluginsStep, EditorRunsPlugins, PTL DEF EditorSpec

=============================================================================
