---------------------------- MODULE ServersProofs ----------------------------
(***************************************************************************)
(* Theorems about UdpServer, for every set of endpoints and any number of  *)
(* datagrams, and about Server, for every set of connections.              *)
(***************************************************************************)
EXTENDS MCServers, SequenceTheorems, TLAPS

Linking == {"remove", "removeDest", "add", "addDest"}

\* No endpoint of the i-th pair occurs in a later one.
Fresh(i) == \A j \in i + 1 .. Len(asked) : Pair(j) \cap Pair(i) = {}

Linked(i) ==
    /\ Pair(i) \subseteq DOMAIN links
    /\ links[asked[i][1]] = asked[i][2]
    /\ links[asked[i][2]] = asked[i][1]

\* LatestPairLinked, made inductive: while AddLink is at work the pairs before the
\* one at hand are still linked, and AddLink has removed what it is to add.
LinkInv ==
    /\ \A i \in 1..Len(asked) :
          Fresh(i) /\ (worker = "idle" \/ (worker \in Linking /\ i # Len(asked))) => Linked(i)
    /\ worker = "removeDest" => Source \notin DOMAIN links
    /\ worker = "add" => Source \notin DOMAIN links /\ Dest \notin DOMAIN links
    /\ worker = "addDest" =>
          /\ Source \in DOMAIN links /\ links[Source] = Dest
          /\ Dest \in DOMAIN links => Source = Dest

\* What the UI thread is about to send goes to a partner, or back.
ReplayInv == Len(replay) = 2 => replay[1] = replay[2] \/ Paired(replay[1], replay[2])

IInv == TypeOK /\ LinkInv /\ LinksArePairs /\ SentToPartner /\ ReplayInv

-----------------------------------------------------------------------------
LEMMA InitIInv == Init => IInv
<1> SUFFICES ASSUME Init PROVE IInv
    OBVIOUS
<1>1. Len(asked) = 0 /\ Len(sent) = 0 /\ Len(replay) = 0 /\ DOMAIN links = {}
      BY DEF Init
<1>2. TypeOK
  <2>1. asked \in Seq(Peers \X Peers) /\ sent \in Seq(Peers \X Peers)
        BY EmptySeq DEF Init
  <2>2. links \in [DOMAIN links -> Peers]
        BY DEF Init
  <2> QED BY <1>1, <2>1, <2>2 DEF Init, TypeOK
<1>3. LinkInv
      BY <1>1 DEF Init, LinkInv
<1>4. LinksArePairs /\ SentToPartner /\ ReplayInv
      BY <1>1 DEF LinksArePairs, SentToPartner, ReplayInv
<1> QED BY <1>2, <1>3, <1>4 DEF IInv

\* A new request leaves the old ones as they were.
LEMMA AskedGrows ==
    ASSUME asked \in Seq(Peers \X Peers), NEW x \in Peers, NEW y \in Peers,
           asked' = Append(asked, <<x, y>>)
    PROVE  /\ Len(asked') = Len(asked) + 1 /\ Len(asked) \in Nat
           /\ asked' \in Seq(Peers \X Peers) /\ asked' # << >>
           /\ \A i \in 1..Len(asked) : asked'[i] = asked[i] /\ Pair(i)' = Pair(i)
           /\ Source' = x /\ Dest' = y
           /\ \A u, v : Paired(u, v) => Paired(u, v)'
<1>1. /\ Len(asked') = Len(asked) + 1 /\ Len(asked) \in Nat
      /\ asked' \in Seq(Peers \X Peers)
      /\ \A i \in 1..Len(asked) : asked'[i] = asked[i]
      /\ asked'[Len(asked) + 1] = <<x, y>>
      BY AppendProperties, LenProperties
<1>2. asked' # << >>
      BY <1>1
<1>3. \A i \in 1..Len(asked) : Pair(i)' = Pair(i)
      BY <1>1 DEF Pair
<1>4. Source' = x /\ Dest' = y
      BY <1>1 DEF Source, Dest
<1>5. \A u, v : Paired(u, v) => Paired(u, v)'
      BY <1>1, <1>3 DEF Paired
<1> QED BY <1>1, <1>2, <1>3, <1>4, <1>5

\* The pair at hand.
LEMMA AtHand ==
    ASSUME TypeOK, asked # << >>
    PROVE  /\ Source \in Peers /\ Dest \in Peers /\ Len(asked) \in 1..Len(asked) /\ Len(asked) \in Nat
           /\ Pair(Len(asked)) = {Source, Dest}
           /\ Paired(Source, Dest) /\ Paired(Dest, Source)
<1>1. Len(asked) \in Nat /\ Len(asked) > 0 /\ asked[Len(asked)] \in Peers \X Peers
      BY EmptySeq, LenProperties, ElementOfSeq DEF TypeOK
<1>2. Pair(Len(asked)) = {Source, Dest}
      BY DEF Pair, Source, Dest
<1> QED BY <1>1, <1>2 DEF Paired, Source, Dest

LEMMA TypeStep == TypeOK /\ [Next]_vars => TypeOK'
<1> SUFFICES ASSUME TypeOK, [Next]_vars PROVE TypeOK'
    OBVIOUS
<1>1. ASSUME NEW x \in Peers, NEW y \in Peers, LinkPacket(x, y) PROVE TypeOK'
  <2>1. asked' \in Seq(Peers \X Peers) /\ asked' # << >>
        BY <1>1, AskedGrows DEF LinkPacket, TypeOK
  <2> QED BY <1>1, <2>1 DEF LinkPacket, Receive, TypeOK
<1>2. CASE ShortLinkPacket
      BY <1>2 DEF ShortLinkPacket, Receive, TypeOK
<1>3. ASSUME NEW x \in Peers,
             links' = Without(links, x),
             UNCHANGED <<listening, asked, sent, received, replays, replay>>,
             worker \in Linking, worker' \in Linking
      PROVE  TypeOK'
      BY <1>3 DEF Without, TypeOK, Linking
<1>4. ASSUME NEW x \in Peers, NEW y \in Peers,
             links' = With(links, x, y),
             UNCHANGED <<listening, asked, sent, received, replays, replay>>,
             worker \in Linking, worker' \in Linking \cup {"idle"}
      PROVE  TypeOK'
      BY <1>4 DEF With, TypeOK, Linking
<1>5. CASE RemoveSource \/ RemoveDest
      BY <1>3, <1>5, AtHand DEF RemoveSource, RemoveDest, TypeOK, Linking
<1>6. CASE AddSource
      BY <1>4, <1>6, AtHand DEF AddSource, TypeOK, Linking
<1>7. CASE AddDest
  <2>1. CASE Dest \in DOMAIN links
        BY <1>7, <2>1 DEF AddDest, TypeOK
  <2>2. CASE Dest \notin DOMAIN links
        BY <1>4, <1>7, <2>2, AtHand DEF AddDest, TypeOK, Linking
  <2> QED BY <2>1, <2>2
<1>8. ASSUME NEW x \in Peers, DataPacket(x) PROVE TypeOK'
  <2>1. x \in DOMAIN links => Append(sent, <<x, links[x]>>) \in Seq(Peers \X Peers)
        BY AppendProperties DEF TypeOK
  <2>2. sent' \in Seq(Peers \X Peers)
        BY <1>8, <2>1 DEF DataPacket, TypeOK
  <2>3. UNCHANGED <<listening, links, asked, worker, replays, replay>> /\ received' \in Nat
        BY <1>8 DEF DataPacket, Receive, TypeOK
  <2> QED BY <2>2, <2>3 DEF TypeOK
<1>9. CASE StopListening
      BY <1>9 DEF StopListening, TypeOK
<1>10. ASSUME NEW x \in Peers, ReplayTest(x) PROVE TypeOK'
      BY <1>10 DEF ReplayTest, TypeOK
<1>11. CASE ReplayClient \/ ReplayServer
  <2>1. replay[1] \in Peers
        BY <1>11 DEF ReplayClient, ReplayServer, TypeOK
  <2>2. replay[1] \in DOMAIN links => links[replay[1]] \in Peers
        BY DEF TypeOK
  <2> QED BY <1>11, <2>1, <2>2 DEF ReplayClient, ReplayServer, TypeOK
<1>12. CASE ReplaySend
  <2>1. replay \in Peers \X Peers
    <3>1. Len(replay) = 2
          BY <1>12 DEF ReplaySend
    <3>2. replay # << >>
          BY <3>1
    <3>3. \A x \in Peers : Len(<<x>>) = 1
          OBVIOUS
    <3>4. \A x \in Peers : replay # <<x>>
          BY <3>1, <3>3
    <3> QED BY <3>2, <3>4 DEF TypeOK
  <2>2. Append(sent, replay) \in Seq(Peers \X Peers)
        BY <2>1, AppendProperties DEF TypeOK
  <2> QED BY <1>12, <2>2 DEF ReplaySend, TypeOK
<1>13. CASE UNCHANGED vars
      BY <1>13 DEF vars, TypeOK
<1> QED BY <1>1, <1>2, <1>5, <1>6, <1>7, <1>8, <1>9, <1>10, <1>11, <1>12, <1>13
        DEF Next, AsyncRecvProcess, SendPacketByModel

\* A step that touches neither links nor the requests, and starts or ends nothing.
LEMMA LinkFrame ==
    ASSUME LinkInv, UNCHANGED <<links, asked, worker>> PROVE LinkInv'
BY DEF LinkInv, Fresh, Linked, Pair, Source, Dest

\* Pairs that no later one interferes with are not touched by AddLink's steps.
LEMMA UntouchedPairs ==
    ASSUME TypeOK, LinkInv, worker \in Linking, UNCHANGED asked,
           \A z \in DOMAIN links \ {Source, Dest} : z \in DOMAIN links' /\ links'[z] = links[z]
    PROVE  \A i \in 1..Len(asked) : Fresh(i) /\ i # Len(asked) => Linked(i)'
<1> TAKE i \in 1..Len(asked)
<1> SUFFICES ASSUME Fresh(i), i # Len(asked) PROVE Linked(i)'
    OBVIOUS
<1>1. Len(asked) \in Nat /\ asked # << >> /\ Len(asked) \in i + 1 .. Len(asked)
      BY LenProperties, EmptySeq DEF TypeOK, Linking
<1>2. Pair(i) \cap {Source, Dest} = {}
      BY <1>1, AtHand DEF Fresh
<1>3. Linked(i)
      BY DEF LinkInv
<1>4. asked[i][1] \in Pair(i) /\ asked[i][2] \in Pair(i) /\ Pair(i)' = Pair(i)
      BY DEF Pair
<1> QED BY <1>2, <1>3, <1>4 DEF Linked

LEMMA LinkStep == TypeOK /\ LinkInv /\ [Next]_vars => LinkInv'
<1> SUFFICES ASSUME TypeOK, LinkInv, [Next]_vars PROVE LinkInv'
    OBVIOUS
<1>0. worker \in Linking => asked # << >>
      BY DEF TypeOK, Linking
<1>a. UNCHANGED asked => /\ Source' = Source /\ Dest' = Dest
                         /\ \A i \in 1..Len(asked) : Fresh(i)' = Fresh(i)
      BY DEF Source, Dest, Fresh, Pair
<1>1. ASSUME NEW x \in Peers, NEW y \in Peers, LinkPacket(x, y) PROVE LinkInv'
  <2>1. /\ worker = "idle" /\ worker' = "remove" /\ UNCHANGED links
        /\ asked' = Append(asked, <<x, y>>)
        BY <1>1 DEF LinkPacket, Receive
  <2>2. /\ Len(asked') = Len(asked) + 1 /\ Len(asked) \in Nat
        /\ \A i \in 1..Len(asked) : asked'[i] = asked[i] /\ Pair(i)' = Pair(i)
        BY <2>1, AskedGrows DEF TypeOK
  <2>3. ASSUME NEW i \in 1..Len(asked), Fresh(i)' PROVE Linked(i)'
    <3>1. Fresh(i)
          BY <2>2, <2>3 DEF Fresh
    <3>2. Linked(i)
          BY <2>1, <3>1 DEF LinkInv
    <3> QED BY <2>1, <2>2, <3>2 DEF Linked
  <2> QED BY <2>1, <2>2, <2>3 DEF LinkInv
<1>2. CASE worker' = "crash" /\ worker # "crash"
      BY <1>2 DEF LinkInv, Linking
<1>3. CASE RemoveSource
  <2>1. /\ worker = "remove" /\ worker' = "removeDest" /\ UNCHANGED asked
        /\ links' = Without(links, Source)
        BY <1>3 DEF RemoveSource
  <2>2. \A i \in 1..Len(asked) : Fresh(i) /\ i # Len(asked) => Linked(i)'
        BY <2>1, UntouchedPairs DEF Without, Linking
  <2>3. Source \notin DOMAIN links'
        BY <2>1 DEF Without
  <2> QED BY <1>a, <2>1, <2>2, <2>3 DEF LinkInv
<1>4. CASE RemoveDest
  <2>1. /\ worker = "removeDest" /\ worker' = "add" /\ UNCHANGED asked
        /\ links' = Without(links, Dest)
        BY <1>4 DEF RemoveDest
  <2>2. \A i \in 1..Len(asked) : Fresh(i) /\ i # Len(asked) => Linked(i)'
        BY <2>1, UntouchedPairs DEF Without, Linking
  <2>3. Source \notin DOMAIN links' /\ Dest \notin DOMAIN links'
        BY <2>1 DEF Without, LinkInv
  <2> QED BY <1>a, <2>1, <2>2, <2>3 DEF LinkInv
<1>5. CASE AddSource
  <2>1. /\ worker = "add" /\ worker' = "addDest" /\ UNCHANGED asked
        /\ links' = With(links, Source, Dest)
        BY <1>5 DEF AddSource
  <2>2. \A i \in 1..Len(asked) : Fresh(i) /\ i # Len(asked) => Linked(i)'
        BY <2>1, UntouchedPairs DEF With, Linking
  <2>3. /\ Source \in DOMAIN links' /\ links'[Source] = Dest
        /\ Dest \in DOMAIN links' => Source = Dest
        BY <2>1 DEF With, LinkInv
  <2> QED BY <1>a, <2>1, <2>2, <2>3 DEF LinkInv
<1>6. CASE AddDest /\ Dest \notin DOMAIN links
  <2>1. /\ worker = "addDest" /\ worker' = "idle" /\ UNCHANGED asked
        /\ links' = With(links, Dest, Source)
        BY <1>6 DEF AddDest
  <2>2. \A i \in 1..Len(asked) : Fresh(i) /\ i # Len(asked) => Linked(i)'
        BY <2>1, UntouchedPairs DEF With, Linking
  <2>3. Linked(Len(asked))'
    <3>1. Source \in DOMAIN links /\ links[Source] = Dest /\ Source # Dest
          BY <1>6, <2>1 DEF LinkInv
    <3>2. /\ Source \in DOMAIN links' /\ links'[Source] = Dest
          /\ Dest \in DOMAIN links' /\ links'[Dest] = Source
          BY <2>1, <3>1 DEF With
    <3>3. Pair(Len(asked))' = {Source, Dest} /\ asked'[Len(asked')][1] = Source
          /\ asked'[Len(asked')][2] = Dest
          BY <2>1 DEF Pair, Source, Dest
    <3> QED BY <2>1, <3>2, <3>3 DEF Linked
  <2> QED BY <1>a, <2>1, <2>2, <2>3 DEF LinkInv
<1>7. CASE UNCHANGED <<links, asked, worker>>
      BY <1>7, LinkFrame
<1> QED BY <1>1, <1>2, <1>3, <1>4, <1>5, <1>6, <1>7
        DEF Next, AsyncRecvProcess, ShortLinkPacket, Receive, AddDest, DataPacket, StopListening,
            SendPacketByModel, ReplayTest, ReplayClient, ReplayServer, ReplaySend, vars

LEMMA PairedStays == TypeOK /\ [Next]_vars => \A u, v : Paired(u, v) => Paired(u, v)'
<1> SUFFICES ASSUME TypeOK, [Next]_vars PROVE \A u, v : Paired(u, v) => Paired(u, v)'
    OBVIOUS
<1>1. ASSUME NEW x \in Peers, NEW y \in Peers, LinkPacket(x, y)
      PROVE  \A u, v : Paired(u, v) => Paired(u, v)'
      BY <1>1, AskedGrows DEF LinkPacket, TypeOK
<1>2. CASE UNCHANGED asked
      BY <1>2 DEF Paired, Pair
<1> QED BY <1>1, <1>2
        DEF Next, AsyncRecvProcess, ShortLinkPacket, RemoveSource, RemoveDest, AddSource, AddDest,
            DataPacket, StopListening, SendPacketByModel, ReplayTest, ReplayClient, ReplayServer,
            ReplaySend, vars

\* Adding the pair at hand, in either direction.
LEMMA WithStep ==
    ASSUME TypeOK, LinksArePairs, worker \in Linking, UNCHANGED asked,
           links' = With(links, Source, Dest) \/ links' = With(links, Dest, Source)
    PROVE  LinksArePairs'
<1>1. Paired(Source, Dest) /\ Paired(Dest, Source)
      BY AtHand DEF TypeOK, Linking
<1>2. \A x \in DOMAIN links' : Paired(x, links'[x])
      BY <1>1 DEF With, LinksArePairs
<1> QED BY <1>2 DEF LinksArePairs, Paired, Pair

LEMMA PairStep == TypeOK /\ LinksArePairs /\ [Next]_vars => LinksArePairs'
<1> SUFFICES ASSUME TypeOK, LinksArePairs, [Next]_vars PROVE LinksArePairs'
    OBVIOUS
<1>1. CASE RemoveSource \/ RemoveDest
      BY <1>1, PairedStays DEF RemoveSource, RemoveDest, Without, LinksArePairs
<1>2. CASE AddSource
  <2>1. links' = With(links, Source, Dest) /\ worker \in Linking /\ UNCHANGED asked
        BY <1>2 DEF AddSource, Linking
  <2> QED BY <2>1, WithStep
<1>3. CASE AddDest
  <2>1. worker \in Linking /\ (links' = With(links, Dest, Source) \/ links' = links)
        /\ UNCHANGED asked
        BY <1>3 DEF AddDest, Linking
  <2> QED BY <2>1, WithStep, PairedStays DEF LinksArePairs
<1>4. CASE UNCHANGED links
      BY <1>4, PairedStays DEF LinksArePairs
<1> QED BY <1>1, <1>2, <1>3, <1>4
        DEF Next, AsyncRecvProcess, LinkPacket, ShortLinkPacket, DataPacket, StopListening,
            SendPacketByModel, ReplayTest, ReplayClient, ReplayServer, ReplaySend, vars

LEMMA SentStep == IInv /\ [Next]_vars => SentToPartner' /\ ReplayInv'
<1> SUFFICES ASSUME IInv, [Next]_vars PROVE SentToPartner' /\ ReplayInv'
    OBVIOUS
<1>0. TypeOK /\ LinksArePairs /\ SentToPartner /\ ReplayInv
      BY DEF IInv
<1>1. ASSUME NEW p \in Peers \X Peers, p[1] = p[2] \/ Paired(p[1], p[2]), sent' = Append(sent, p)
      PROVE  SentToPartner'
  <2>1. /\ Len(sent') = Len(sent) + 1 /\ Len(sent) \in Nat /\ sent'[Len(sent) + 1] = p
        /\ \A k \in 1..Len(sent) : sent'[k] = sent[k]
        BY <1>0, <1>1, AppendProperties, LenProperties DEF TypeOK
  <2>2. SUFFICES ASSUME NEW k \in 1..Len(sent')
                 PROVE  (sent[k][1] = sent[k][2] \/ Paired(sent[k][1], sent[k][2]))'
        BY DEF SentToPartner
  <2>3. CASE k = Len(sent) + 1
    <3>1. p[1] = p[2] \/ Paired(p[1], p[2])'
          BY <1>0, <1>1, PairedStays
    <3> QED BY <2>1, <2>3, <3>1
  <2>4. CASE k \in 1..Len(sent)
    <3>1. PICK q : q = sent[k]
          OBVIOUS
    <3>2. q[1] = q[2] \/ Paired(q[1], q[2])
          BY <1>0, <2>4, <3>1 DEF SentToPartner
    <3>3. q[1] = q[2] \/ Paired(q[1], q[2])'
          BY <1>0, <3>2, PairedStays
    <3>4. sent'[k] = q
          BY <2>1, <2>4, <3>1
    <3> QED BY <3>3, <3>4
  <2> QED BY <2>1, <2>2, <2>3, <2>4
<1>2. UNCHANGED sent => SentToPartner'
      BY <1>0, PairedStays DEF SentToPartner
<1>3. UNCHANGED replay => ReplayInv'
      BY <1>0, PairedStays DEF ReplayInv
<1>4. ASSUME NEW x \in Peers, DataPacket(x) PROVE SentToPartner' /\ ReplayInv'
  <2>1. x \in DOMAIN links => <<x, links[x]>> \in Peers \X Peers /\ Paired(x, links[x])
        BY <1>0 DEF TypeOK, LinksArePairs
  <2>2. UNCHANGED replay /\ (UNCHANGED sent \/ (x \in DOMAIN links /\ sent' = Append(sent, <<x, links[x]>>)))
        BY <1>4 DEF DataPacket
  <2> QED BY <1>1, <1>2, <1>3, <2>1, <2>2
<1>5. ASSUME NEW x \in Peers, ReplayTest(x) PROVE SentToPartner' /\ ReplayInv'
  <2>1. UNCHANGED sent /\ Len(replay') # 2
        BY <1>5 DEF ReplayTest
  <2> QED BY <1>2, <2>1 DEF ReplayInv
<1>6. CASE ReplayClient
  <2>1. UNCHANGED sent
        BY <1>6 DEF ReplayClient
  <2>2. CASE replay[1] \in DOMAIN links
    <3>1. replay' = <<replay[1], links[replay[1]]>> /\ Paired(replay[1], links[replay[1]])
          BY <1>0, <1>6, <2>2 DEF ReplayClient, LinksArePairs
    <3>2. PICK u, v : u = replay[1] /\ v = links[replay[1]]
          OBVIOUS
    <3>3. replay' = <<u, v>> /\ Paired(u, v)
          BY <3>1, <3>2
    <3>4. Paired(u, v)'
          BY <1>0, <3>3, PairedStays
    <3>5. replay'[1] = u /\ replay'[2] = v
          BY <3>3
    <3>6. ReplayInv'
          BY <3>4, <3>5 DEF ReplayInv
    <3> QED BY <1>2, <2>1, <3>6
  <2>3. CASE replay[1] \notin DOMAIN links
        BY <1>2, <1>6, <2>1, <2>3 DEF ReplayClient, ReplayInv
  <2> QED BY <2>2, <2>3
<1>7. CASE ReplayServer
      BY <1>2, <1>7 DEF ReplayServer, ReplayInv
<1>8. CASE ReplaySend
  <2>1. replay \in Peers \X Peers /\ (replay[1] = replay[2] \/ Paired(replay[1], replay[2]))
    <3>1. Len(replay) = 2
          BY <1>8 DEF ReplaySend
    <3>2. replay # << >>
          BY <3>1
    <3>3. \A x \in Peers : Len(<<x>>) = 1
          OBVIOUS
    <3>4. \A x \in Peers : replay # <<x>>
          BY <3>1, <3>3
    <3> QED BY <1>0, <3>1, <3>2, <3>4 DEF TypeOK, ReplayInv
  <2>2. replay' = << >> /\ (UNCHANGED sent \/ sent' = Append(sent, replay))
        BY <1>8 DEF ReplaySend
  <2> QED BY <1>1, <1>2, <2>1, <2>2 DEF ReplayInv
<1>9. CASE UNCHANGED <<sent, replay>>
      BY <1>2, <1>3, <1>9
<1> QED BY <1>4, <1>5, <1>6, <1>7, <1>8, <1>9
        DEF Next, AsyncRecvProcess, LinkPacket, ShortLinkPacket, RemoveSource, RemoveDest,
            AddSource, AddDest, StopListening, SendPacketByModel, vars

LEMMA InvStep == IInv /\ [Next]_vars => IInv'
BY TypeStep, LinkStep, PairStep, SentStep DEF IInv

\* A datagram travels between endpoints somebody linked, and whatever the UI
\* thread reads of links while AddLink changes it is such a link too.
THEOREM PartnersCorrect == Spec => [](TypeOK /\ LinksArePairs /\ SentToPartner)
<1>1. IInv => TypeOK /\ LinksArePairs /\ SentToPartner
      BY DEF IInv
<1> QED BY <1>1, InitIInv, InvStep, PTL DEF Spec

\* Two linked endpoints stay linked to each other until one of them is linked
\* again, and Dictionary.Add can only fail for an endpoint linked to itself.
THEOREM LatestCorrect == Spec => [](LatestPairLinked /\ DuplicateKeyOnlySelf)
<1>1. IInv => LatestPairLinked /\ DuplicateKeyOnlySelf
      BY DEF IInv, LinkInv, LatestPairLinked, DuplicateKeyOnlySelf, Fresh, Linked
<1> QED BY <1>1, InitIInv, InvStep, PTL DEF Spec

-----------------------------------------------------------------------------
(* Server.  A handler of a client is in its list exactly as long as its    *)
(* span is open, and the callback calls what was in the list when the      *)
(* packet came.                                                            *)

Adding   == {"addState", "addRecv", "addSend", "addList"}
Holding  == Adding \cup {"construct"}
PcValues == Holding \cup {"listen", "accept", "pending", "disconnect", "remove",
                          "removeState", "down"}

\* What the callback may still have to call.
Calls == {<< >>, <<"queue">>, <<"recv", "queue">>, <<"send", "queue">>,
          <<"recv", "send", "queue">>}

TcpTypeOK ==
    /\ pc \in PcValues
    /\ clients \in Seq(Clients)
    /\ pc \in Holding => accepting \in Clients
    /\ session \in [Clients -> {"none", "waiting", "open", "closed"}]
    /\ connected \in [Clients -> BOOLEAN]
    /\ closing \in [Clients -> [Closers -> {"idle", "set", "raise"}]]
    /\ stateHandler \in [Clients -> BOOLEAN]
    /\ recvHandlers \in [Clients -> Seq({"recv", "send"})]
    /\ accepted \in [Clients -> Nat]
    /\ io \in [Clients -> Calls]
    /\ recvReported \in [Clients -> Seq(Nat)]
    /\ sendReported \in [Clients -> Seq(Nat)]
    /\ stateReported \in [Clients -> Seq(BOOLEAN)]
    /\ span \in [Clients -> [recv : Seq(Nat), send : Seq(Nat)]]

Spans(c, m, n) == Len(span[c].recv) = m /\ Len(span[c].send) = n

Listed(c) == \E i \in 1..Len(clients) : clients[i] = c

\* The client of which Disconnect has removed one handler and not yet the other.
Leaving(c) == pc = "removeState" /\ c = clients[1]

\* How far the registration of each client has come.
RegistrationInv ==
    /\ \A i, j \in 1..Len(clients) : clients[i] = clients[j] => i = j
    /\ pc = "removeState" => Len(clients) > 0
    /\ \A c \in Clients :
          /\ Listed(c) => Spans(c, IF Leaving(c) THEN 2 ELSE 1, 1) /\ stateHandler[c]
          /\ pc \in Holding /\ c = accepting =>
                /\ ~Listed(c)
                /\ Spans(c, IF pc \in {"addSend", "addList"} THEN 1 ELSE 0,
                            IF pc = "addList" THEN 1 ELSE 0)
                /\ pc \in Adding \ {"addState"} => stateHandler[c]
          /\ pc = "construct" /\ c = accepting => session[c] = "waiting"
          /\ session[c] \in {"none", "waiting"} => Spans(c, 0, 0) /\ ~Listed(c)
          /\ session[c] \in {"none", "waiting"} /\ pc \in Holding => c # accepting \/ pc = "construct"

\* The list of handlers, and the spans.
HandlersOf(c) ==
    /\ \/ Spans(c, 0, 0) /\ recvHandlers[c] = << >>
       \/ Spans(c, 1, 0) /\ recvHandlers[c] = <<"recv">>
       \/ Spans(c, 1, 1) /\ recvHandlers[c] = <<"recv", "send">>
       \/ Spans(c, 2, 1) /\ recvHandlers[c] = <<"send">>
    /\ \A i \in 1..Len(span[c].recv) : span[c].recv[i] <= accepted[c]
    /\ Len(span[c].recv) = 2 => span[c].recv[1] <= span[c].recv[2]
    /\ \A i \in 1..Len(span[c].send) : span[c].send[i] <= accepted[c]

HandlersInv == \A c \in Clients : HandlersOf(c)

\* A call that is still to come is that of a handler which was there for the last packet.
CallsTo(c) ==
    /\ Tcp!Contains(io[c], "recv") =>
          /\ Len(span[c].recv) > 0 /\ span[c].recv[1] < accepted[c]
          /\ Len(span[c].recv) = 2 => span[c].recv[2] = accepted[c]
    /\ Tcp!Contains(io[c], "send") => Len(span[c].send) > 0 /\ span[c].send[1] < accepted[c]

CallsInv == \A c \in Clients : CallsTo(c)

\* Of a session that is over: nothing is reported before the first assignment of
\* Connected; after it, somebody has reported the end, was heard by nobody, or has yet
\* to raise it; and as long as no two threads have passed the test one of them is the
\* only one that reports.
Reporting(c, t) == closing[c][t] \in {"set", "raise"}

EndOf(c) ==
    /\ session[c] \in {"none", "waiting"} => ~connected[c]
    /\ session[c] = "open" => connected[c]
    /\ session[c] # "closed" => \A t \in Closers : closing[c][t] = "idle"
    /\ session[c] # "closed" \/ connected[c] =>
          stateReported[c] = << >> /\ \A t \in Closers : closing[c][t] # "raise"
    /\ session[c] = "closed" /\ ~connected[c] /\ c \notin early /\ stateReported[c] = << >> =>
          \E t \in Closers : closing[c][t] = "raise"
    /\ \A i \in 1..Len(stateReported[c]) : stateReported[c][i] = FALSE
    /\ c \notin doubled =>
          /\ Len(stateReported[c]) <= 1
          /\ \A t, u \in Closers : Reporting(c, t) /\ Reporting(c, u) => t = u
          /\ \A t \in Closers : Reporting(c, t) => stateReported[c] = << >>
          /\ \A t \in Closers : closing[c][t] = "set" => connected[c]

EndInv == \A c \in Clients : EndOf(c)

TcpInv == TcpTypeOK /\ RegistrationInv /\ HandlersInv /\ CallsInv /\ EndInv /\ EventsAreReported

-----------------------------------------------------------------------------
\* Short sequences, written out.
LEMMA AppendToOne == ASSUME NEW x, NEW y PROVE Append(<<x>>, y) = <<x, y>>
<1> DEFINE S == {x, y}
           a == Append(<<x>>, y)
<1>1. <<x>> \in Seq(S) /\ <<x, y>> \in Seq(S)
      OBVIOUS
<1>2. a \in Seq(S) /\ Len(a) = 2 /\ a[1] = x /\ a[2] = y
      BY <1>1, AppendProperties
<1>3. Len(a) = Len(<<x, y>>) /\ \A i \in 1..Len(a) : a[i] = <<x, y>>[i]
      BY <1>2
<1> HIDE DEF S
<1> QED BY <1>1, <1>2, <1>3, SeqEqual

LEMMA AppendToSingle ==
    ASSUME NEW S, NEW s \in Seq(S), Len(s) = 1, NEW x \in S
    PROVE  Len(Append(s, x)) = 2 /\ Append(s, x)[1] = s[1] /\ Append(s, x)[2] = x
<1>1. Len(Append(s, x)) = Len(s) + 1
      BY AppendProperties, Zenon
<1>2. \A i \in 1..Len(s) : Append(s, x)[i] = s[i]
      BY SMTT(20)
<1>3. Append(s, x)[Len(s) + 1] = x
      BY AppendProperties, Zenon
<1> QED BY <1>1, <1>2, <1>3

\* The numbers in a span, and how a field of it grows.
LEMMA AppendTyped ==
    ASSUME NEW S, NEW s \in Seq(S), NEW x \in S
    PROVE  Append(s, x) \in Seq(S) /\ Len(Append(s, x)) = Len(s) + 1
BY AppendProperties, Zenon

LEMMA AppendAt ==
    ASSUME NEW f \in [Clients -> Seq(Nat)], NEW c \in Clients, NEW n \in Nat
    PROVE  [f EXCEPT ![c] = Append(f[c], n)] \in [Clients -> Seq(Nat)]
<1>1. Append(f[c], n) \in Seq(Nat)
      BY AppendTyped
<1> QED BY <1>1

LEMMA SpanEnds ==
    ASSUME NEW f \in [Clients -> [recv : Seq(Nat), send : Seq(Nat)]], NEW c \in Clients, NEW s, NEW g,
           g = [f EXCEPT ![c].recv = s]
    PROVE  g[c].recv = s /\ g[c].send = f[c].send /\ \A d \in Clients \ {c} : g[d] = f[d]
OBVIOUS

LEMMA AppendToTwo == ASSUME NEW x, NEW y, NEW z PROVE Append(<<x, y>>, z) = <<x, y, z>>
<1> DEFINE S == {x, y, z}
           a == Append(<<x, y>>, z)
<1>1. <<x, y>> \in Seq(S) /\ <<x, y, z>> \in Seq(S)
      OBVIOUS
<1>2. a \in Seq(S) /\ Len(a) = 3 /\ a[1] = x /\ a[2] = y /\ a[3] = z
      BY <1>1, AppendProperties
<1>3. Len(a) = Len(<<x, y, z>>) /\ \A i \in 1..Len(a) : a[i] = <<x, y, z>>[i]
      BY <1>2
<1> HIDE DEF S
<1> QED BY <1>1, <1>2, <1>3, SeqEqual

LEMMA SecondOfTwo == ASSUME NEW x, NEW y PROVE Tcp!RemoveAt(<<x, y>>, 1) = <<y>>
<1> DEFINE S == {x, y}
           a == SubSeq(<<x, y>>, 2, 2)
<1>1. <<x, y>> \in Seq(S) /\ <<y>> \in Seq(S)
      OBVIOUS
<1>2. a \in Seq(S) /\ Len(a) = 1 /\ a[1] = y
      BY <1>1, SubSeqProperties
<1>3. Len(a) = Len(<<y>>) /\ \A i \in 1..Len(a) : a[i] = <<y>>[i]
      BY <1>2
<1>4. SubSeq(<<x, y>>, 1, 0) = << >> /\ Len(<<x, y>>) = 2
      OBVIOUS
<1>5. a = <<y>>
  <2> HIDE DEF S
  <2> QED BY <1>1, <1>2, <1>3, SeqEqual
<1>6. << >> \o <<y>> = <<y>>
      OBVIOUS
<1>7. Tcp!RemoveAt(<<x, y>>, 1) = SubSeq(<<x, y>>, 1, 0) \o a
      BY <1>4 DEF Tcp!RemoveAt
<1> QED
  <2> HIDE DEF a
  <2> QED BY <1>4, <1>5, <1>6, <1>7

\* What the library's operators do to the lists that occur here.
LEMMA ListsOfHandlers ==
    /\ Tcp!RemoveFirst(<<"recv", "send">>, "recv") = <<"send">>
    /\ \A h \in {<< >>, <<"recv">>, <<"recv", "send">>, <<"send">>} : Append(h, "queue") \in Calls
    /\ \A s \in Calls : s # << >> => Tail(s) \in Calls
<1>1. Tcp!RemoveFirst(<<"recv", "send">>, "recv") = <<"send">>
  <2> DEFINE s == <<"recv", "send">>
             I == {i \in 1..Len(s) : s[i] = "recv"}
  <2>1. I = {1} /\ \E i \in 1..Len(s) : s[i] = "recv"
        OBVIOUS
  <2>2. Tcp!SelectInSeq(s, LAMBDA v : v = "recv") = 1
        BY <2>1 DEF Tcp!SelectInSeq, Tcp!Min
  <2>3. Tcp!RemoveFirst(s, "recv") = Tcp!RemoveAt(s, 1)
        BY <2>1, <2>2 DEF Tcp!RemoveFirst
  <2> QED BY <2>3, SecondOfTwo
<1>2. \A h \in {<< >>, <<"recv">>, <<"recv", "send">>, <<"send">>} : Append(h, "queue") \in Calls
  <2>1. Append(<< >>, "queue") = <<"queue">>
        OBVIOUS
  <2>2. /\ Append(<<"recv">>, "queue") = <<"recv", "queue">>
        /\ Append(<<"send">>, "queue") = <<"send", "queue">>
        BY AppendToOne
  <2>3. Append(<<"recv", "send">>, "queue") = <<"recv", "send", "queue">>
        BY AppendToTwo
  <2> QED BY <2>1, <2>2, <2>3 DEF Calls
<1>3. \A s \in Calls : s # << >> => Tail(s) \in Calls
  <2>1. /\ Tail(<<"queue">>) = << >>
        /\ Tail(<<"recv", "queue">>) = <<"queue">>
        /\ Tail(<<"send", "queue">>) = <<"queue">>
        /\ Tail(<<"recv", "send", "queue">>) = <<"send", "queue">>
        OBVIOUS
  <2> QED BY <2>1 DEF Calls
<1> QED BY <1>1, <1>2, <1>3

LEMMA TcpInit == Tcp!Init => TcpInv
<1> SUFFICES ASSUME Tcp!Init PROVE TcpInv
    OBVIOUS
<1> USE DEF Tcp!Init
<1>1. /\ \A c \in Clients : Len(span[c].recv) = 0 /\ Len(span[c].send) = 0
      /\ Len(clients) = 0
      OBVIOUS
<1>2. TcpTypeOK
  <2>1. << >> \in Seq(Clients) /\ << >> \in Seq({"recv", "send"}) /\ << >> \in Seq(Nat) /\ << >> \in Seq(BOOLEAN)
        BY EmptySeq
  <2> QED BY <2>1 DEF TcpTypeOK, PcValues, Holding, Adding, Calls
<1>3. RegistrationInv
      BY <1>1 DEF RegistrationInv, Listed, Spans, Holding, Adding
<1>4. HandlersInv
      BY <1>1 DEF HandlersInv, HandlersOf, Spans
<1>5. CallsInv
  <2>1. \A c \in Clients : ~Tcp!Contains(io[c], "recv") /\ ~Tcp!Contains(io[c], "send")
        BY DEF Tcp!Contains
  <2> QED BY <2>1 DEF CallsInv, CallsTo
<1>6. EndInv
      BY <1>1 DEF EndInv, EndOf, Reporting
<1>7. EventsAreReported
  <2>1. \A c \in Clients : Tcp!ReportsWhileRegistered(c)
        BY DEF Tcp!ReportsWhileRegistered, Tcp!Covered
  <2>2. \A c \in Clients : Tcp!LossIsReported(c)
    <3> SUFFICES ASSUME NEW c \in Clients PROVE Tcp!LossIsReported(c)
        OBVIOUS
    <3>1. stateReported[c] = << >> /\ session[c] = "none"
          OBVIOUS
    <3>2. Len(stateReported[c]) = 0 /\ ~Tcp!Ended(c)
          BY <3>1 DEF Tcp!Ended
    <3> QED BY ONLY <3>2 DEF Tcp!LossIsReported
  <2> QED BY <2>1, <2>2 DEF EventsAreReported, Tcp!EventsAreReported
<1> QED BY <1>2, <1>3, <1>4, <1>5, <1>6, <1>7 DEF TcpInv

LEMMA TcpTypeStep == TcpInv /\ [Tcp!Next]_(Tcp!vars) => TcpTypeOK'
<1> SUFFICES ASSUME TcpInv, [Tcp!Next]_(Tcp!vars) PROVE TcpTypeOK'
    OBVIOUS
<1>0. TcpTypeOK
      BY DEF TcpInv
<1> USE <1>0 DEF TcpTypeOK, PcValues, Holding, Adding, Tcp!handlers, Tcp!reports, Tcp!history,
                 Tcp!serverVars, Tcp!ends
<1>1. CASE \/ Tcp!Listen \/ Tcp!ListenFails \/ Tcp!AcceptAsync \/ Tcp!AcceptReset
           \/ Tcp!AcceptFails \/ Tcp!DisposeSocket \/ Tcp!OnServerState
      BY <1>1 DEF Tcp!Listen, Tcp!ListenFails, Tcp!AcceptAsync, Tcp!AcceptReset, Tcp!AcceptFails,
                  Tcp!DisposeSocket, Tcp!OnServerState
<1>2. CASE Tcp!AcceptSuccess \/ Tcp!OnSocketSuccess \/ Tcp!OnSocketSuccessFails
      BY <1>2 DEF Tcp!AcceptSuccess, Tcp!OnSocketSuccess, Tcp!OnSocketSuccessFails
<1>3. CASE Tcp!AddState \/ Tcp!AddList
  <2>1. ASSUME Tcp!AddList PROVE clients' \in Seq(Clients)
    <3>1. accepting \in Clients /\ clients' = Append(clients, accepting)
          BY <2>1 DEF Tcp!AddList
    <3> QED BY <3>1, AppendProperties
  <2> QED BY <1>3, <2>1 DEF Tcp!AddState, Tcp!AddList
<1>4. CASE Tcp!AddRecv \/ Tcp!AddSend
  <2>1. recvHandlers' \in [Clients -> Seq({"recv", "send"})]
    <3>1. accepting \in Clients /\ "recv" \in {"recv", "send"} /\ "send" \in {"recv", "send"}
          BY <1>4 DEF Tcp!AddRecv, Tcp!AddSend
    <3>2. \A e \in {"recv", "send"} : Append(recvHandlers[accepting], e) \in Seq({"recv", "send"})
          BY <3>1, AppendProperties
    <3> QED BY <1>4, <3>1, <3>2 DEF Tcp!AddRecv, Tcp!AddSend
  <2>2. span' \in [Clients -> [recv : Seq(Nat), send : Seq(Nat)]]
    <3>1. <<accepted[accepting]>> \in Seq(Nat) /\ accepting \in Clients
          BY <1>4 DEF Tcp!AddRecv, Tcp!AddSend
    <3>2. \/ span' = [span EXCEPT ![accepting].recv = <<accepted[accepting]>>]
          \/ span' = [span EXCEPT ![accepting].send = <<accepted[accepting]>>]
          BY <1>4 DEF Tcp!AddRecv, Tcp!AddSend
    <3>3. span \in [Clients -> [recv : Seq(Nat), send : Seq(Nat)]]
          OBVIOUS
    <3> QED BY ONLY <3>1, <3>2, <3>3
  <2> QED BY <1>4, <2>1, <2>2 DEF Tcp!AddRecv, Tcp!AddSend
<1>5. CASE Tcp!RemoveRecv
  <2> DEFINE c == Head(clients)
  <2>1. c \in Clients /\ Listed(c) /\ clients[1] = c
    <3>1. Len(clients) > 0
          BY <1>5, EmptySeq DEF Tcp!RemoveRecv
    <3>2. clients # << >> /\ clients \in Seq(Clients) /\ c = clients[1]
          BY <1>5 DEF Tcp!RemoveRecv
    <3> QED BY <3>1, <3>2, ElementOfSeq DEF Listed
  <2>2. Spans(c, 1, 1)
        BY <1>5, <2>1 DEF Tcp!RemoveRecv, TcpInv, RegistrationInv, Leaving
  <2>5. recvHandlers[c] = <<"recv", "send">>
    <3>1. HandlersInv
          BY DEF TcpInv
    <3> HIDE DEF c
    <3>2. \/ Spans(c, 0, 0) \/ Spans(c, 1, 0) \/ recvHandlers[c] = <<"recv", "send">> \/ Spans(c, 2, 1)
          BY <2>1, <3>1 DEF HandlersInv, HandlersOf
    <3> QED BY <2>2, <3>2 DEF Spans
  <2>3. recvHandlers' \in [Clients -> Seq({"recv", "send"})]
    <3>1. <<"send">> \in Seq({"recv", "send"})
          OBVIOUS
    <3> QED BY <1>5, <2>1, <2>5, <3>1, ListsOfHandlers DEF Tcp!RemoveRecv
  <2>4. span' \in [Clients -> [recv : Seq(Nat), send : Seq(Nat)]]
    <3>1. span[clients[1]].recv \in Seq(Nat) /\ accepted[clients[1]] \in Nat
          BY <2>1
    <3>2. Append(span[clients[1]].recv, accepted[clients[1]]) \in Seq(Nat)
          BY <3>1, AppendTyped
    <3> QED BY <1>5, <2>1, <3>2 DEF Tcp!RemoveRecv
  <2> QED BY <1>5, <2>3, <2>4 DEF Tcp!RemoveRecv
<1>6. CASE Tcp!RemoveState
  <2>1. clients' \in Seq(Clients)
        BY <1>6, HeadTailProperties, EmptySeq DEF Tcp!RemoveState, TcpInv, RegistrationInv
  <2> QED BY <1>6, <2>1 DEF Tcp!RemoveState
<1>7. ASSUME NEW c \in Clients, Tcp!Connect(c) \/ (\E t \in Closers : Tcp!OnClientState(c, t)) PROVE TcpTypeOK'
  <2>1. stateReported' \in [Clients -> Seq(BOOLEAN)]
    <3>1. Append(stateReported[c], FALSE) \in Seq(BOOLEAN)
          BY AppendProperties
    <3>2. \/ stateReported' = stateReported
          \/ stateReported' = [stateReported EXCEPT ![c] = Append(stateReported[c], FALSE)]
          BY <1>7 DEF Tcp!Connect, Tcp!OnClientState, Tcp!StateTest, Tcp!StateSet, Tcp!StateRaise
    <3> QED BY <3>1, <3>2
  <2>2. /\ closing' \in [Clients -> [Closers -> {"idle", "set", "raise"}]]
        /\ connected' \in [Clients -> BOOLEAN]
    <3>1. CASE Tcp!Connect(c)
          BY <3>1 DEF Tcp!Connect
    <3>2. ASSUME NEW t \in Closers, Tcp!StateTest(c, t) \/ Tcp!StateRaise(c, t)
          PROVE  /\ closing' \in [Clients -> [Closers -> {"idle", "set", "raise"}]]
                 /\ connected' \in [Clients -> BOOLEAN]
      <4>1. PICK v \in {"idle", "set"} : closing' = [closing EXCEPT ![c][t] = v]
            BY <3>2 DEF Tcp!StateTest, Tcp!StateRaise
      <4>2. closing \in [Clients -> [Closers -> {"idle", "set", "raise"}]]
            OBVIOUS
      <4>3. closing' \in [Clients -> [Closers -> {"idle", "set", "raise"}]]
            BY ONLY <4>1, <4>2, c \in Clients, t \in Closers
      <4>4. connected' = connected
            BY <3>2 DEF Tcp!StateTest, Tcp!StateRaise
      <4> QED BY <4>3, <4>4
    <3>3. ASSUME NEW t \in Closers, Tcp!StateSet(c, t)
          PROVE  /\ closing' \in [Clients -> [Closers -> {"idle", "set", "raise"}]]
                 /\ connected' \in [Clients -> BOOLEAN]
          BY <3>3 DEF Tcp!StateSet
    <3> QED BY <1>7, <3>1, <3>2, <3>3 DEF Tcp!OnClientState
  <2>3. session' \in [Clients -> {"none", "waiting", "open", "closed"}]
        BY <1>7 DEF Tcp!Connect, Tcp!OnClientState, Tcp!StateTest, Tcp!StateSet, Tcp!StateRaise
  <2>4. /\ UNCHANGED Tcp!serverVars
        /\ UNCHANGED <<stateHandler, recvHandlers, accepted, io, recvReported, sendReported, span>>
    <3>1. CASE Tcp!Connect(c)
          BY <3>1 DEF Tcp!Connect
    <3>2. ASSUME NEW t \in Closers, Tcp!StateTest(c, t) \/ Tcp!StateSet(c, t)
          PROVE  /\ UNCHANGED Tcp!serverVars
                 /\ UNCHANGED <<stateHandler, recvHandlers, accepted, io, recvReported, sendReported, span>>
          BY <3>2 DEF Tcp!StateTest, Tcp!StateSet
    <3>3. ASSUME NEW t \in Closers, Tcp!StateRaise(c, t)
          PROVE  /\ UNCHANGED Tcp!serverVars
                 /\ UNCHANGED <<stateHandler, recvHandlers, accepted, io, recvReported, sendReported, span>>
          BY <3>3 DEF Tcp!StateRaise
    <3> QED BY <1>7, <3>1, <3>2, <3>3 DEF Tcp!OnClientState
  <2> QED BY <2>1, <2>2, <2>3, <2>4
<1>8. ASSUME NEW c \in Clients, Tcp!Receive(c) PROVE TcpTypeOK'
  <2>1. io' \in [Clients -> Calls]
    <3>1. recvHandlers[c] \in {<< >>, <<"recv">>, <<"recv", "send">>, <<"send">>}
          BY DEF TcpInv, HandlersInv, HandlersOf
    <3>2. Append(recvHandlers[c], "queue") \in Calls
          BY <3>1, ListsOfHandlers
    <3> QED BY <1>8, <3>2 DEF Tcp!Receive
  <2> QED BY <1>8, <2>1, SMTT(30) DEF Tcp!Receive
<1>9. ASSUME NEW c \in Clients, Tcp!OnClientRecv(c) \/ Tcp!OnClientSend(c) \/ Tcp!Enqueue(c) PROVE TcpTypeOK'
  <2>1. io' \in [Clients -> Calls]
    <3>1. io[c] # << >> /\ io' = [io EXCEPT ![c] = Tail(io[c])]
          BY <1>9 DEF Tcp!OnClientRecv, Tcp!OnClientSend, Tcp!Enqueue
    <3>2. Tail(io[c]) \in Calls
          BY <3>1, ListsOfHandlers
    <3> QED BY <3>1, <3>2
  <2>2. recvReported' \in [Clients -> Seq(Nat)] /\ sendReported' \in [Clients -> Seq(Nat)]
    <3>1. /\ [recvReported EXCEPT ![c] = Append(recvReported[c], accepted[c])] \in [Clients -> Seq(Nat)]
          /\ [sendReported EXCEPT ![c] = Append(sendReported[c], accepted[c])] \in [Clients -> Seq(Nat)]
          BY AppendAt
    <3>2. \/ UNCHANGED recvReported
          \/ recvReported' = [recvReported EXCEPT ![c] = Append(recvReported[c], accepted[c])]
          BY <1>9 DEF Tcp!OnClientRecv, Tcp!OnClientSend, Tcp!Enqueue
    <3>3. \/ UNCHANGED sendReported
          \/ sendReported' = [sendReported EXCEPT ![c] = Append(sendReported[c], accepted[c])]
          BY <1>9 DEF Tcp!OnClientRecv, Tcp!OnClientSend, Tcp!Enqueue
    <3> QED BY <3>1, <3>2, <3>3
  <2> QED BY <1>9, <2>1, <2>2 DEF Tcp!OnClientRecv, Tcp!OnClientSend, Tcp!Enqueue
<1>10. CASE UNCHANGED Tcp!vars
      BY <1>10 DEF Tcp!vars
<1> QED BY <1>1, <1>2, <1>3, <1>4, <1>5, <1>6, <1>7, <1>8, <1>9, <1>10
        DEF Tcp!Next, Tcp!AcceptClient, Tcp!AddClient, Tcp!Disconnect, Tcp!AsyncReceive

\* Registration goes on step by step, one client at a time, and is undone in the same order.
LEMMA RegistrationStep == TcpInv /\ [Tcp!Next]_(Tcp!vars) => RegistrationInv'
<1> SUFFICES ASSUME TcpInv, [Tcp!Next]_(Tcp!vars) PROVE RegistrationInv'
    OBVIOUS
<1>0. TcpTypeOK /\ RegistrationInv
      BY DEF TcpInv
<1>1. CASE \/ Tcp!Listen \/ Tcp!ListenFails \/ Tcp!AcceptAsync \/ Tcp!AcceptReset
           \/ Tcp!AcceptFails \/ Tcp!DisposeSocket \/ Tcp!OnServerState
  <2>1. UNCHANGED <<clients, session, span, stateHandler>>
        BY <1>1 DEF Tcp!Listen, Tcp!ListenFails, Tcp!AcceptAsync, Tcp!AcceptReset, Tcp!AcceptFails,
                    Tcp!DisposeSocket, Tcp!OnServerState, Tcp!history, Tcp!handlers
  <2>2. pc \notin Holding \cup {"removeState"} /\ pc' \notin Holding \cup {"removeState"}
        BY <1>1 DEF Tcp!Listen, Tcp!ListenFails, Tcp!AcceptAsync, Tcp!AcceptReset, Tcp!AcceptFails,
                    Tcp!DisposeSocket, Tcp!OnServerState, Holding, Adding
  <2> QED BY <1>0, <2>1, <2>2 DEF RegistrationInv, Listed, Spans, Leaving, Holding
<1>2. CASE Tcp!AcceptSuccess
  <2>1. /\ UNCHANGED <<clients, session, span, stateHandler>>
        /\ pc = "pending" /\ pc' = "construct"
        /\ accepting' \in Clients /\ session[accepting'] = "waiting"
        BY <1>2 DEF Tcp!AcceptSuccess, Tcp!history, Tcp!handlers
  <2> QED BY <1>0, <2>1 DEF RegistrationInv, Listed, Spans, Leaving, Holding, Adding
<1>3. CASE Tcp!OnSocketSuccess \/ Tcp!OnSocketSuccessFails
  <2>1. /\ UNCHANGED <<clients, span, stateHandler, accepting>>
        /\ pc = "construct" /\ pc' = "addState"
        /\ \/ session' = [session EXCEPT ![accepting] = "open"]
           \/ session' = [session EXCEPT ![accepting] = "closed"]
        BY <1>3 DEF Tcp!OnSocketSuccess, Tcp!OnSocketSuccessFails, Tcp!history, Tcp!handlers
  <2>2. accepting \in Clients /\ ~Listed(accepting) /\ Spans(accepting, 0, 0)
        BY <1>0, <2>1 DEF RegistrationInv, TcpTypeOK, Holding, Adding
  <2> QED BY <1>0, <2>1, <2>2 DEF RegistrationInv, TcpTypeOK, Listed, Spans, Leaving, Holding, Adding
<1>4. CASE Tcp!AddState
  <2>1. /\ UNCHANGED <<clients, session, span, accepting>>
        /\ pc = "addState" /\ pc' = "addRecv"
        /\ stateHandler' = [stateHandler EXCEPT ![accepting] = TRUE]
        BY <1>4 DEF Tcp!AddState, Tcp!history
  <2>2. accepting \in Clients
        BY <1>0, <2>1 DEF TcpTypeOK, Holding, Adding
  <2>3. stateHandler'[accepting] /\ \A c \in Clients : stateHandler[c] => stateHandler'[c]
        BY <1>0, <2>1, <2>2 DEF TcpTypeOK
  <2> QED BY <1>0, <2>1, <2>2, <2>3 DEF RegistrationInv, Listed, Spans, Leaving, Holding, Adding
<1>5. CASE Tcp!AddRecv
  <2>1. /\ UNCHANGED <<clients, session, stateHandler, accepting>>
        /\ pc = "addRecv" /\ pc' = "addSend"
        /\ span' = [span EXCEPT ![accepting].recv = <<accepted[accepting]>>]
        BY <1>5 DEF Tcp!AddRecv
  <2>2. accepting \in Clients /\ ~Listed(accepting) /\ Spans(accepting, 0, 0)
        BY <1>0, <2>1 DEF RegistrationInv, TcpTypeOK, Holding, Adding
  <2>3. /\ Spans(accepting, 1, 0)'
        /\ \A c \in Clients \ {accepting} : span'[c] = span[c]
        BY <1>0, <2>1, <2>2 DEF TcpTypeOK, Spans
  <2> QED BY <1>0, <2>1, <2>2, <2>3 DEF RegistrationInv, Listed, Spans, Leaving, Holding, Adding
<1>6. CASE Tcp!AddSend
  <2>1. /\ UNCHANGED <<clients, session, stateHandler, accepting>>
        /\ pc = "addSend" /\ pc' = "addList"
        /\ span' = [span EXCEPT ![accepting].send = <<accepted[accepting]>>]
        BY <1>6 DEF Tcp!AddSend
  <2>2. accepting \in Clients /\ ~Listed(accepting) /\ Spans(accepting, 1, 0)
        BY <1>0, <2>1 DEF RegistrationInv, TcpTypeOK, Holding, Adding
  <2>3. /\ Spans(accepting, 1, 1)'
        /\ \A c \in Clients \ {accepting} : span'[c] = span[c]
        BY <1>0, <2>1, <2>2 DEF TcpTypeOK, Spans
  <2> QED BY <1>0, <2>1, <2>2, <2>3 DEF RegistrationInv, Listed, Spans, Leaving, Holding, Adding
<1>7. CASE Tcp!AddList
  <2>1. /\ UNCHANGED <<session, stateHandler, span>>
        /\ pc = "addList" /\ pc' = "accept"
        /\ clients' = Append(clients, accepting)
        BY <1>7 DEF Tcp!AddList, Tcp!handlers, Tcp!history
  <2>2. accepting \in Clients /\ ~Listed(accepting) /\ Spans(accepting, 1, 1) /\ stateHandler[accepting]
        BY <1>0, <2>1 DEF RegistrationInv, TcpTypeOK, Holding, Adding
  <2>3. session[accepting] \notin {"none", "waiting"}
        BY <1>0, <2>1, <2>2 DEF RegistrationInv, Holding, Adding
  <2>4. /\ Len(clients') = Len(clients) + 1 /\ Len(clients) \in Nat
        /\ \A i \in 1..Len(clients) : clients'[i] = clients[i]
        /\ clients'[Len(clients) + 1] = accepting
        BY <1>0, <2>1, <2>2, AppendProperties DEF TcpTypeOK
  <2>5. \A c \in Clients : Listed(c)' <=> Listed(c) \/ c = accepting
        BY <2>2, <2>4 DEF Listed
  <2>6. \A i, j \in 1..Len(clients') : clients'[i] = clients'[j] => i = j
        BY <1>0, <2>2, <2>4 DEF RegistrationInv, Listed
  <2> QED BY <1>0, <2>1, <2>2, <2>3, <2>5, <2>6 DEF RegistrationInv, Spans, Leaving, Holding, Adding
<1>8. CASE Tcp!RemoveRecv
  <2>1. /\ UNCHANGED <<clients, session, stateHandler>>
        /\ pc = "remove" /\ pc' = "removeState"
        /\ clients # << >>
        /\ span' = [span EXCEPT ![Head(clients)].recv = Append(@, accepted[Head(clients)])]
        BY <1>8 DEF Tcp!RemoveRecv
  <2>2. Head(clients) = clients[1] /\ clients[1] \in Clients /\ Len(clients) > 0 /\ Listed(clients[1])
    <3>1. Len(clients) > 0 /\ Len(clients) \in Nat /\ clients \in Seq(Clients)
          BY <1>0, <2>1, EmptySeq DEF TcpTypeOK
    <3> QED BY <2>1, <3>1, ElementOfSeq DEF Listed
  <2>3. Spans(clients[1], 1, 1)
        BY <1>0, <2>1, <2>2 DEF RegistrationInv, Leaving
  <2>4. Spans(clients[1], 2, 1)' /\ \A c \in Clients \ {clients[1]} : span'[c] = span[c]
    <3>1. span[clients[1]].recv \in Seq(Nat) /\ accepted[clients[1]] \in Nat
          BY <1>0, <2>2 DEF TcpTypeOK
    <3>2. Len(Append(span[clients[1]].recv, accepted[clients[1]])) = Len(span[clients[1]].recv) + 1
          BY <3>1, AppendTyped
    <3>3. /\ span'[clients[1]].recv = Append(span[clients[1]].recv, accepted[clients[1]])
          /\ span'[clients[1]].send = span[clients[1]].send
          /\ \A c \in Clients \ {clients[1]} : span'[c] = span[c]
          BY <1>0, <2>1, <2>2, SpanEnds, SMTT(30) DEF TcpTypeOK
    <3> QED BY <2>1, <2>3, <3>2, <3>3 DEF Spans
  <2>5. \A c \in Clients : (Listed(c)' <=> Listed(c)) /\ (Leaving(c)' <=> c = clients[1]) /\ ~Leaving(c)
        BY <2>1 DEF Listed, Leaving
  <2>6. \A c \in Clients : Listed(c)' => Spans(c, IF Leaving(c) THEN 2 ELSE 1, 1)' /\ stateHandler'[c]
    <3> SUFFICES ASSUME NEW c \in Clients, Listed(c)
                 PROVE  Spans(c, IF Leaving(c) THEN 2 ELSE 1, 1)' /\ stateHandler'[c]
        BY <2>5
    <3>1. Spans(c, 1, 1) /\ stateHandler[c]
          BY <1>0, <2>5 DEF RegistrationInv
    <3> QED BY <2>1, <2>4, <2>5, <3>1 DEF Spans
  <2>7. \A c \in Clients : session'[c] \in {"none", "waiting"} => Spans(c, 0, 0)' /\ ~Listed(c)'
    <3> SUFFICES ASSUME NEW c \in Clients, session[c] \in {"none", "waiting"}
                 PROVE  Spans(c, 0, 0)' /\ ~Listed(c)
        BY <2>1, <2>5
    <3>1. Spans(c, 0, 0) /\ ~Listed(c)
          BY <1>0 DEF RegistrationInv
    <3> QED BY <2>2, <2>4, <3>1 DEF Spans
  <2>8. pc' \notin Holding
        BY <2>1 DEF Holding, Adding
  <2>9. /\ pc' = "removeState" => Len(clients') > 0
        /\ \A i, j \in 1..Len(clients') : clients'[i] = clients'[j] => i = j
        BY <1>0, <2>1, <2>2 DEF RegistrationInv
  <2>10. pc' # "construct"
        BY <2>1
  <2> QED BY <2>6, <2>7, <2>8, <2>9, <2>10 DEF RegistrationInv
<1>9. CASE Tcp!RemoveState
  <2>1. /\ UNCHANGED <<session, span>>
        /\ pc = "removeState" /\ pc' = "remove" /\ clients' = Tail(clients)
        /\ stateHandler' = [stateHandler EXCEPT ![Head(clients)] = FALSE]
        BY <1>9 DEF Tcp!RemoveState, Tcp!history
  <2>2. clients \in Seq(Clients) /\ Len(clients) > 0 /\ Len(clients) \in Nat /\ clients # << >>
        BY <1>0, <2>1, EmptySeq DEF RegistrationInv, TcpTypeOK
  <2>3. /\ Len(clients') = Len(clients) - 1 /\ Head(clients) = clients[1]
        /\ \A i \in 1..Len(clients') : clients'[i] = clients[i + 1]
        BY <2>1, <2>2, HeadTailProperties
  <2>4. \A i, j \in 1..Len(clients') : clients'[i] = clients'[j] => i = j
        BY <1>0, <2>2, <2>3 DEF RegistrationInv
  <2>5. \A c \in Clients : Listed(c)' => Listed(c) /\ c # clients[1]
    <3> SUFFICES ASSUME NEW c \in Clients, Listed(c)' PROVE Listed(c) /\ c # clients[1]
        OBVIOUS
    <3>1. PICK i \in 1..Len(clients') : clients'[i] = c
          BY DEF Listed
    <3>2. i + 1 \in 1..Len(clients) /\ clients[i + 1] = c /\ i + 1 # 1
          BY <2>2, <2>3, <3>1
    <3> QED BY <1>0, <2>2, <3>2 DEF RegistrationInv, Listed
  <2>6. \A c \in Clients : c # clients[1] => stateHandler'[c] = stateHandler[c]
        BY <1>0, <2>1, <2>3 DEF TcpTypeOK
  <2> QED BY <1>0, <2>1, <2>4, <2>5, <2>6 DEF RegistrationInv, Spans, Leaving, Holding, Adding
<1>10. ASSUME NEW c \in Clients, Tcp!Connect(c) \/ (\E t \in Closers : Tcp!OnClientState(c, t)) PROVE RegistrationInv'
  <2>1. /\ UNCHANGED <<pc, accepting, clients, span, stateHandler>>
        /\ \/ session[c] = "none" /\ session' = [session EXCEPT ![c] = "waiting"]
           \/ session[c] \in {"open", "closed"} /\ session' = [session EXCEPT ![c] = "closed"]
           \/ session' = session
        BY <1>10 DEF Tcp!Connect, Tcp!OnClientState, Tcp!StateTest, Tcp!StateSet, Tcp!StateRaise,
                    Tcp!serverVars, Tcp!history, Tcp!handlers
  <2>2. /\ \A x \in Clients : session'[x] \in {"none", "waiting"} => session[x] \in {"none", "waiting"}
        /\ \A x \in Clients : session[x] = "waiting" => session'[x] = "waiting"
        BY <1>0, <2>1 DEF TcpTypeOK
  <2>3. \A x \in Clients : (Listed(x)' <=> Listed(x)) /\ (Leaving(x)' <=> Leaving(x))
        BY <2>1 DEF Listed, Leaving
  <2> QED BY <1>0, <2>1, <2>2, <2>3 DEF RegistrationInv, Spans
<1>11. CASE UNCHANGED <<pc, accepting, clients, session, span, stateHandler>>
      BY <1>0, <1>11 DEF RegistrationInv, Listed, Spans, Leaving
<1>12. ASSUME NEW c \in Clients, Tcp!AsyncReceive(c)
       PROVE  UNCHANGED <<pc, accepting, clients, session, span, stateHandler>>
      BY <1>12 DEF Tcp!AsyncReceive, Tcp!Receive, Tcp!OnClientRecv, Tcp!OnClientSend, Tcp!Enqueue,
                   Tcp!serverVars, Tcp!history, Tcp!handlers
<1>13. CASE UNCHANGED Tcp!vars
      BY <1>11, <1>13 DEF Tcp!vars, Tcp!serverVars, Tcp!history, Tcp!handlers
<1> QED BY <1>1, <1>2, <1>3, <1>4, <1>5, <1>6, <1>7, <1>8, <1>9, <1>10, <1>11, <1>12, <1>13
        DEF Tcp!Next, Tcp!AcceptClient, Tcp!AddClient, Tcp!Disconnect

\* Which calls a step may add or take away.
LEMMA CallsOf ==
    ASSUME TcpInv, NEW c \in Clients
    PROVE  /\ Tcp!Receive(c) =>
                 /\ ~Tcp!Contains(io[c], "recv") /\ ~Tcp!Contains(io[c], "send")
                 /\ Tcp!Contains(io'[c], "recv") <=> Len(span[c].recv) = 1
                 /\ Tcp!Contains(io'[c], "send") <=> Len(span[c].send) = 1
           /\ Tcp!OnClientRecv(c) =>
                 /\ Tcp!Contains(io[c], "recv") /\ ~Tcp!Contains(io'[c], "recv")
                 /\ Tcp!Contains(io'[c], "send") <=> Tcp!Contains(io[c], "send")
           /\ Tcp!OnClientSend(c) =>
                 /\ Tcp!Contains(io[c], "send") /\ ~Tcp!Contains(io'[c], "send")
                 /\ Tcp!Contains(io'[c], "recv") <=> Tcp!Contains(io[c], "recv")
           /\ Tcp!Enqueue(c) =>
                 /\ ~Tcp!Contains(io'[c], "recv") /\ ~Tcp!Contains(io[c], "recv")
                 /\ ~Tcp!Contains(io'[c], "send") /\ ~Tcp!Contains(io[c], "send")
<1>0. io \in [Clients -> Calls] /\ io[c] \in Calls
      BY DEF TcpInv, TcpTypeOK
<1>1. /\ Tail(<<"queue">>) = << >>
      /\ Tail(<<"recv", "queue">>) = <<"queue">>
      /\ Tail(<<"send", "queue">>) = <<"queue">>
      /\ Tail(<<"recv", "send", "queue">>) = <<"send", "queue">>
      /\ Head(<<"queue">>) = "queue" /\ Head(<<"recv", "queue">>) = "recv"
      /\ Head(<<"send", "queue">>) = "send" /\ Head(<<"recv", "send", "queue">>) = "recv"
      OBVIOUS
<1>2. /\ << >> \in Calls /\ <<"queue">> \in Calls /\ <<"recv", "queue">> \in Calls
      /\ <<"send", "queue">> \in Calls /\ <<"recv", "send", "queue">> \in Calls
      BY DEF Calls
<1>3. /\ ~Tcp!Contains(<< >>, "recv") /\ ~Tcp!Contains(<< >>, "send")
      /\ ~Tcp!Contains(<<"queue">>, "recv") /\ ~Tcp!Contains(<<"queue">>, "send")
      /\ Tcp!Contains(<<"recv", "queue">>, "recv") /\ ~Tcp!Contains(<<"recv", "queue">>, "send")
      /\ ~Tcp!Contains(<<"send", "queue">>, "recv") /\ Tcp!Contains(<<"send", "queue">>, "send")
      /\ Tcp!Contains(<<"recv", "send", "queue">>, "recv") /\ Tcp!Contains(<<"recv", "send", "queue">>, "send")
  <2>1. ~Tcp!Contains(<< >>, "recv") /\ ~Tcp!Contains(<< >>, "send")
        BY DEF Tcp!Contains
  <2>2. ~Tcp!Contains(<<"queue">>, "recv") /\ ~Tcp!Contains(<<"queue">>, "send")
        BY DEF Tcp!Contains
  <2>3. Tcp!Contains(<<"recv", "queue">>, "recv") /\ ~Tcp!Contains(<<"recv", "queue">>, "send")
        BY DEF Tcp!Contains
  <2>4. ~Tcp!Contains(<<"send", "queue">>, "recv") /\ Tcp!Contains(<<"send", "queue">>, "send")
        BY DEF Tcp!Contains
  <2>5. Tcp!Contains(<<"recv", "send", "queue">>, "recv") /\ Tcp!Contains(<<"recv", "send", "queue">>, "send")
        BY DEF Tcp!Contains
  <2> QED BY <2>1, <2>2, <2>3, <2>4, <2>5
<1>4. ASSUME Tcp!Receive(c)
      PROVE  /\ ~Tcp!Contains(io[c], "recv") /\ ~Tcp!Contains(io[c], "send")
             /\ Tcp!Contains(io'[c], "recv") <=> Len(span[c].recv) = 1
             /\ Tcp!Contains(io'[c], "send") <=> Len(span[c].send) = 1
  <2>1. io[c] = << >> /\ io'[c] = Append(recvHandlers[c], "queue")
        BY <1>0, <1>4 DEF Tcp!Receive
  <2>2. /\ Append(<< >>, "queue") = <<"queue">>
        /\ Append(<<"recv">>, "queue") = <<"recv", "queue">>
        /\ Append(<<"send">>, "queue") = <<"send", "queue">>
        /\ Append(<<"recv", "send">>, "queue") = <<"recv", "send", "queue">>
        BY AppendToOne, AppendToTwo
  <2>3. \/ Spans(c, 0, 0) /\ recvHandlers[c] = << >>
        \/ Spans(c, 1, 0) /\ recvHandlers[c] = <<"recv">>
        \/ Spans(c, 1, 1) /\ recvHandlers[c] = <<"recv", "send">>
        \/ Spans(c, 2, 1) /\ recvHandlers[c] = <<"send">>
        BY DEF TcpInv, HandlersInv, HandlersOf
  <2>4. CASE Spans(c, 0, 0) /\ recvHandlers[c] = << >>
    <3>1. io'[c] = <<"queue">> /\ Len(span[c].recv) = 0 /\ Len(span[c].send) = 0
          BY <2>1, <2>2, <2>4 DEF Spans
    <3>2. ~Tcp!Contains(io'[c], "recv") /\ ~Tcp!Contains(io'[c], "send")
          BY <1>3, <3>1, Zenon
    <3>3. ~Tcp!Contains(io[c], "recv") /\ ~Tcp!Contains(io[c], "send")
          BY <1>3, <2>1, Zenon
    <3>4. (Len(span[c].recv) = 1 <=> FALSE) /\ (Len(span[c].send) = 1 <=> FALSE)
          BY <3>1, SMT
    <3> QED BY <3>2, <3>3, <3>4
  <2>5. CASE Spans(c, 1, 0) /\ recvHandlers[c] = <<"recv">>
    <3>1. io'[c] = <<"recv", "queue">> /\ Len(span[c].recv) = 1 /\ Len(span[c].send) = 0
          BY <2>1, <2>2, <2>5 DEF Spans
    <3>2. Tcp!Contains(io'[c], "recv") /\ ~Tcp!Contains(io'[c], "send")
          BY <1>3, <3>1, Zenon
    <3>3. ~Tcp!Contains(io[c], "recv") /\ ~Tcp!Contains(io[c], "send")
          BY <1>3, <2>1, Zenon
    <3>4. (Len(span[c].recv) = 1 <=> TRUE) /\ (Len(span[c].send) = 1 <=> FALSE)
          BY <3>1, SMT
    <3> QED BY <3>2, <3>3, <3>4
  <2>6. CASE Spans(c, 1, 1) /\ recvHandlers[c] = <<"recv", "send">>
    <3>1. io'[c] = <<"recv", "send", "queue">> /\ Len(span[c].recv) = 1 /\ Len(span[c].send) = 1
          BY <2>1, <2>2, <2>6 DEF Spans
    <3>2. Tcp!Contains(io'[c], "recv") /\ Tcp!Contains(io'[c], "send")
          BY <1>3, <3>1, Zenon
    <3>3. ~Tcp!Contains(io[c], "recv") /\ ~Tcp!Contains(io[c], "send")
          BY <1>3, <2>1, Zenon
    <3>4. (Len(span[c].recv) = 1 <=> TRUE) /\ (Len(span[c].send) = 1 <=> TRUE)
          BY <3>1, SMT
    <3> QED BY <3>2, <3>3, <3>4
  <2>7. CASE Spans(c, 2, 1) /\ recvHandlers[c] = <<"send">>
    <3>1. io'[c] = <<"send", "queue">> /\ Len(span[c].recv) = 2 /\ Len(span[c].send) = 1
          BY <2>1, <2>2, <2>7 DEF Spans
    <3>2. ~Tcp!Contains(io'[c], "recv") /\ Tcp!Contains(io'[c], "send")
          BY <1>3, <3>1, Zenon
    <3>3. ~Tcp!Contains(io[c], "recv") /\ ~Tcp!Contains(io[c], "send")
          BY <1>3, <2>1, Zenon
    <3>4. (Len(span[c].recv) = 1 <=> FALSE) /\ (Len(span[c].send) = 1 <=> TRUE)
          BY <3>1, SMT
    <3> QED BY <3>2, <3>3, <3>4
  <2> QED BY <2>3, <2>4, <2>5, <2>6, <2>7
<1>5. ASSUME io[c] # << >>, io' = [io EXCEPT ![c] = Tail(io[c])]
      PROVE  /\ Head(io[c]) = "recv" =>
                   /\ Tcp!Contains(io[c], "recv") /\ ~Tcp!Contains(io'[c], "recv")
                   /\ Tcp!Contains(io'[c], "send") <=> Tcp!Contains(io[c], "send")
             /\ Head(io[c]) = "send" =>
                   /\ Tcp!Contains(io[c], "send") /\ ~Tcp!Contains(io'[c], "send")
                   /\ Tcp!Contains(io'[c], "recv") <=> Tcp!Contains(io[c], "recv")
             /\ Head(io[c]) = "queue" =>
                   /\ ~Tcp!Contains(io'[c], "recv") /\ ~Tcp!Contains(io[c], "recv")
                   /\ ~Tcp!Contains(io'[c], "send") /\ ~Tcp!Contains(io[c], "send")
  <2>1. io'[c] = Tail(io[c])
        BY <1>0, <1>5
  <2>2. io[c] \in {<<"queue">>, <<"recv", "queue">>, <<"send", "queue">>, <<"recv", "send", "queue">>}
        BY <1>0, <1>5 DEF Calls
  <2> QED BY <1>1, <1>3, <1>5, <2>1, <2>2
<1>6. Tcp!OnClientRecv(c) => io[c] # << >> /\ Head(io[c]) = "recv" /\ io' = [io EXCEPT ![c] = Tail(io[c])]
      BY DEF Tcp!OnClientRecv
<1>7. Tcp!OnClientSend(c) => io[c] # << >> /\ Head(io[c]) = "send" /\ io' = [io EXCEPT ![c] = Tail(io[c])]
      BY DEF Tcp!OnClientSend
<1>8. Tcp!Enqueue(c) => io[c] # << >> /\ Head(io[c]) = "queue" /\ io' = [io EXCEPT ![c] = Tail(io[c])]
      BY DEF Tcp!Enqueue
<1>9. /\ Tcp!OnClientRecv(c) =>
            /\ Tcp!Contains(io[c], "recv") /\ ~Tcp!Contains(io'[c], "recv")
            /\ Tcp!Contains(io'[c], "send") <=> Tcp!Contains(io[c], "send")
      /\ Tcp!OnClientSend(c) =>
            /\ Tcp!Contains(io[c], "send") /\ ~Tcp!Contains(io'[c], "send")
            /\ Tcp!Contains(io'[c], "recv") <=> Tcp!Contains(io[c], "recv")
  <2>1. ASSUME Tcp!OnClientRecv(c)
        PROVE  /\ Tcp!Contains(io[c], "recv") /\ ~Tcp!Contains(io'[c], "recv")
               /\ Tcp!Contains(io'[c], "send") <=> Tcp!Contains(io[c], "send")
    <3>1. io[c] # << >> /\ Head(io[c]) = "recv" /\ io' = [io EXCEPT ![c] = Tail(io[c])]
          BY <1>6, <2>1
    <3> QED BY <1>5, <3>1, Zenon
  <2>2. ASSUME Tcp!OnClientSend(c)
        PROVE  /\ Tcp!Contains(io[c], "send") /\ ~Tcp!Contains(io'[c], "send")
               /\ Tcp!Contains(io'[c], "recv") <=> Tcp!Contains(io[c], "recv")
    <3>1. io[c] # << >> /\ Head(io[c]) = "send" /\ io' = [io EXCEPT ![c] = Tail(io[c])]
          BY <1>7, <2>2
    <3> QED BY <1>5, <3>1, Zenon
  <2> QED BY <2>1, <2>2
<1>10. Tcp!Enqueue(c) =>
          /\ ~Tcp!Contains(io'[c], "recv") /\ ~Tcp!Contains(io[c], "recv")
          /\ ~Tcp!Contains(io'[c], "send") /\ ~Tcp!Contains(io[c], "send")
      BY <1>5, <1>8
<1> QED BY <1>4, <1>9, <1>10

\* Spans change with the handlers; packets only ever get more.
LEMMA HandlersStep == TcpInv /\ [Tcp!Next]_(Tcp!vars) => HandlersInv'
<1> SUFFICES ASSUME TcpInv, [Tcp!Next]_(Tcp!vars) PROVE HandlersInv'
    OBVIOUS
<1>0. TcpTypeOK /\ HandlersInv
      BY DEF TcpInv
<1>1. CASE Tcp!AddRecv \/ Tcp!AddSend
  <2>1. PICK a \in Clients : a = accepting /\ UNCHANGED accepted
        BY <1>0, <1>1 DEF TcpTypeOK, Tcp!AddRecv, Tcp!AddSend, Holding, Adding
  <2>2. \A c \in Clients \ {a} : span'[c] = span[c] /\ recvHandlers'[c] = recvHandlers[c]
        BY <1>0, <1>1, <2>1 DEF TcpTypeOK, Tcp!AddRecv, Tcp!AddSend
  <2>3. CASE Tcp!AddRecv
    <3>1. Spans(a, 0, 0)
          BY <2>1, <2>3 DEF TcpInv, RegistrationInv, Tcp!AddRecv, Holding, Adding
    <3>2. recvHandlers[a] = << >>
          BY <1>0, <2>1, <3>1 DEF HandlersInv, HandlersOf, Spans
    <3>3. /\ recvHandlers'[a] = Append(recvHandlers[a], "recv")
          /\ span'[a].recv = <<accepted[a]>> /\ span'[a].send = span[a].send
          BY <1>0, <2>1, <2>3 DEF TcpTypeOK, Tcp!AddRecv
    <3>4. recvHandlers'[a] = <<"recv">> /\ Spans(a, 1, 0)'
          BY <3>1, <3>2, <3>3 DEF Spans
    <3>5. HandlersOf(a)'
      <4>1. \A i \in 1..Len(span'[a].recv) : span'[a].recv[i] <= accepted'[a]
            BY <1>0, <2>1, <3>3, <3>4 DEF Spans, TcpTypeOK
      <4>2. Len(span'[a].recv) = 1 /\ Len(span'[a].send) = 0
            BY <3>4 DEF Spans
      <4> QED BY <3>4, <4>1, <4>2 DEF HandlersOf
    <3>6. \A c \in Clients \ {a} : HandlersOf(c)'
          BY <1>0, <2>1, <2>2 DEF HandlersInv, HandlersOf, Spans
    <3> QED BY <3>5, <3>6 DEF HandlersInv
  <2>4. CASE Tcp!AddSend
    <3>1. Spans(a, 1, 0)
          BY <2>1, <2>4 DEF TcpInv, RegistrationInv, Tcp!AddSend, Holding, Adding
    <3>2. recvHandlers[a] = <<"recv">>
          BY <1>0, <2>1, <3>1 DEF HandlersInv, HandlersOf, Spans
    <3>3. /\ recvHandlers'[a] = Append(recvHandlers[a], "send")
          /\ span'[a].send = <<accepted[a]>> /\ span'[a].recv = span[a].recv
          BY <1>0, <2>1, <2>4 DEF TcpTypeOK, Tcp!AddSend
    <3>4. recvHandlers'[a] = <<"recv", "send">> /\ Spans(a, 1, 1)'
          BY <3>1, <3>2, <3>3, AppendToOne DEF Spans
    <3>5. HandlersOf(a)'
      <4>1. \A i \in 1..Len(span'[a].send) : span'[a].send[i] <= accepted'[a]
            BY <1>0, <2>1, <3>3, <3>4 DEF Spans, TcpTypeOK
      <4>2. \A i \in 1..Len(span'[a].recv) : span'[a].recv[i] <= accepted'[a]
            BY <1>0, <2>1, <3>3 DEF HandlersInv, HandlersOf
      <4>3. Len(span'[a].recv) = 1
            BY <3>4 DEF Spans
      <4> QED BY <3>4, <4>1, <4>2, <4>3 DEF HandlersOf
    <3>6. \A c \in Clients \ {a} : HandlersOf(c)'
          BY <1>0, <2>1, <2>2 DEF HandlersInv, HandlersOf, Spans
    <3> QED BY <3>5, <3>6 DEF HandlersInv
  <2> QED BY <1>1, <2>3, <2>4
<1>2. CASE Tcp!RemoveRecv
  <2>1. PICK a \in Clients : a = clients[1] /\ Head(clients) = a /\ Listed(a) /\ UNCHANGED accepted
    <3>1. Len(clients) > 0 /\ Len(clients) \in Nat /\ clients \in Seq(Clients)
          BY <1>0, <1>2, EmptySeq DEF TcpTypeOK, Tcp!RemoveRecv
    <3> QED BY <1>2, <3>1, ElementOfSeq DEF Listed, Tcp!RemoveRecv
  <2>2. Spans(a, 1, 1)
        BY <1>2, <2>1 DEF TcpInv, RegistrationInv, Tcp!RemoveRecv, Leaving
  <2>3. recvHandlers[a] = <<"recv", "send">>
        BY <1>0, <2>1, <2>2 DEF HandlersInv, HandlersOf, Spans
  <2>4. /\ recvHandlers'[a] = <<"send">>
        /\ span'[a].recv = Append(span[a].recv, accepted[a]) /\ span'[a].send = span[a].send
        /\ \A c \in Clients \ {a} : span'[c] = span[c] /\ recvHandlers'[c] = recvHandlers[c]
        BY <1>0, <1>2, <2>1, <2>3, ListsOfHandlers DEF TcpTypeOK, Tcp!RemoveRecv
  <2>5. /\ span[a].recv \in Seq(Nat) /\ accepted[a] \in Nat
        BY <1>0, <2>1 DEF TcpTypeOK
  <2>6. /\ Len(span'[a].recv) = 2 /\ span'[a].recv[1] = span[a].recv[1] /\ span'[a].recv[2] = accepted[a]
    <3>1. Len(span[a].recv) = 1
          BY <2>2 DEF Spans
    <3> QED BY <2>4, <2>5, <3>1, AppendToSingle
  <2>7. span[a].recv[1] <= accepted[a] /\ accepted[a] <= accepted[a]
        BY <1>0, <2>1, <2>2, <2>5 DEF HandlersInv, HandlersOf, Spans
  <2>8. Spans(a, 2, 1)'
        BY <2>2, <2>4, <2>6 DEF Spans
  <2>9. HandlersOf(a)'
    <3>1. \A i \in 1..Len(span[a].send) : span[a].send[i] <= accepted[a]
          BY <1>0, <2>1 DEF HandlersInv, HandlersOf
    <3>2. \A i \in 1..Len(span'[a].recv) : span'[a].recv[i] <= accepted'[a]
          BY <2>1, <2>6, <2>7, <2>5
    <3>3. /\ recvHandlers'[a] = <<"send">> /\ Spans(a, 2, 1)'
          /\ span'[a].recv[1] <= span'[a].recv[2]
          /\ \A i \in 1..Len(span'[a].send) : span'[a].send[i] <= accepted'[a]
          BY <2>1, <2>4, <2>6, <2>7, <2>8, <3>1
    <3> QED BY <3>2, <3>3 DEF HandlersOf
  <2>10. ASSUME NEW c \in Clients \ {a} PROVE HandlersOf(c)'
    <3>1. HandlersOf(c) /\ accepted'[c] = accepted[c]
          BY <1>0, <2>1 DEF HandlersInv
    <3>2. span'[c] = span[c] /\ recvHandlers'[c] = recvHandlers[c]
          BY <2>4
    <3> QED BY <3>1, <3>2 DEF HandlersOf, Spans
  <2> QED BY <2>9, <2>10 DEF HandlersInv
<1>3. ASSUME NEW a \in Clients, Tcp!Receive(a) PROVE HandlersInv'
  <2>1. UNCHANGED <<span, recvHandlers>> /\ accepted' = [accepted EXCEPT ![a] = accepted[a] + 1]
        BY <1>3 DEF Tcp!Receive, Tcp!handlers, Tcp!history
  <2>2. \A c \in Clients : accepted[c] \in Nat /\ accepted'[c] \in Nat /\ accepted[c] <= accepted'[c]
        BY <1>0, <2>1, SMTT(30) DEF TcpTypeOK
  <2>3. \A c \in Clients : /\ \A i \in 1..Len(span[c].recv) : span[c].recv[i] \in Nat
                           /\ \A i \in 1..Len(span[c].send) : span[c].send[i] \in Nat
        BY <1>0, ElementOfSeq DEF TcpTypeOK
  <2>4. ASSUME NEW c \in Clients PROVE HandlersOf(c)'
    <3>1. HandlersOf(c)
          BY <1>0 DEF HandlersInv
    <3>2. \A n \in Nat : n <= accepted[c] => n <= accepted'[c]
          BY <2>2
    <3>3. /\ \A i \in 1..Len(span'[c].recv) : span'[c].recv[i] <= accepted'[c]
          /\ \A i \in 1..Len(span'[c].send) : span'[c].send[i] <= accepted'[c]
          BY <2>1, <2>3, <3>1, <3>2 DEF HandlersOf
    <3> QED BY <2>1, <3>1, <3>3 DEF HandlersOf, Spans
  <2> QED BY <2>4 DEF HandlersInv
<1>4. CASE UNCHANGED <<span, recvHandlers, accepted>>
      BY <1>0, <1>4 DEF HandlersInv, HandlersOf, Spans
<1>5. CASE \/ Tcp!Listen \/ Tcp!ListenFails \/ Tcp!AcceptAsync \/ Tcp!AcceptReset
           \/ Tcp!AcceptFails \/ Tcp!DisposeSocket \/ Tcp!OnServerState \/ Tcp!AcceptSuccess
           \/ Tcp!OnSocketSuccess \/ Tcp!OnSocketSuccessFails \/ Tcp!AddState \/ Tcp!AddList
           \/ Tcp!RemoveState
      BY <1>4, <1>5 DEF Tcp!Listen, Tcp!ListenFails, Tcp!AcceptAsync, Tcp!AcceptReset,
            Tcp!AcceptFails, Tcp!DisposeSocket, Tcp!OnServerState, Tcp!AcceptSuccess,
            Tcp!OnSocketSuccess, Tcp!OnSocketSuccessFails, Tcp!AddState, Tcp!AddList,
            Tcp!RemoveState, Tcp!handlers, Tcp!history
<1>6. ASSUME NEW c \in Clients,
             Tcp!Connect(c) \/ Tcp!OnClientRecv(c) \/ Tcp!OnClientSend(c) \/ Tcp!Enqueue(c)
             \/ \E t \in Closers : Tcp!OnClientState(c, t)
      PROVE  HandlersInv'
      BY <1>4, <1>6 DEF Tcp!Connect, Tcp!OnClientRecv, Tcp!OnClientSend, Tcp!Enqueue,
            Tcp!OnClientState, Tcp!StateTest, Tcp!StateSet, Tcp!StateRaise, Tcp!handlers, Tcp!history
<1>7. CASE UNCHANGED Tcp!vars
      BY <1>4, <1>7 DEF Tcp!vars, Tcp!handlers, Tcp!history
<1> QED BY <1>1, <1>2, <1>3, <1>5, <1>6, <1>7
        DEF Tcp!Next, Tcp!AcceptClient, Tcp!AddClient, Tcp!Disconnect, Tcp!AsyncReceive

\* Spans are numbers of packets received so far.
LEMMA SpanBounds ==
    ASSUME NEW c, HandlersOf(c), span[c].recv \in Seq(Nat), span[c].send \in Seq(Nat)
    PROVE  /\ Len(span[c].recv) > 0 => span[c].recv[1] \in Nat /\ span[c].recv[1] <= accepted[c]
           /\ Len(span[c].recv) = 2 => span[c].recv[2] \in Nat /\ span[c].recv[2] <= accepted[c]
           /\ Len(span[c].send) > 0 => span[c].send[1] \in Nat /\ span[c].send[1] <= accepted[c]
           /\ Len(span[c].recv) \in {0, 1, 2} /\ Len(span[c].send) \in {0, 1}
<1>1. /\ Len(span[c].recv) \in {0, 1, 2} /\ Len(span[c].send) \in {0, 1}
      BY DEF HandlersOf, Spans
<1>2. /\ \A i \in 1..Len(span[c].recv) : span[c].recv[i] <= accepted[c]
      /\ \A i \in 1..Len(span[c].send) : span[c].send[i] <= accepted[c]
      BY DEF HandlersOf
<1>3. /\ \A i \in 1..Len(span[c].recv) : span[c].recv[i] \in Nat
      /\ \A i \in 1..Len(span[c].send) : span[c].send[i] \in Nat
      BY ElementOfSeq
<1>4. Len(span[c].recv) > 0 => 1 \in 1..Len(span[c].recv)
      BY <1>1
<1>5. Len(span[c].recv) = 2 => 2 \in 1..Len(span[c].recv)
      OBVIOUS
<1>6. Len(span[c].send) > 0 => 1 \in 1..Len(span[c].send)
      BY <1>1
<1>7. Len(span[c].recv) > 0 => span[c].recv[1] \in Nat /\ span[c].recv[1] <= accepted[c]
      BY <1>2, <1>3, <1>4
<1>8. Len(span[c].recv) = 2 => span[c].recv[2] \in Nat /\ span[c].recv[2] <= accepted[c]
      BY <1>2, <1>3, <1>5
<1>9. Len(span[c].send) > 0 => span[c].send[1] \in Nat /\ span[c].send[1] <= accepted[c]
      BY <1>2, <1>3, <1>6
<1> QED BY <1>1, <1>7, <1>8, <1>9

LEMMA CallsStep == TcpInv /\ [Tcp!Next]_(Tcp!vars) => CallsInv'
<1> SUFFICES ASSUME TcpInv, [Tcp!Next]_(Tcp!vars) PROVE CallsInv'
    OBVIOUS
<1>0. TcpTypeOK /\ CallsInv /\ HandlersInv
      BY DEF TcpInv
<1>1. CASE Tcp!AddRecv \/ Tcp!AddSend
  <2>1. PICK a \in Clients : a = accepting /\ UNCHANGED <<accepted, io>>
        BY <1>0, <1>1 DEF TcpTypeOK, Tcp!AddRecv, Tcp!AddSend, Holding, Adding
  <2>2. \A c \in Clients \ {a} : span'[c] = span[c]
        BY <1>0, <1>1, <2>1 DEF TcpTypeOK, Tcp!AddRecv, Tcp!AddSend
  <2>3. \A c \in Clients \ {a} : CallsTo(c)'
        BY <1>0, <2>1, <2>2 DEF CallsInv, CallsTo
  <2>4. CASE Tcp!AddRecv
    <3>1. Spans(a, 0, 0)
          BY <2>1, <2>4 DEF TcpInv, RegistrationInv, Tcp!AddRecv, Holding, Adding
    <3>2. ~Tcp!Contains(io[a], "recv") /\ ~Tcp!Contains(io[a], "send")
          BY <1>0, <3>1 DEF CallsInv, CallsTo, Spans
    <3> QED BY <2>1, <2>3, <3>2 DEF CallsInv, CallsTo
  <2>5. CASE Tcp!AddSend
    <3>1. Spans(a, 1, 0)
          BY <2>1, <2>5 DEF TcpInv, RegistrationInv, Tcp!AddSend, Holding, Adding
    <3>2. ~Tcp!Contains(io[a], "send")
          BY <1>0, <3>1 DEF CallsInv, CallsTo, Spans
    <3>3. span'[a].recv = span[a].recv
          BY <1>0, <2>1, <2>5 DEF TcpTypeOK, Tcp!AddSend
    <3>4. CallsTo(a)'
          BY <1>0, <2>1, <3>2, <3>3 DEF CallsInv, CallsTo
    <3> QED BY <2>3, <3>4 DEF CallsInv
  <2> QED BY <1>1, <2>4, <2>5
<1>2. CASE Tcp!RemoveRecv
  <2>1. PICK a \in Clients : a = clients[1] /\ Head(clients) = a /\ Listed(a) /\ UNCHANGED <<accepted, io>>
    <3>1. Len(clients) > 0 /\ Len(clients) \in Nat /\ clients \in Seq(Clients)
          BY <1>0, <1>2, EmptySeq DEF TcpTypeOK, Tcp!RemoveRecv
    <3> QED BY <1>2, <3>1, ElementOfSeq DEF Listed, Tcp!RemoveRecv
  <2>2. Spans(a, 1, 1)
        BY <1>2, <2>1 DEF TcpInv, RegistrationInv, Tcp!RemoveRecv, Leaving
  <2>3. /\ span'[a].recv = Append(span[a].recv, accepted[a]) /\ span'[a].send = span[a].send
        /\ \A c \in Clients \ {a} : span'[c] = span[c]
    <3>1. span' = [span EXCEPT ![a].recv = Append(span[a].recv, accepted[a])]
          BY <1>2, <2>1 DEF Tcp!RemoveRecv
    <3>2. span \in [Clients -> [recv : Seq(Nat), send : Seq(Nat)]]
          BY <1>0 DEF TcpTypeOK
    <3> QED BY <2>1, <3>1, <3>2
  <2>4. span[a].recv \in Seq(Nat) /\ accepted[a] \in Nat
        BY <1>0, <2>1 DEF TcpTypeOK
  <2>5. Len(span'[a].recv) = 2 /\ span'[a].recv[1] = span[a].recv[1] /\ span'[a].recv[2] = accepted[a]
    <3>1. Len(span[a].recv) = 1
          BY <2>2 DEF Spans
    <3> QED BY <2>3, <2>4, <3>1, AppendToSingle
  <2>6. CallsTo(a)'
        BY <1>0, <2>1, <2>3, <2>5 DEF CallsInv, CallsTo
  <2>7. \A c \in Clients \ {a} : CallsTo(c)'
        BY <1>0, <2>1, <2>3 DEF CallsInv, CallsTo
  <2> QED BY <2>6, <2>7 DEF CallsInv
<1>3. ASSUME NEW a \in Clients, Tcp!Receive(a) PROVE CallsInv'
  <2>1. /\ UNCHANGED span
        /\ accepted' = [accepted EXCEPT ![a] = accepted[a] + 1]
        /\ io' = [io EXCEPT ![a] = Append(recvHandlers[a], "queue")]
        BY <1>3 DEF Tcp!Receive, Tcp!history
  <2>2. \A c \in Clients \ {a} : accepted'[c] = accepted[c] /\ io'[c] = io[c]
        BY <1>0, <2>1 DEF TcpTypeOK
  <2>3. \A c \in Clients \ {a} : CallsTo(c)'
        BY <1>0, <2>1, <2>2 DEF CallsInv, CallsTo
  <2>4. accepted[a] \in Nat /\ accepted'[a] = accepted[a] + 1
        BY <1>0, <2>1 DEF TcpTypeOK
  <2>5. /\ Tcp!Contains(io'[a], "recv") => Len(span[a].recv) = 1
        /\ Tcp!Contains(io'[a], "send") => Len(span[a].send) = 1
        BY <1>3, CallsOf
  <2>6. /\ Len(span[a].recv) = 1 => span[a].recv[1] <= accepted[a] /\ span[a].recv[1] \in Nat
        /\ Len(span[a].send) = 1 => span[a].send[1] <= accepted[a] /\ span[a].send[1] \in Nat
    <3>1. span[a].recv \in Seq(Nat) /\ span[a].send \in Seq(Nat)
          BY <1>0 DEF TcpTypeOK
    <3>2. HandlersOf(a)
          BY <1>0 DEF HandlersInv
    <3> QED BY <3>1, <3>2, SpanBounds
  <2>7. CallsTo(a)'
        BY <2>1, <2>4, <2>5, <2>6 DEF CallsTo
  <2> QED BY <2>3, <2>7 DEF CallsInv
<1>4. ASSUME NEW a \in Clients, Tcp!OnClientRecv(a) \/ Tcp!OnClientSend(a) \/ Tcp!Enqueue(a)
      PROVE  CallsInv'
  <2>1. UNCHANGED <<span, accepted>> /\ io' = [io EXCEPT ![a] = Tail(io[a])]
        BY <1>4 DEF Tcp!OnClientRecv, Tcp!OnClientSend, Tcp!Enqueue, Tcp!history
  <2>2. \A c \in Clients \ {a} : io'[c] = io[c]
        BY <1>0, <2>1 DEF TcpTypeOK
  <2>3. /\ Tcp!Contains(io'[a], "recv") => Tcp!Contains(io[a], "recv")
        /\ Tcp!Contains(io'[a], "send") => Tcp!Contains(io[a], "send")
        BY <1>4, CallsOf
  <2>4. CallsTo(a)'
        BY <1>0, <2>1, <2>3 DEF CallsInv, CallsTo
  <2>5. \A c \in Clients \ {a} : CallsTo(c)'
        BY <1>0, <2>1, <2>2 DEF CallsInv, CallsTo
  <2> QED BY <2>4, <2>5 DEF CallsInv
<1>5. CASE UNCHANGED <<span, io, accepted>>
      BY <1>0, <1>5 DEF CallsInv, CallsTo
<1>6. CASE \/ Tcp!Listen \/ Tcp!ListenFails \/ Tcp!AcceptAsync \/ Tcp!AcceptReset
           \/ Tcp!AcceptFails \/ Tcp!DisposeSocket \/ Tcp!OnServerState \/ Tcp!AcceptSuccess
           \/ Tcp!OnSocketSuccess \/ Tcp!OnSocketSuccessFails \/ Tcp!AddState \/ Tcp!AddList
           \/ Tcp!RemoveState
      BY <1>5, <1>6 DEF Tcp!Listen, Tcp!ListenFails, Tcp!AcceptAsync, Tcp!AcceptReset,
            Tcp!AcceptFails, Tcp!DisposeSocket, Tcp!OnServerState, Tcp!AcceptSuccess,
            Tcp!OnSocketSuccess, Tcp!OnSocketSuccessFails, Tcp!AddState, Tcp!AddList,
            Tcp!RemoveState, Tcp!handlers, Tcp!history
<1>7. ASSUME NEW c \in Clients, Tcp!Connect(c) \/ (\E t \in Closers : Tcp!OnClientState(c, t)) PROVE CallsInv'
      BY <1>5, <1>7 DEF Tcp!Connect, Tcp!OnClientState, Tcp!StateTest, Tcp!StateSet, Tcp!StateRaise, Tcp!handlers, Tcp!history
<1>8. CASE UNCHANGED Tcp!vars
      BY <1>5, <1>8 DEF Tcp!vars, Tcp!handlers, Tcp!history
<1> QED BY <1>1, <1>2, <1>3, <1>4, <1>6, <1>7, <1>8
        DEF Tcp!Next, Tcp!AcceptClient, Tcp!AddClient, Tcp!Disconnect, Tcp!AsyncReceive

LEMMA EndStep == TcpInv /\ [Tcp!Next]_(Tcp!vars) => EndInv'
<1> SUFFICES ASSUME TcpInv, [Tcp!Next]_(Tcp!vars), NEW c \in Clients PROVE EndOf(c)'
    BY DEF EndInv
<1>0. TcpTypeOK /\ EndOf(c)
      BY DEF TcpInv, EndInv
<1>4. CASE UNCHANGED <<session, connected, closing, early, doubled, stateReported>>
      BY <1>0, <1>4 DEF EndOf, Reporting
<1>9. CASE /\ session'[c] = session[c] /\ connected'[c] = connected[c] /\ closing'[c] = closing[c]
           /\ (c \in early') <=> (c \in early)
           /\ (c \in doubled') <=> (c \in doubled)
           /\ stateReported'[c] = stateReported[c]
      BY <1>0, <1>9 DEF EndOf, Reporting
<1>1. CASE Tcp!OnSocketSuccess \/ Tcp!OnSocketSuccessFails
  <2>1. PICK a \in Clients : a = accepting /\ session[a] = "waiting"
        BY <1>0, <1>1 DEF TcpTypeOK, TcpInv, RegistrationInv, Tcp!OnSocketSuccess,
                          Tcp!OnSocketSuccessFails, Holding, Adding
  <2>2. /\ UNCHANGED <<stateReported, closing, doubled>>
        /\ \/ /\ session' = [session EXCEPT ![a] = "open"] /\ early' = early
              /\ connected' = [connected EXCEPT ![a] = TRUE]
           \/ /\ session' = [session EXCEPT ![a] = "closed"] /\ early' = early \cup {a}
              /\ connected' = connected
        BY <1>1, <2>1 DEF Tcp!OnSocketSuccess, Tcp!OnSocketSuccessFails, Tcp!reports, Tcp!history, Tcp!ends
  <2>3. CASE c # a
        BY <1>0, <1>9, <2>2, <2>3 DEF TcpTypeOK
  <2>4. CASE c = a
    <3>1. ~connected[c] /\ stateReported[c] = << >> /\ \A t \in Closers : closing[c][t] = "idle"
          BY <1>0, <2>1, <2>4 DEF EndOf
    <3> QED BY <1>0, <2>2, <2>4, <3>1 DEF EndOf, Reporting, TcpTypeOK
  <2> QED BY <2>3, <2>4
<1>2. ASSUME NEW a \in Clients, Tcp!Connect(a) PROVE EndOf(c)'
  <2>1. /\ session[a] = "none" /\ session' = [session EXCEPT ![a] = "waiting"]
        /\ UNCHANGED <<connected, closing, early, doubled, stateReported>>
        BY <1>2 DEF Tcp!Connect, Tcp!reports, Tcp!history, Tcp!ends
  <2> QED BY <1>0, <2>1 DEF EndOf, Reporting, TcpTypeOK
<1>3. ASSUME NEW a \in Clients, NEW t \in Closers, Tcp!StateTest(a, t) PROVE EndOf(c)'
  <2>1. /\ session[a] \in {"open", "closed"} /\ connected[a] /\ closing[a][t] = "idle"
        /\ session' = [session EXCEPT ![a] = "closed"]
        /\ closing' = [closing EXCEPT ![a][t] = "set"]
        /\ UNCHANGED <<connected, early, stateReported>>
        /\ doubled' = IF \E u \in Closers : closing[a][u] = "set" THEN doubled \cup {a} ELSE doubled
        BY <1>3 DEF Tcp!StateTest, Tcp!reports
  <2>2. CASE c # a
        BY <1>0, <1>9, <2>1, <2>2 DEF TcpTypeOK
  <2>3. CASE c = a
    <3>1. /\ session'[c] = "closed" /\ connected'[c] = connected[c] /\ connected[c]
          /\ stateReported'[c] = stateReported[c] /\ stateReported[c] = << >>
          /\ \A u \in Closers : closing[c][u] # "raise"
          /\ \A u \in Closers : closing'[c][u] = IF u = t THEN "set" ELSE closing[c][u]
          BY <1>0, <2>1, <2>3 DEF EndOf, TcpTypeOK
    <3>2. c \notin doubled' => \A u \in Closers : closing[c][u] # "set"
          BY <2>1, <2>3
    <3> QED BY <3>1, <3>2 DEF EndOf, Reporting
  <2> QED BY <2>2, <2>3
<1>5. ASSUME NEW a \in Clients, NEW t \in Closers, Tcp!StateSet(a, t) PROVE EndOf(c)'
  <2>1. /\ closing[a][t] = "set"
        /\ closing' = [closing EXCEPT ![a][t] = "raise"]
        /\ connected' = [connected EXCEPT ![a] = FALSE]
        /\ UNCHANGED <<session, early, doubled, stateReported>>
        BY <1>5 DEF Tcp!StateSet, Tcp!reports, Tcp!history
  <2>2. CASE c # a
        BY <1>0, <1>9, <2>1, <2>2 DEF TcpTypeOK
  <2>3. CASE c = a
    <3>1. /\ session'[c] = session[c] /\ session[c] = "closed" /\ ~connected'[c]
          /\ stateReported'[c] = stateReported[c]
          /\ \A u \in Closers : closing'[c][u] = IF u = t THEN "raise" ELSE closing[c][u]
          BY <1>0, <2>1, <2>3 DEF EndOf, TcpTypeOK
    <3>2. c \notin doubled => /\ stateReported[c] = << >>
                             /\ \A u \in Closers : u # t => ~Reporting(c, u)
          BY <1>0, <2>1, <2>3 DEF EndOf, Reporting
    <3> QED BY <1>0, <2>1, <3>1, <3>2 DEF EndOf, Reporting
  <2> QED BY <2>2, <2>3
<1>6. ASSUME NEW a \in Clients, NEW t \in Closers, Tcp!StateRaise(a, t) PROVE EndOf(c)'
  <2>1. /\ closing[a][t] = "raise"
        /\ closing' = [closing EXCEPT ![a][t] = "idle"]
        /\ UNCHANGED <<session, connected, doubled>>
        /\ \/ early' = early \cup {a} /\ stateReported' = stateReported
           \/ /\ early' = early
              /\ stateReported' = [stateReported EXCEPT ![a] = Append(stateReported[a], FALSE)]
        BY <1>6 DEF Tcp!StateRaise
  <2>2. CASE c # a
        BY <1>0, <1>9, <2>1, <2>2 DEF TcpTypeOK
  <2>3. CASE c = a
    <3>1. /\ session'[c] = session[c] /\ session[c] = "closed" /\ ~connected'[c] /\ ~connected[c]
          /\ \A u \in Closers : closing'[c][u] = IF u = t THEN "idle" ELSE closing[c][u]
          BY <1>0, <2>1, <2>3 DEF EndOf, TcpTypeOK
    <3>2. c \notin doubled => /\ stateReported[c] = << >>
                             /\ \A u \in Closers : u # t => ~Reporting(c, u)
          BY <1>0, <2>1, <2>3 DEF EndOf, Reporting
    <3>3. \A u \in Closers : ~(Reporting(c, u)' /\ (u = t \/ ~Reporting(c, u)))
          BY <3>1 DEF Reporting
    <3>4. CASE c \in early' /\ stateReported'[c] = stateReported[c]
          BY <1>0, <2>1, <3>1, <3>2, <3>3, <3>4 DEF EndOf, Reporting
    <3>5. CASE stateReported'[c] = Append(stateReported[c], FALSE)
      <4>1. /\ Len(stateReported'[c]) = Len(stateReported[c]) + 1
            /\ \A i \in 1..Len(stateReported[c]) : stateReported'[c][i] = stateReported[c][i]
            /\ stateReported'[c][Len(stateReported[c]) + 1] = FALSE
            /\ Len(stateReported[c]) \in Nat
            BY <1>0, <3>5, AppendProperties DEF TcpTypeOK
      <4>2. \A i \in 1..Len(stateReported'[c]) : stateReported'[c][i] = FALSE
            BY <1>0, <4>1 DEF EndOf
      <4>3. stateReported'[c] # << >>
            BY <4>1
      <4>4. c \notin doubled' => Len(stateReported'[c]) <= 1
        <5>1. c \notin doubled => Len(stateReported[c]) = 0
              BY <3>2
        <5> QED BY <2>1, <4>1, <5>1
      <4>5. c \notin doubled' => \A u \in Closers : ~Reporting(c, u)'
            BY <2>1, <3>2, <3>3
      <4> QED BY <3>1, <4>2, <4>3, <4>4, <4>5 DEF EndOf, Reporting
    <3>6. \/ c \in early' /\ stateReported'[c] = stateReported[c]
          \/ stateReported'[c] = Append(stateReported[c], FALSE)
          BY <1>0, <2>1, <2>3 DEF TcpTypeOK
    <3> QED BY <3>4, <3>5, <3>6
  <2> QED BY <2>2, <2>3
<1>7. CASE \/ Tcp!Listen \/ Tcp!ListenFails \/ Tcp!AcceptAsync \/ Tcp!AcceptReset
           \/ Tcp!AcceptFails \/ Tcp!DisposeSocket \/ Tcp!OnServerState \/ Tcp!AcceptSuccess
           \/ Tcp!AddClient \/ Tcp!RemoveRecv \/ Tcp!RemoveState
      BY <1>4, <1>7 DEF Tcp!Listen, Tcp!ListenFails, Tcp!AcceptAsync, Tcp!AcceptReset,
            Tcp!AcceptFails, Tcp!DisposeSocket, Tcp!OnServerState, Tcp!AcceptSuccess, Tcp!AddClient,
            Tcp!AddState, Tcp!AddRecv, Tcp!AddSend, Tcp!AddList, Tcp!RemoveRecv, Tcp!RemoveState,
            Tcp!reports, Tcp!history, Tcp!ends
<1>8. ASSUME NEW a \in Clients, Tcp!AsyncReceive(a) PROVE EndOf(c)'
      BY <1>4, <1>8 DEF Tcp!AsyncReceive, Tcp!Receive, Tcp!OnClientRecv, Tcp!OnClientSend, Tcp!Enqueue,
            Tcp!reports, Tcp!history, Tcp!ends
<1>10. CASE UNCHANGED Tcp!vars
      BY <1>4, <1>10 DEF Tcp!vars, Tcp!reports, Tcp!history, Tcp!ends
<1> QED BY <1>1, <1>2, <1>3, <1>5, <1>6, <1>7, <1>8, <1>10
        DEF Tcp!Next, Tcp!AcceptClient, Tcp!Disconnect, Tcp!OnClientState

\* The numbers of the packets after the first a, up to b.
Upto(a, b) == [i \in 1..(b - a) |-> a + i]

\* Covered, of a span, the number of packets received and whether the call is still to come.
Reached(s, n, pending) ==
    IF s = << >> THEN << >>
    ELSE LET until == IF Len(s) = 2 THEN s[2] ELSE n
             done  == IF pending /\ n <= until THEN n - 1 ELSE until
         IN  Upto(s[1], done)

LEMMA CoveredIsReached ==
    ASSUME NEW c, NEW s, NEW call
    PROVE  Tcp!Covered(c, s, call) = Reached(s, accepted[c], Tcp!Contains(io[c], call))
BY DEF Tcp!Covered, Reached, Upto

LEMMA UptoNext ==
    ASSUME NEW a \in Nat, NEW b \in Nat, a <= b
    PROVE  Append(Upto(a, b), b + 1) = Upto(a, b + 1)
<1>1. Upto(a, b) \in Seq(Nat) /\ Len(Upto(a, b)) = b - a
      BY DEF Upto
<1>2. Upto(a, b + 1) \in Seq(Nat) /\ Len(Upto(a, b + 1)) = b + 1 - a
      BY DEF Upto
<1>3. /\ Append(Upto(a, b), b + 1) \in Seq(Nat)
      /\ Len(Append(Upto(a, b), b + 1)) = b + 1 - a
      /\ \A i \in 1..(b - a) : Append(Upto(a, b), b + 1)[i] = Upto(a, b)[i]
      /\ Append(Upto(a, b), b + 1)[b - a + 1] = b + 1
      BY <1>1, AppendProperties
<1>4. /\ \A i \in 1..(b - a) : Upto(a, b)[i] = a + i /\ Upto(a, b + 1)[i] = a + i
      /\ Upto(a, b + 1)[b - a + 1] = b + 1
      BY DEF Upto
<1>5. \A i \in 1..(b + 1 - a) : Append(Upto(a, b), b + 1)[i] = Upto(a, b + 1)[i]
      BY <1>3, <1>4
<1> QED BY <1>2, <1>3, <1>5, SeqEqual

LEMMA UptoLast ==
    ASSUME NEW a \in Nat, NEW n \in Nat, a < n
    PROVE  Append(Upto(a, n - 1), n) = Upto(a, n)
<1> DEFINE b == n - 1
<1>1. b \in Nat /\ a <= b /\ b + 1 = n
      OBVIOUS
<1> QED BY <1>1, UptoNext

LEMMA UptoNothing == ASSUME NEW a \in Nat PROVE Upto(a, a) = << >>
BY DEF Upto

\* What is covered while a span is open, and when it is over.
LEMMA ReachedOpen ==
    ASSUME NEW s, Len(s) = 1, NEW n \in Nat, NEW p
    PROVE  Reached(s, n, p) = Upto(s[1], IF p THEN n - 1 ELSE n)
<1>1. s # << >>
      OBVIOUS
<1> QED BY <1>1 DEF Reached

LEMMA ReachedOver ==
    ASSUME NEW s, Len(s) = 2, NEW n \in Nat, s[2] \in Nat, s[2] <= n, NEW p, p => s[2] = n
    PROVE  Reached(s, n, p) = Upto(s[1], IF p THEN n - 1 ELSE s[2])
<1>1. s # << >>
      OBVIOUS
<1> QED BY <1>1 DEF Reached

LEMMA ReachedOpenBy ==
    ASSUME NEW s, Len(s) = 1, s[1] \in Nat, NEW n \in Nat
    PROVE  /\ Reached(s, n, TRUE) = Upto(s[1], n - 1)
           /\ Reached(s, n, FALSE) = Upto(s[1], n)
BY ReachedOpen

LEMMA ReachedOverBy ==
    ASSUME NEW s, Len(s) = 2, NEW n \in Nat, s[2] = n
    PROVE  /\ Reached(s, n, TRUE) = Upto(s[1], n - 1)
           /\ Reached(s, n, FALSE) = Upto(s[1], n)
<1>1. s # << >> /\ s[2] \in Nat /\ s[2] <= n
      OBVIOUS
<1>2. Reached(s, n, TRUE) = Upto(s[1], n - 1)
      BY <1>1, ReachedOver
<1>3. Reached(s, n, FALSE) = Upto(s[1], s[2])
      BY <1>1, ReachedOver
<1> QED BY <1>2, <1>3

\* A packet more while the handlers have still to be told of it changes nothing.
LEMMA ReachedPending ==
    ASSUME NEW s, Len(s) = 1, NEW n \in Nat, NEW m, m = n + 1
    PROVE  Reached(s, m, TRUE) = Reached(s, n, FALSE)
<1>1. m \in Nat /\ m - 1 = n
      OBVIOUS
<1>2. Reached(s, m, TRUE) = Upto(s[1], m - 1)
      BY <1>1, ReachedOpen
<1>3. Reached(s, n, FALSE) = Upto(s[1], n)
      BY ReachedOpen
<1> QED BY <1>1, <1>2, <1>3

RecvReports(c) == recvReported[c] = Reached(span[c].recv, accepted[c], Tcp!Contains(io[c], "recv"))
SendReports(c) == sendReported[c] = Reached(span[c].send, accepted[c], Tcp!Contains(io[c], "send"))

LEMMA ReportsStep ==
    ASSUME TcpInv, [Tcp!Next]_(Tcp!vars), NEW c \in Clients, RecvReports(c), SendReports(c)
    PROVE  RecvReports(c)' /\ SendReports(c)'
<1>0. TcpTypeOK /\ HandlersOf(c) /\ CallsTo(c)
      BY DEF TcpInv, HandlersInv, CallsInv
<1>1. /\ accepted[c] \in Nat /\ span[c].recv \in Seq(Nat) /\ span[c].send \in Seq(Nat)
      /\ Len(span[c].recv) \in Nat /\ Len(span[c].send) \in Nat
      /\ Len(span[c].recv) = 0 <=> span[c].recv = << >>
      /\ Len(span[c].send) = 0 <=> span[c].send = << >>
      BY <1>0, EmptySeq DEF TcpTypeOK
<1>2. /\ Len(span[c].recv) > 0 => span[c].recv[1] \in Nat /\ span[c].recv[1] <= accepted[c]
      /\ Len(span[c].recv) = 2 => span[c].recv[2] \in Nat /\ span[c].recv[2] <= accepted[c]
      /\ Len(span[c].send) > 0 => span[c].send[1] \in Nat /\ span[c].send[1] <= accepted[c]
      /\ Len(span[c].recv) \in {0, 1, 2} /\ Len(span[c].send) \in {0, 1}
      BY <1>0, <1>1, SpanBounds
<1>3. CASE Tcp!Receive(c)
  <2>1. /\ UNCHANGED <<span, recvReported, sendReported>> /\ accepted'[c] = accepted[c] + 1
        BY <1>0, <1>3 DEF Tcp!Receive, Tcp!reports, Tcp!history, TcpTypeOK
  <2>2. /\ ~Tcp!Contains(io[c], "recv") /\ ~Tcp!Contains(io[c], "send")
        /\ Tcp!Contains(io'[c], "recv") <=> Len(span[c].recv) = 1
        /\ Tcp!Contains(io'[c], "send") <=> Len(span[c].send) = 1
        BY <1>3, CallsOf
  <2>3. RecvReports(c)'
    <3>1. CASE Len(span[c].recv) = 0
          BY <1>1, <2>1, <3>1 DEF RecvReports, Reached
    <3>2. CASE Len(span[c].recv) = 1
      <4>1. Reached(span[c].recv, accepted'[c], TRUE) = Reached(span[c].recv, accepted[c], FALSE)
            BY <1>1, <2>1, <3>2, ReachedPending
      <4>2. Reached(span[c].recv, accepted[c], FALSE) = Reached(span[c].recv, accepted[c], Tcp!Contains(io[c], "recv"))
            BY <2>2 DEF Reached
      <4>3. Reached(span[c].recv, accepted'[c], TRUE) = Reached(span[c].recv, accepted'[c], Tcp!Contains(io'[c], "recv"))
            BY <2>2, <3>2 DEF Reached
      <4> QED BY <2>1, <4>1, <4>2, <4>3 DEF RecvReports
    <3>3. CASE Len(span[c].recv) = 2
      <4>1. Reached(span[c].recv, accepted[c], Tcp!Contains(io[c], "recv")) = Upto(span[c].recv[1], span[c].recv[2])
            BY <1>1, <1>2, <2>2, <3>3, ReachedOver
      <4>2. Reached(span[c].recv, accepted'[c], Tcp!Contains(io'[c], "recv")) = Upto(span[c].recv[1], span[c].recv[2])
        <5>1. accepted'[c] \in Nat /\ span[c].recv[2] <= accepted'[c] /\ ~Tcp!Contains(io'[c], "recv")
              BY <1>1, <1>2, <2>1, <2>2, <3>3
        <5> QED BY <1>2, <3>3, <5>1, ReachedOver
      <4> QED BY <2>1, <4>1, <4>2 DEF RecvReports
    <3> QED BY <1>2, <3>1, <3>2, <3>3
  <2>4. SendReports(c)'
    <3>1. CASE Len(span[c].send) = 0
          BY <1>1, <2>1, <3>1 DEF SendReports, Reached
    <3>2. CASE Len(span[c].send) = 1
      <4>1. Reached(span[c].send, accepted'[c], TRUE) = Reached(span[c].send, accepted[c], FALSE)
            BY <1>1, <2>1, <3>2, ReachedPending
      <4>2. Reached(span[c].send, accepted[c], FALSE) = Reached(span[c].send, accepted[c], Tcp!Contains(io[c], "send"))
            BY <2>2 DEF Reached
      <4>3. Reached(span[c].send, accepted'[c], TRUE) = Reached(span[c].send, accepted'[c], Tcp!Contains(io'[c], "send"))
            BY <2>2, <3>2 DEF Reached
      <4> QED BY <2>1, <4>1, <4>2, <4>3 DEF SendReports
    <3> QED BY <1>2, <3>1, <3>2
  <2> QED BY <2>3, <2>4
<1>4. CASE Tcp!OnClientRecv(c)
  <2>1. /\ UNCHANGED <<span, accepted, sendReported>>
        /\ recvReported'[c] = Append(recvReported[c], accepted[c])
        BY <1>0, <1>4 DEF Tcp!OnClientRecv, Tcp!history, TcpTypeOK
  <2>2. /\ Tcp!Contains(io[c], "recv") /\ ~Tcp!Contains(io'[c], "recv")
        /\ Tcp!Contains(io'[c], "send") <=> Tcp!Contains(io[c], "send")
        BY <1>4, CallsOf
  <2>3. Len(span[c].recv) > 0 /\ span[c].recv[1] < accepted[c]
        BY <1>0, <2>2 DEF CallsTo
  <2>4. /\ Reached(span[c].recv, accepted[c], TRUE) = Upto(span[c].recv[1], accepted[c] - 1)
        /\ Reached(span[c].recv, accepted[c], FALSE) = Upto(span[c].recv[1], accepted[c])
    <3>1. CASE Len(span[c].recv) = 1
      <4>1. span[c].recv[1] \in Nat
            BY <1>2, <2>3
      <4> QED BY <1>1, <3>1, <4>1, ReachedOpenBy
    <3>2. CASE Len(span[c].recv) = 2
      <4>1. span[c].recv[2] = accepted[c]
            BY <1>0, <2>2, <3>2 DEF CallsTo
      <4> QED BY <1>1, <3>2, <4>1, ReachedOverBy
    <3>3. Len(span[c].recv) = 1 \/ Len(span[c].recv) = 2
          BY <1>2, <2>3
    <3> QED BY <3>1, <3>2, <3>3
  <2>5. Append(Upto(span[c].recv[1], accepted[c] - 1), accepted[c]) = Upto(span[c].recv[1], accepted[c])
    <3>1. span[c].recv[1] \in Nat
          BY <1>2, <2>3
    <3> QED BY <1>1, <2>3, <3>1, UptoLast
  <2>6. recvReported[c] = Reached(span[c].recv, accepted[c], TRUE)
        BY <2>2 DEF RecvReports, Reached
  <2>7. Reached(span[c].recv, accepted[c], Tcp!Contains(io'[c], "recv")) = Reached(span[c].recv, accepted[c], FALSE)
        BY <2>2 DEF Reached
  <2>8. RecvReports(c)'
        BY <2>1, <2>4, <2>5, <2>6, <2>7 DEF RecvReports
  <2>9. SendReports(c)'
        BY <2>1, <2>2 DEF SendReports, Reached
  <2> QED BY <2>8, <2>9
<1>5. CASE Tcp!OnClientSend(c)
  <2>1. /\ UNCHANGED <<span, accepted, recvReported>>
        /\ sendReported'[c] = Append(sendReported[c], accepted[c])
        BY <1>0, <1>5 DEF Tcp!OnClientSend, Tcp!history, TcpTypeOK
  <2>2. /\ Tcp!Contains(io[c], "send") /\ ~Tcp!Contains(io'[c], "send")
        /\ Tcp!Contains(io'[c], "recv") <=> Tcp!Contains(io[c], "recv")
        BY <1>5, CallsOf
  <2>3. Len(span[c].send) = 1 /\ span[c].send[1] < accepted[c]
        BY <1>0, <1>2, <2>2 DEF CallsTo
  <2>4. /\ Reached(span[c].send, accepted[c], TRUE) = Upto(span[c].send[1], accepted[c] - 1)
        /\ Reached(span[c].send, accepted[c], FALSE) = Upto(span[c].send[1], accepted[c])
    <3>1. span[c].send[1] \in Nat
          BY <1>2, <2>3
    <3> QED BY <1>1, <2>3, <3>1, ReachedOpenBy
  <2>5. Append(Upto(span[c].send[1], accepted[c] - 1), accepted[c]) = Upto(span[c].send[1], accepted[c])
    <3>1. span[c].send[1] \in Nat
          BY <1>2, <2>3
    <3> QED BY <1>1, <2>3, <3>1, UptoLast
  <2>6. sendReported[c] = Reached(span[c].send, accepted[c], TRUE)
        BY <2>2 DEF SendReports, Reached
  <2>7. Reached(span[c].send, accepted[c], Tcp!Contains(io'[c], "send")) = Reached(span[c].send, accepted[c], FALSE)
        BY <2>2 DEF Reached
  <2>8. SendReports(c)'
        BY <2>1, <2>4, <2>5, <2>6, <2>7 DEF SendReports
  <2>9. RecvReports(c)'
        BY <2>1, <2>2 DEF RecvReports, Reached
  <2> QED BY <2>8, <2>9
<1>6. CASE Tcp!AddRecv /\ accepting = c
  <2>1. /\ UNCHANGED <<accepted, io, recvReported, sendReported>>
        /\ span'[c].recv = <<accepted[c]>> /\ span'[c].send = span[c].send
        BY <1>0, <1>6 DEF Tcp!AddRecv, Tcp!reports, TcpTypeOK
  <2>2. Spans(c, 0, 0)
        BY <1>6 DEF TcpInv, RegistrationInv, Tcp!AddRecv, Holding, Adding
  <2>3. span[c].recv = << >> /\ ~Tcp!Contains(io[c], "recv")
        BY <1>0, <1>1, <2>2 DEF CallsTo, Spans
  <2>4. Reached(<<accepted[c]>>, accepted[c], Tcp!Contains(io[c], "recv")) = Upto(accepted[c], accepted[c])
    <3>1. Len(<<accepted[c]>>) = 1 /\ <<accepted[c]>>[1] = accepted[c]
          OBVIOUS
    <3> QED BY <1>1, <2>3, <3>1, ReachedOpen
  <2>5. Reached(span[c].recv, accepted[c], Tcp!Contains(io[c], "recv")) = << >>
        BY <2>3 DEF Reached
  <2>6. RecvReports(c)'
        BY <1>1, <2>1, <2>4, <2>5, UptoNothing DEF RecvReports
  <2>7. SendReports(c)'
        BY <2>1 DEF SendReports
  <2> QED BY <2>6, <2>7
<1>7. CASE Tcp!AddSend /\ accepting = c
  <2>1. /\ UNCHANGED <<accepted, io, recvReported, sendReported>>
        /\ span'[c].send = <<accepted[c]>> /\ span'[c].recv = span[c].recv
        BY <1>0, <1>7 DEF Tcp!AddSend, Tcp!reports, TcpTypeOK
  <2>2. Spans(c, 1, 0)
        BY <1>7 DEF TcpInv, RegistrationInv, Tcp!AddSend, Holding, Adding
  <2>3. span[c].send = << >> /\ ~Tcp!Contains(io[c], "send")
        BY <1>0, <1>1, <2>2 DEF CallsTo, Spans
  <2>4. Reached(<<accepted[c]>>, accepted[c], Tcp!Contains(io[c], "send")) = Upto(accepted[c], accepted[c])
    <3>1. Len(<<accepted[c]>>) = 1 /\ <<accepted[c]>>[1] = accepted[c]
          OBVIOUS
    <3> QED BY <1>1, <2>3, <3>1, ReachedOpen
  <2>5. Reached(span[c].send, accepted[c], Tcp!Contains(io[c], "send")) = << >>
        BY <2>3 DEF Reached
  <2>6. SendReports(c)'
        BY <1>1, <2>1, <2>4, <2>5, UptoNothing DEF SendReports
  <2>7. RecvReports(c)'
        BY <2>1 DEF RecvReports
  <2> QED BY <2>6, <2>7
<1>8. CASE Tcp!RemoveRecv /\ c = clients[1]
  <2>1. Head(clients) = c /\ Listed(c)
    <3>1. Len(clients) > 0 /\ Len(clients) \in Nat /\ clients \in Seq(Clients)
          BY <1>0, <1>8, EmptySeq DEF TcpTypeOK, Tcp!RemoveRecv
    <3> QED BY <1>8, <3>1 DEF Listed
  <2>2. Spans(c, 1, 1)
        BY <1>8, <2>1 DEF TcpInv, RegistrationInv, Tcp!RemoveRecv, Leaving
  <2>3. /\ UNCHANGED <<accepted, io, recvReported, sendReported>>
        /\ span'[c].recv = Append(span[c].recv, accepted[c]) /\ span'[c].send = span[c].send
    <3>1. /\ span' = [span EXCEPT ![c].recv = Append(span[c].recv, accepted[c])]
          /\ UNCHANGED <<accepted, io, recvReported, sendReported>>
          BY <1>8, <2>1 DEF Tcp!RemoveRecv, Tcp!reports
    <3>2. span \in [Clients -> [recv : Seq(Nat), send : Seq(Nat)]]
          BY <1>0 DEF TcpTypeOK
    <3> QED BY <3>1, <3>2
  <2>4. Len(span'[c].recv) = 2 /\ span'[c].recv[1] = span[c].recv[1] /\ span'[c].recv[2] = accepted[c]
    <3>1. Len(span[c].recv) = 1
          BY <2>2 DEF Spans
    <3> QED BY <1>1, <2>3, <3>1, AppendProperties
  <2>5. Reached(span[c].recv, accepted[c], Tcp!Contains(io[c], "recv"))
        = Upto(span[c].recv[1], IF Tcp!Contains(io[c], "recv") THEN accepted[c] - 1 ELSE accepted[c])
        BY <1>1, <2>2, ReachedOpen DEF Spans
  <2>6. Reached(span'[c].recv, accepted[c], Tcp!Contains(io[c], "recv"))
        = Upto(span[c].recv[1], IF Tcp!Contains(io[c], "recv") THEN accepted[c] - 1 ELSE accepted[c])
    <3>1. span[c].recv \in Seq(Nat) /\ accepted[c] \in Nat
          BY <1>1
    <3>2. span'[c].recv \in Seq(Nat)
          BY <2>3, <3>1, AppendTyped
    <3> QED BY <2>4, <3>1, <3>2, ReachedOver
  <2>7. RecvReports(c)'
        BY <2>3, <2>5, <2>6 DEF RecvReports
  <2>8. SendReports(c)'
        BY <2>3 DEF SendReports
  <2> QED BY <2>7, <2>8
<1>9. CASE /\ recvReported'[c] = recvReported[c] /\ sendReported'[c] = sendReported[c]
           /\ span'[c] = span[c] /\ accepted'[c] = accepted[c] /\ io'[c] = io[c]
      BY <1>9 DEF RecvReports, SendReports
<1>10. CASE Tcp!Enqueue(c)
  <2>1. UNCHANGED <<span, accepted, recvReported, sendReported>>
        BY <1>10 DEF Tcp!Enqueue, Tcp!reports, Tcp!history
  <2>2. /\ Tcp!Contains(io'[c], "send") <=> Tcp!Contains(io[c], "send")
        /\ Tcp!Contains(io'[c], "recv") <=> Tcp!Contains(io[c], "recv")
        BY <1>10, CallsOf
  <2> QED BY <2>1, <2>2 DEF RecvReports, SendReports, Reached
<1>11. ASSUME NEW d \in Clients, d # c, Tcp!AsyncReceive(d) PROVE RecvReports(c)' /\ SendReports(c)'
  <2>1. /\ recvReported'[c] = recvReported[c] /\ sendReported'[c] = sendReported[c]
        /\ span'[c] = span[c] /\ accepted'[c] = accepted[c] /\ io'[c] = io[c]
        BY <1>0, <1>11 DEF Tcp!AsyncReceive, Tcp!Receive, Tcp!OnClientRecv, Tcp!OnClientSend,
              Tcp!Enqueue, Tcp!reports, Tcp!history, TcpTypeOK
  <2> QED BY <1>9, <2>1
<1>12. CASE (Tcp!AddRecv \/ Tcp!AddSend) /\ accepting # c
  <2>1. /\ UNCHANGED <<recvReported, sendReported, accepted, io>> /\ span'[c] = span[c]
        BY <1>0, <1>12 DEF Tcp!AddRecv, Tcp!AddSend, Tcp!reports, TcpTypeOK
  <2> QED BY <1>9, <2>1
<1>13. CASE Tcp!RemoveRecv /\ c # clients[1]
  <2>1. Head(clients) = clients[1]
    <3>1. clients # << >> /\ clients \in Seq(Clients)
          BY <1>0, <1>13 DEF TcpTypeOK, Tcp!RemoveRecv
    <3> QED BY <3>1
  <2>2. /\ span' = [span EXCEPT ![clients[1]].recv = Append(@, accepted[clients[1]])]
        /\ UNCHANGED <<recvReported, sendReported, accepted, io>>
        BY <1>13, <2>1 DEF Tcp!RemoveRecv, Tcp!reports
  <2>3. span'[c] = span[c]
        BY <1>0, <1>13, <2>2 DEF TcpTypeOK
  <2> QED BY <1>9, <2>2, <2>3
<1>14. CASE UNCHANGED <<recvReported, sendReported, span, accepted, io>>
      BY <1>9, <1>14
<1>15. CASE \/ Tcp!Listen \/ Tcp!ListenFails \/ Tcp!AcceptAsync \/ Tcp!AcceptReset
            \/ Tcp!AcceptFails \/ Tcp!DisposeSocket \/ Tcp!OnServerState \/ Tcp!AcceptSuccess
            \/ Tcp!OnSocketSuccess \/ Tcp!OnSocketSuccessFails \/ Tcp!AddState \/ Tcp!AddList
            \/ Tcp!RemoveState
      BY <1>14, <1>15 DEF Tcp!Listen, Tcp!ListenFails, Tcp!AcceptAsync, Tcp!AcceptReset,
            Tcp!AcceptFails, Tcp!DisposeSocket, Tcp!OnServerState, Tcp!AcceptSuccess,
            Tcp!OnSocketSuccess, Tcp!OnSocketSuccessFails, Tcp!AddState, Tcp!AddList,
            Tcp!RemoveState, Tcp!reports, Tcp!history
<1>16. ASSUME NEW d \in Clients, Tcp!Connect(d) \/ (\E t \in Closers : Tcp!OnClientState(d, t))
       PROVE  RecvReports(c)' /\ SendReports(c)'
      BY <1>14, <1>16 DEF Tcp!Connect, Tcp!OnClientState, Tcp!StateTest, Tcp!StateSet, Tcp!StateRaise, Tcp!reports, Tcp!history
<1>17. CASE UNCHANGED Tcp!vars
      BY <1>14, <1>17 DEF Tcp!vars, Tcp!reports, Tcp!history
<1>18. ASSUME NEW d \in Clients, Tcp!AsyncReceive(d) PROVE RecvReports(c)' /\ SendReports(c)'
      BY <1>3, <1>4, <1>5, <1>10, <1>11, <1>18 DEF Tcp!AsyncReceive
<1> QED BY <1>6, <1>7, <1>8, <1>12, <1>13, <1>15, <1>16, <1>17, <1>18
        DEF Tcp!Next, Tcp!AcceptClient, Tcp!AddClient, Tcp!Disconnect

\* The invariant is kept.
LEMMA TcpStep == TcpInv /\ [Tcp!Next]_(Tcp!vars) => TcpInv'
<1> SUFFICES ASSUME TcpInv, [Tcp!Next]_(Tcp!vars) PROVE TcpInv'
    OBVIOUS
<1>1. EndInv'
      BY EndStep
<1>2. \A c \in Clients : Tcp!ReportsWhileRegistered(c)'
  <2> SUFFICES ASSUME NEW c \in Clients PROVE Tcp!ReportsWhileRegistered(c)'
      OBVIOUS
  <2>1. Tcp!ReportsWhileRegistered(c)
        BY DEF TcpInv, EventsAreReported, Tcp!EventsAreReported
  <2>2. RecvReports(c) /\ SendReports(c)
        BY <2>1, CoveredIsReached DEF Tcp!ReportsWhileRegistered, RecvReports, SendReports
  <2>3. RecvReports(c)' /\ SendReports(c)'
        BY <2>2, ReportsStep
  <2> QED BY <2>3 DEF Tcp!ReportsWhileRegistered, RecvReports, SendReports, Tcp!Covered, Reached, Upto
<1>3. \A c \in Clients : Tcp!LossIsReported(c)'
  <2> SUFFICES ASSUME NEW c \in Clients PROVE Tcp!LossIsReported(c)'
      OBVIOUS
  <2>1. EndOf(c)' /\ TcpTypeOK'
        BY <1>1, TcpTypeStep DEF EndInv
  <2>2. (\A i \in 1..Len(stateReported[c]) : stateReported[c][i] = FALSE)'
        BY <2>1 DEF EndOf
  <2>3. (Len(stateReported[c]) > 1 => c \in doubled)'
    <3>1. Len(stateReported'[c]) \in Nat
          BY <2>1 DEF TcpTypeOK
    <3> QED BY <2>1, <3>1 DEF EndOf
  <2>4. (Tcp!Ended(c) => c \in early \/ stateReported[c] # << >>)'
        BY <2>1 DEF EndOf, Tcp!Ended
  <2> QED BY <2>2, <2>3, <2>4 DEF Tcp!LossIsReported
<1>4. EventsAreReported'
      BY <1>2, <1>3 DEF EventsAreReported, Tcp!EventsAreReported
<1> QED BY <1>1, <1>4, TcpTypeStep, RegistrationStep, HandlersStep, CallsStep DEF TcpInv

-----------------------------------------------------------------------------
(* Of the program as a whole: a step of one server leaves the other alone. *)

LEMMA ServersRunServer == ServersSpec => Tcp!Spec
<1>1. ServersInit => Tcp!Init
      BY DEF ServersInit
<1>2. [ServersNext]_<<part, vars, tcpVars>> => [Tcp!Next]_(Tcp!vars)
      BY DEF ServersNext, tcpVars, Tcp!vars, Tcp!serverVars, Tcp!ends, Tcp!handlers, Tcp!reports, Tcp!history
<1> QED BY <1>1, <1>2, PTL DEF ServersSpec, Tcp!Spec

\* What the listeners of the server hear of its clients, whatever they are and however many
\* packets they send: exactly what comes while they are registered, once and in order.
\* Server.ClientSend reports received packets and never stops.
THEOREM ReportsCorrect == ServersSpec => []EventsAreReported
<1>1. TcpInv => EventsAreReported
      BY DEF TcpInv
<1> QED BY <1>1, TcpInit, TcpStep, ServersRunServer, PTL DEF Tcp!Spec

=============================================================================
