# BotBase+ in TLA+

BotBase+ puts a proxy between a program and the servers it talks to.  A DLL
(`InjX86`, `Mapping64`) injected into the program hooks `connect`: the socket is
connected to port 8089 of the local machine instead, and its first bytes name the
wanted destination.  `Aeon.Internal` is the proxy: it accepts the connection,
opens one of its own to that destination, and passes everything on in both
directions; datagrams go through a table of linked endpoints.  A packet editor
shows what passes and can send any of it again.  The repository also carries the
machine-independent half of the assembler library asmjit, with which the x64 hooks
were once written (`Mapping64.cpp:210-275`, commented out).

This directory holds TLA+ modules of the parts of that system where several
threads, several messages or several machines must agree, the TLC
configurations that check them, and TLAPS proofs.  `PROJECT.json` maps every
definition to the lines it stands for, lists the runs, a mutant for every
property, the hazards and the theorems.

## 1. The system

| Component | State | Operations | Talks to |
|---|---|---|---|
| **Client** (`Network/Client.cs`) | `handle`, `Connected`, `sendBuffers` + `sendingPackets`, `readBuffers` + `readingPackets` | `BeginListen`, `BeginListenUdp`, `Connect`; the receive callbacks; `Send`; two thread-pool work items; `Disconnect` | socket; the `ClientState`, `ClientRecv`, `ClientSend` events; its subclass through `AsyncRecvProcess(packet)` |
| **ClientMain** (`ClientExtensions/ClientMain.cs`) | the header collected so far, `readOffset`, `handshakeComplete`, `Relay` | `AsyncRecvProcess(packet)`, `ConnectRelay` | its relay by `Send` |
| **ClientRelay** (`ClientRelay.cs`) | `Parent` | `AsyncRecvProcess(packet)` | its parent by `Send` |
| **UdpServer** (`UdpServer.cs`) | `links` | `AsyncRecvProcess(packet)`, `AddLink` | datagram socket; read by the packet editor |
| **Server** (`Server.cs`) | `socket`, `Listening`, `clients` | `Listen`, `AcceptClient`, `AddClient`, `Disconnect` | constructs ClientMain, forwards the events of all clients |
| **NetworkManager** (`Classes/NetworkManager.cs`) | both servers, two delegates | tells local packets from remote ones | Server, UdpServer, PacketEditor |
| **PacketEditor** (`UI/PacketEditor.xaml.cs`) | lists of packets and of connections, a filter | capture, replay, monitor, save | delegates of NetworkManager; `Send` of the clients |
| **Plugins** (`PluginHandler`, `AssemblyLoader`, `PluginsHelper`, `PluginsValidator`, `ProxyBase`) | `LaunchedPlugins`, `IsLoaded` | fetch, validate, launch, stop | AppDomains |
| **Connect hook** (`InjX86.cpp`; `Mapping64.cpp` and `hook.asm` for x64) | four globals of the host process | `hookConnect`, `hookWSAConnect` | the host's threads; the proxy, by a frame |
| **Patching** (`HookFunc` in both) | the first bytes of a function, a trampoline | once per hooked function, at start-up | the host's threads, which may be in that function |
| **asmjit: executable memory** (`vmem.cpp`, `runtime.cpp`) | regions with bit maps, in a list and a tree; permanent chunks | `alloc`, `shrink`, `release`, `reset`; `_add`, `_release` | the operating system |
| **asmjit: arenas and pools** (`zone.cpp`, `constpool.cpp`) | blocks and a cursor; slots; hash buckets; one tree per size | `alloc`, `release`, `grow`, `put`, `get`, `add`, `fill` | every other part of asmjit |
| **asmjit: code holder** (`codeholder.cpp`, `assembler.cpp`) | buffer, labels with links, relocations | `attach`, `newLabelId`, `bind`, `embed`, `relocate` | the runtime |
| **asmjit: node list, register allocation** (`codebuilder.cpp`, `codecompiler.cpp`, `regalloc.cpp`) | nodes and a cursor; cells; liveness bits | `addNode`, `removeNode`, `newFunc`, `_newVarCell`, `livenessAnalysis` | a backend that is not in the repository |
| Injectors, `Utils`, `Serializer`, `SQLiteClient`, `RawSocket`, `IPHeader`, start-up code | – | – | Windows, files, database |

What is hard in it:

- *Concurrency in Client.*  An I/O callback, the threads that call `Send`, and up
  to two kinds of work items share fields under four different locks, and
  `handle` and `Connected` under none.
- *Streams.*  TCP cuts the header anywhere; one chunk may hold header and payload.
- *Failure.*  A relay connection that fails, a socket that fails in one thread
  while another closes it, a session that ends before it is registered.
- *Unsynchronised globals* in the hook, which any thread of the host enters.
- *Two languages and two byte orders* for the same address.
- *Code that changes under a running thread*: a patched function, and hooks that count
  stack words by hand.
- *Data structures that only long sequences of calls bring to their corners*: a tree that
  copies nodes, a bit map with two arrays, arenas over arenas, links kept inside the code.

What makes each component correct: a Client delivers each direction in order and
completely as long as the connection lasts, never forgets to wake a work item and
tells of the end once all is quiet; ClientMain takes the destination from the
first six bytes and forwards the rest once; two wired sessions are a pipe;
UdpServer sends only between endpoints that were linked; Server reports what its
clients do for as long as they are registered; a hooked connect reaches the
proxy with its own destination, and a patched function does what it did; an allocator
gives no byte to two owners and finds all that it must take back; a label or a constant
is found where the code says it is; a variable that is needed later is known to be live.

## 2. Modules

| Module | Models | Kind |
|---|---|---|
| `Pipe` | what a byte pipe promises: order, no loss, no repetition, delivery until it breaks | abstract specification |
| `Client` | one session of `Client.cs` | detailed; implements `Pipe` twice |
| `Handshake` | `ClientMain.AsyncRecvProcess` and `ConnectRelay` | detailed |
| `RelaySession` | ClientMain and ClientRelay wired to each other, over their Clients | composition; implements `Pipe` twice, socket to socket |
| `UdpServer` | the link table, relaying, and replay by the editor | detailed |
| `Server` | accept loop, registration, events, end of the server | detailed |
| `ConnectHook` | `hookConnect`, `PatchSockAddr`, `SendPatch`, by any number of threads | detailed |
| `AddressFrame` | the frame from `SendPatch` to `GetRelayEndPoint` and `GetEndPoint` | pure functions, checked end to end |
| `Capture` | receive callback, NetworkManager, dispatcher and the packet lists of all editor windows | detailed |
| `ConnectionMonitor` | `MonitorConnections` (the tasks `MetroWindow_Loaded` starts) against `Server.Clients` | detailed |
| `Replay` | TCP replay by ID, with relays that come and go | detailed |
| `Plugins` | the list of plugins, and `Launch` against `Stop` | detailed |
| `HookStack` | the instructions of all hooks, over an explicit stack | detailed |
| `Detour` | `HookFunc`, byte by byte, against threads in the function | detailed |
| `RbTree`, `VMem` | the red-black tree by itself; `VMemMgr` and the runtime over it | algorithm; detailed |
| `Zone` | `Zone`, `ZoneHeap` and a `ZoneVector` over one another | detailed |
| `ConstPool` | the pool of constants and its Andersson trees | detailed |
| `CodeHolder` | labels, links, relocations, one section, an attached assembler | detailed |
| `NamedLabels` | named labels in a `ZoneHash` | detailed |
| `CodeBuilder` | the list of nodes, functions and constant pools | detailed |
| `Liveness` | `RAPass::livenessAnalysis`, label by label | algorithm, against a reference definition |
| `StackCells` | memory cells of a function and their offsets | detailed |
| `BitUtils` | bit tricks and byte orders | pure functions, against reference definitions |
| `AsmJitData`, `CodeData` | those of asmjit's modules that have theorems, under names of their own | |
| `MCClient`, `MCRelay`, `MCServers`, `MCHooks`, `MCEditor`, `MCAsmJit` | symmetry sets and constant values for TLC | |
| `ClientProofs`, `RelayProofs`, `ServersProofs`, `HooksProofs`, `CaptureProofs`, `EditorProofs`, `AsmJitProofs`, `CodeProofs` | theorems | |

The last five MC modules hold several modules that share no state.  `part` says which one a
behaviour is about; the others keep their initial state, so that a run is one run of each
module, with its own instance, and nothing interleaves that does not in the program.  `MCAsmJit`
also builds and takes apart a `RbTree` of more nodes than `VMem`'s instance needs.

`X_Y` definitions (such as `SendStop_KeepFlag`) stand before the definition `X`
they vary; each is a plausible mistake in `X` and is used only to see that the
properties would notice it.

### Client

One action per access to shared state.  A `lock { }` block is one step: what it
guards is touched only under that lock, and where locks nest they are taken in
the order buffers, flag, so that blocks are serialisable and no deadlock hides
there.  `handle` and `Connected` are accessed outside any lock, and every read or
write is a step: `Disconnect` is `DisconnectTest`, `DisposeClose` or
`DisposeFault`, `DisposeNull`, `StateTest`, `StateSet`, `StateRaise`.
A thread is a program counter, `hand` is the packet in its local variable.
Packets are numbered; `accepted`, `sentOut`, `arrived` and `processed` record
what has crossed each border.  An exception that escapes from a pool thread ends
the process (`Crashed`), as .NET does.

Abstractions: a write to the socket is whole or fails; `BeginReceive` does not
complete inside the call; `Connected`, though not volatile, is read as it was last
written; a Client is opened once, as everywhere in the program.  `AsyncUdpReceive`
has the same control as `AsyncReceive` and is covered by it.

### Handshake

The stream is the sequence 1, 2, 3, …: byte *n* is its position, so that a header
is right exactly when it is 1..6 and the payload is what follows.  `Packet` gives
the handler the next chunk of any length; every iteration of its loop is one of
`RelayGone`, `BadOffset`, `Forward` + `RelaySend`, `ShortHeader`, `BadHeader`,
`ReadHeader` + `Connect` + `Result`.  `RelayDown` is the relay dying at any moment,
also between the test of `Relay.Connected` and `Send`.

### RelaySession

The two directions after the handshake.  Each session receives and sends through
its Client, of which only what `ClientProofs` shows is used: messages are passed on
in order (`Waiting`, `Passed`), receiving goes on with what has arrived, sending ends
with the socket.  A session is up, *closing* (its socket is closed but `Connected`
still set) or down, because `Send` and the handler test `Connected`, not the socket.

### UdpServer

`AddLink` is four dictionary operations under the lock; the editor reads the table
without it, so they are four steps.  A concurrent read gives the current entry or
none.  `ShortLinkPacket` is the frame too short for a port.

### Server

One thread runs the accept chain and `Disconnect` (a second never exists: the
next accept is started as the last act of the handler), and every client has a
receive callback.  An event is raised by reading the list of handlers once;
`AddClient` adds three, one step each.  `span` records which packets arrived while
each handler was there.  A session may be disconnected by several threads (`Closers`: its
receive callback and its sending work item), each through the test of `Connected`
(`StateTest`), the assignment (`StateSet`) and the event (`StateRaise`), so that the server may
hear twice of one end; `doubled` records when two of them were between the first two.

### ConnectHook

Every instruction that touches a global is a step.  A call records what it
wanted, where it was connected, which frame it sent, whose return address it took,
and whether another call overlapped.  Memory contents are sets of possible values
(`Maybe`): a structure another thread is writing may be read as either.  Addresses
are never freed, as in the code (the deletes stand after `ret`).  Port and host are
redirected in one step.

### AddressFrame

A word is its bytes in memory on a little-endian machine; `SwapBytes` is `htons`,
`htonl` and `NetworkToHostOrder`.  The frame may arrive cut.

### Capture

One action per handler call, dispatcher operation and click.  `Receive` takes a
packet and the delegate as it is then (C# delegates are immutable); for every window
in it, `Ignore` or `Invoke` tests `CapturePackets` on the callback's thread; the
callback then waits until the UI thread runs `RunOperation`; when no handler is left,
`Pass` enqueues the packet.  A constructor subscribes twice, `ShowPacketEditor` and
`SubscribeServer`; a closed window keeps its handlers, as the code does.

Abstractions: `Dispatcher.Invoke` posts at one priority, so operations run in the order
posted; a click may come before or after any of them, as input can be at hand before
an operation is posted.  Filters are left out, they only choose what one window shows; a
packet is its session and its number.
`seen`, `from` and `gone` are history for the properties.

### ConnectionMonitor

A round of a task is `Test` (the fields `token` and `tokenSource`, which a later
`Loaded` replaces, and the copy of the clients under their lock), `Filter` once per
client, because `Connected` is read one client at a time, `Invoke`, with which the task gets the
UI thread, `AddRows` once per client of the copy and `RemoveRows` once per row, during
which clients still come and go.  `Loaded` may
fire more than once in the life of a window, as WPF documents.  The sleep between
rounds is part of the last step.

### HookStack

Each of the fifteen hooks is a list of instructions, a word of the stack is symbolic (the return
address, a parameter, the first value of a register), `[esp + 0xC]` is `PushAt(3)`.
A call removes its parameters on x86; on x64 it may keep its register arguments in the
room the caller left, or not.  What a call may change besides is `Clobbered`.  Control
never depends on data here, so one thread and one pass over each hook are exhaustive.

### Detour

`memory` maps addresses to bytes, and a byte says what it is a byte of: of the original
function, of a jump with its distance, a `nop`, or of the code at the end of the x64
trampoline, whose effect on the stack is `Resume`.  `HookFunc` is the statements of the
two versions (`Begin`, `Copy`, `Alloc`, `Build`, `WriteJump` one byte at a time in any order,
`Fill`).  A caller fetches what stands at `ip`, whole or not, and goes astray (`Stray`) where
nobody's instruction begins.  Addresses wrap, and on x64 the distance loses its upper half.

### Replay

Every client object has what it has received (`readBuffers`) and what its `Send` accepted.
`ClientMain` and its relay have one `ID`; a relay fails, is replaced or goes at any time; a
client's entry in the list stays.  `SendPacketByModel` has two cases: a packet listed as the
client's goes to the relay that client has by then, one listed as the server's to the first
client that `FirstOrDefault` finds by `ID`.

### Plugins

`UpdatePluginsList` runs at every `Loaded` and replaces the list it filters by; `foundBy` and
`listedAt` record which files each load found and which load an entry is from.  A launch is
a thread that loads, sets `IsLoaded` and runs; `Stop` aborts the last one if the flag is set.
`stopped` are all threads that ran the plugin at a `Stop`, `lost` those that a later `Launch`
replaced before they were aborted.

### RbTree and VMem

`InsertNode` and `RemoveNode` follow the loops of the C++ statement by statement over a
"heap" of nodes, with the false root and the same rotations, as the order in which parents,
grandparents and colours are written is what can be wrong.  `VMem` has one action per
method, all under one lock: `Add` and `Relocated` are `JitRuntime::_add` (allocate, relocate,
then shrink or release), `ReleaseCode` is `_release`, and there is `Reset`.  A bit array is the
set of its set bits; the word-wise loops of the code are stated by what they set.  The system
maps a new region at any of `Addresses` that is free, or, when none is, the allocation fails.

### Zone

A `Zone` is a cursor over blocks; `ZoneHeap` takes and keeps chunks by size, cuts up what is
left of a block before it asks for another, and goes to `malloc` for large pieces; the vector
grows by allocating from the heap and releasing to it.  `malloc` fails or returns any
memory of `MallocAt` that is free; sizes of headers are those of a 32-bit build.  What is left of a
block goes to the slots in one step, as the loop at `zone.cpp:261-275` leaves it.  `Reset` keeps the
blocks or releases them all.  In the run, blocks have 200 bytes and `malloc` three places, so
that at most three pieces of its memory are in use at once: a block, one before it that a
larger request put there, and dynamic memory.

### ConstPool

`Add` with its trees by size (skew and split), gaps, and the parts of a constant that are
shared; `Fill` writes the pool out.  Data are sequences of bytes.

### CodeHolder and NamedLabels

The operations of an attached `Assembler` and of the holder: new labels, binding with the
patching of each kind of link, `embed`, `embedLabel`, a jump and a call as `bind` and `relocate` expect
them, `setOffset`, `sync` and detaching.  The loops are steps: `BindThen` takes a label's links,
`BindNext` resolves one (it patches a displacement, or adds to the data of a relocation) and
`BindEnd` makes the label bound; `Relocate` copies the code and `RelocateNext` does one relocation
of the copy, with its trampoline.  While a loop is under way nothing else happens, as both are
calls of one thread.  `embedConstPool` writes its constants behind a bind that did not fail
(`assembler.cpp:340`).  The test of `relocate` that a relocation is inside the code
(`codeholder.cpp:601`) is not an action: `LabelsResolve` says that it never fails.
`NamedLabels` is the hash table and the search whose key has no hash value; the
loop of `_rehash` moves one label a step, from the first bucket on, so that the invariant says
what the two tables hold between them at every pass.  `Hash`, the hash of a name and, for a local
label, its parent, is a constant: any function will do.  `newNamedLabelId` stores
`_parentId = 0` for all and looks for a name only; `parent` is kept for `NoDuplicates` and
`LocalsMayRepeat`.

### CodeBuilder, StackCells and Liveness

`CodeBuilder` is the doubly linked list under a cursor, and the chain of jumps of each label:
`AddNode`, `AddAfter`, `AddBefore`, `RemoveNodes` (of one or many), functions with their labels
and constant pools, and the removal of unreachable code.  The loops are steps: `RemoveNodes` cuts
the nodes out and takes leave of the first, `RemoveNext` of the next (`rest` has those still to
come); `RemoveUnreachable` begins a walk and `RemoveUnreachableNext` is a pass of its second loop,
which may end before any node, because which nodes have pass data is up to `fetch`.  The exit
label of a function is a label to that loop like any other (`isLabel`, `regalloc.cpp:332`).  The
walk of `CodeBuilder_nodeRemoved` along a label's jumps is the set of jumps it can meet
(`Chain`, the least set that the pointers do not lead out of), of which one is changed.  `bind`
does not ask whether its label is in the list: `Bind` puts it in all the same, and so may `Again`
with another node; what becomes of a list that has a node twice is followed no further.  With
`Debug` the assertions of `addNode`, `addAfter`, `addBefore` and `removeNodes` are guards; without,
they are not there, as in a release build.  `StackCells` has a new cell for a
register or a piece of stack, their order, and `resolveCellOffsets`: one action each for the
start positions of the sizes (`ResolveBegin`), a pass of the first loop (`ResolveVar`), what is
between the loops (`ResolveVarsEnd`), a pass of the second (`ResolveStackCell`), and the total.  `Liveness` is one action
per C++ label of `livenessAnalysis`, with the stack of targets; its programs are the
constant, and `LiveIn` is the textbook definition it is compared with.

### BitUtils

Each function of the portable path is called with one word and one number; the property compares
the result with arithmetic on sets of bits.  The masks are those of 32 bits, cut to the word.

## 3. Runs

| Run | Question | Bounds, and why they do |
|---|---|---|
| `client_send` | exclusion and quiescence of the sending side | 2 senders, 3 send work items (the third starts while one of two is still in `SendCleanup`), 3 packets (one written, one queued, one in a sender's hand) |
| `client_live` | refinement of `Pipe` with liveness; the gap between the two locks of `AsyncReceive`; a close is reported | 1 sender, 2 work items for each direction (one about to stop, one started for a new packet), 2 packets either way; no symmetry |
| `relay` | what becomes the header, what is forwarded, does every call end; refinement of `Pipe` end to end, half-open sessions | handshake: 14 bytes in chunks of up to 9, three attempts: the header in one to six pieces, with and without payload behind it, and two more headers' worth of bytes after it. Session: 3 chunks from each end: one processed, one in hand, one waiting |
| `handshake_failed` | is every attempt made with the header? (no) | 14 bytes in chunks of up to 9, three attempts |
| `servers` | links and where datagrams go; which events of a client reach the server's listeners | UDP: 4 endpoints, 4 datagrams, 1 replay: two pairs, a crosswise relink, a self link. TCP: 2 connections with 2 packets, both on one or one on each, before and after a step of registration or of the end; 2 threads that disconnect a session, the least that can report its end twice; 1 reset |
| `capture` | what the packet lists hold, in which order, and does traffic go on | the two sessions of a connection, 2 packets each, a window and its successor, 2 clicks: a clear and a change of capturing, or capturing off and on |
| `hooks` | does an address survive the trip; where a hook returns to and what it passes on; does a patched function do what it did; redirection, frame and return of overlapping and of single calls of `connect` | 256 addresses over four byte values that tell all positions apart, 12 ports, both protocols, every cut; all fifteen hooks and 8 words of the caller's frame, more than any hook could take by mistake; DWORDs of 5 bits, the three places on either side of each other and across the end of memory, one caller per behaviour (callers do not affect one another). `connect`: 2 threads, 3 calls: an overlapping pair and a call after it |
| `editor` | do the rows become the connections, and does the monitor end; does a replayed packet stay in its connection; what the list of plugins shows, and does `Stop` stop | 2 connections, one that stays and one that goes, and 2 tasks whose rounds overlap; 2 clients that may share an ID, 2 relays, 2 packets, 1 replay; 1 plugin, 4 loads, 2 launches, as the second loses the first thread |
| `asmjit` | see the list below | memory: two regions of two blocks, or of three where a piece of code takes more, so that a region is full, in part or empty again; a tree of five nodes (the smallest in which removal copies a node across a rotation); six constants of seven, every size; memory of three places for `malloc`, with chunks, blocks, a vector that grows into dynamic memory, and failures; one label with two uses, distances too far for a byte, and two places the code is copied to, one from which a target is near and one from which it needs a trampoline; four nodes, so that a label has up to three jumps, and a function its frame and one more; four cells in two functions; four labels, two rehashes; words of 16 bits, one half of which is 0 or 128; every program of a function, four nodes and a return over two variables |
| `label_names` | are names of labels unique? (no) | four labels in up to five buckets |
| `local_names` | may local labels of different parents have one name? (not always) | the same |
| `label_bound_twice` | is a second `bind` of a label an error? (no) | four nodes, with assertions |

Four runs show disagreements between the code and what it says of itself.

- `handshake_failed`: after `ConnectRelay` has failed nothing of the header is reset.  With payload
  behind the header in the same chunk the loop goes on at line 117 and reads the first bytes of that
  buffer or of `tempHeader` again; otherwise the first six bytes of the next chunk, which are payload,
  become the next "Relay destination" (`ClientMain.cs:131`, comment at 169).
- `label_names`: the constructor of `LabelByName` takes the hash value and does not store it
  (`codeholder.cpp:368`), so the lookup that shall not "allow to insert duplicates" (477)
  searches an arbitrary bucket.
- `local_names`: local labels shall "allow duplicates that have different id", "by having a different
  hashes" (477-479), but `matches` (374) compares names only, and labels with different hashes meet in
  one bucket, as all do before the first rehash.  The second is refused then, and would be if the
  key had its hash.
- `label_bound_twice`: "Attempt to bind the same label multiple times will return an error"
  (`codeemitter.h:201`).  `CodeBuilder::bind` (200-210) has no test, and the assertions of `addNode`
  (280-281), that the node has no neighbours, hold of the only node of the list, which is then
  linked to itself.

Another is to be seen without a run: `removeNodes` asserts at each pass that the node has a next
(`codebuilder.cpp:428`), before it tests for the end of the range (437), but a range may end with the
last node of the list (419 has a case for it), which has none.  With `Debug`, `RemoveNext` takes no step
there; the `asmjit` run and the theorem without it show that the loop is right but for the assertion.

Properties worth knowing besides those:

- `FaultNeedsOverlap`: the `NullReferenceException` of `DisposeHandle` needs two threads
  inside it at the same time; it does occur then, and ends the process.
- `ConsistentAtRest`: when no thread is inside a Client, `handle`, `Connected`, the two
  flags and the events raised agree.
- `CrashNeedsFailure`: the negative array length of `ClientMain.cs:73` needs an earlier
  relay connection that failed.
- `LatestPairLinked`: stale one-way links of an earlier pair remain, but the latest pair
  is linked both ways.
- `EventsAreReported`: `Server.ClientSend` announces packets *received* (line 166) and
  goes on after the server has disconnected (line 216); listeners hear of the end of a session
  and never of its beginning, and not of the end either if it came before `AddClient`.  They may
  hear of it twice, but only if two threads passed the test of `Connected` before either assigned it.
- `HalfOpenEnds`: the application is cut off from a dead relay when it sends once more.
  (That nothing else cuts it off is to be seen in the code, and is no property.)
- `CallReturns` excepts the calls after a relay connection has failed.
- `AloneIsServed`, `LostNeedsOverlap`: a call of `connect` that overlaps with no other
  is served correctly whatever happened before; overlapping calls are not.
  (That `mov eax, 0x00` at `InjX86.cpp:193` reports a failed or pending connect as
  successful too needs no run: `AloneIsServed` has to except it.)
- `HookIsTransparent` leaves out the return of `asm_hook_connect`, whose last `pop`s take six
  words that were never pushed (`hook.asm:57-62`), and `rsi` on x64, which the trampoline uses
  (`Mapping64.cpp:175-188`); it says that `asm_hook_wsaconnect` sends its frame on the socket
  of the last `asm_hook_connect` (`hook.asm:111`).
- `HookedOnce` leaves out the calls that `HookFunc` meets at its work, which do go astray, and
  on x64 hooks further away than four bytes of distance reach.
- `ListIsCausal`: the editor shows a question before its answer even though the two come
  on different threads, because a packet is passed on only after it has been listed.
- `TrafficPasses`: a packet waits for the UI thread once for every window ever opened
  that captures, visible or not; it does get through.
- `MonitorEnds`, `RowsSettle`: with two `Loaded` events two tasks update one list; they
  agree in the end, and both end with the window although only one token is cancelled.
- `StaysInConnection`: only a replayed answer can reach another connection, one with the
  same random ID, which the property excepts.
- `ListedEverySecondTime`: a plugin is listed, left out, and listed again: never by two loads in a row,
  and not left out by two in a row that find it.
- `StopEnds`: every thread that runs a plugin at a `Stop` ends, but for those that another `Launch`
  has replaced, which no later `Stop` reaches.
- `Accounted`, `TreeFindsCode`: through any additions, shrinks, releases and resets no two
  pieces of code share a byte, all counters are what the bits say, and every piece is found
  again although the tree moves data between nodes.
- `PiecesAreDisjoint`: no byte of the arenas has two owners.  `ConstantsReadBack`: a constant
  is where `add` said, also if it is part of another.
- `LabelsResolve`: whatever the order of use and binding, and wherever the code is put, a
  use leads to its label, or an error was reported; trampolines have the room reserved for
  them.  `NodesInOrder`: as long as no node is put into the list that is in it, both directions of the
  list and each label's chain of jumps say the same.
- `CellsAreDisjoint` does not speak of a register that had its cell in an earlier function:
  nothing takes that from it (`regalloc_p.h:406`).
- `LivenessIsFound`: what is needed later is live, through loops; more may be live than
  need be.
- `NamesAreFound`: the table itself is right; a search with the hash value a label was stored with
  would find it or another of its name.  What the search of the code, without that value, misses is
  the subject of `label_names`.
- `BitsAgree`: reading back a big-endian 64-bit word does not give what was written; all other
  pairs agree.

Deadlock is not checked where `CHECK_DEADLOCK FALSE` stands: these systems stop
when the bounded input is used up or the connection is closed.  That nothing stops
too early is what `ConsistentAtRest` and the liveness properties say.

### Fairness

- `Client!Fairness`: a thread that is inside the class goes on.  Thread-pool work items
  and I/O callbacks are run by .NET, a blocking `Send` ends, the handlers of events and
  `AsyncRecvProcess(packet)` return.  Nothing is assumed of callers or of the peer.
- `Handshake!FairSpec`: the handler runs on; the blocking `Connect` succeeds or fails.
- `RelaySession!FairSpec`: the work items of both sessions run on, and a `Disconnect`
  that has closed the socket goes on to clear `Connected`; no session need ever close.
- `Capture!FairSpec`: callbacks run on, and the UI thread runs what is posted to it and
  ends a constructor it has begun.  Nothing need be received or clicked.
- `ConnectionMonitor!Fairness`: the first `Loaded` is raised and tasks run on.  `Invoke`
  has strong fairness: the tasks' operations take turns on the UI thread, and its queue
  is first in, first out, so none waits for ever while others run again and again.
- `Plugins!Fairness`: a thread of which `Abort` was called ends; nothing is assumed of plugins.
- `AsmJitSpec`: the analysis of liveness runs on, in one thread.  The other parts have none.

## 4. Proofs

All theorems hold for every value of the constants under the assumptions named in
the modules (`BoundsAssumption`, `ThreadsAssumption`, `HookAssumption`,
`AddressAssumption`, `ChunksAssumption`, …), which say that bounds are natural
numbers and that the kinds of threads are disjoint.  Five say more about the program:

- `RandomAssumption` (`MCEditor`): no client has the ID 0, which stands for none.
- `FilesAssumption` (`MCEditor`): a directory has finitely many files.
- `LayoutAssumption` (`MCHooks`): the function, its trampoline and the hook do not overlap,
  because the trampoline is memory of its own (`InjX86.cpp:745`, `Mapping64.cpp:204`) and the hook
  is in the DLL; the instructions are in ascending order; and the moved bytes end where an
  instruction does, for which the callers of `HookFunc` choose the length.
- `CellsAssumption` (`CodeData`): a register's size is a power of two up to 64, or
  `_newVarCell` is at `ASMJIT_NOT_REACHED` (`regalloc.cpp:197`); a piece of stack has a size; an
  alignment is 0, which stands for none, a power of two (asserted, `regalloc.cpp:219`) or above 64.
- `ZoneAssumption` (`AsmJitData`, from `Zone`'s `ArenaAssumption`): the alignment of a `Zone` is 1,
  the default, as it is wherever the repository makes one (`codeholder.cpp:94`,
  `codebuilder.cpp:28`, `codecompiler.cpp:61`).  With a larger one `zone.cpp:112` would compare the
  request with a size that includes the bytes kept for alignment, and the theorem would not hold.

The others of `AsmJitData` and `CodeData` say what their constants are: `BuilderAssumption`, that
the nodes emitted are instructions or data and `Debug` is a Boolean; `LabelsAssumption`, that `Hash` gives a natural number,
that no name is empty, and that the prime table ascends and is not empty (`zone.cpp:718`);
`HolderAssumption`, that an address has at least one byte, that distances and targets are
integers, and that no code is copied to address 0, which is `nullptr`.  Which distances fit a byte
or four (`Int8`, `Int32`) is not assumed.

| Module | Theorems | Inductive invariant, and why it is needed |
|---|---|---|
| `ClientProofs` | `TypeCorrect`, `ReceiveCorrect`, `SessionCorrect`, `SendCorrect`, `TrafficCorrect`, `ConnectedOnceCorrect`, `RestCorrect`, `NothingLostCorrect`, `SendRefinesPipe`, `RecvRefinesPipe` | `RecvInv`: the flag is set exactly while a work item is started, draining, or about to be started by the callback in the gap between its locks. `SenderInv`, `SendPcInv`, `SendDataInv`: `sendingPackets` against the labels of all work items, and `accepted` = written + in hand + queued (+ cleared after a failure). `SessionInv`, `FaultInv`: what `handle`, the socket and `Connected` can be at each label of `Disconnect`. `RestInv`: which thread still owes which event. `ArrivedInv`: numbering of chunks |
| `RelayProofs` | `HandshakeCorrect`, `AddressReachesRelay`, `PayloadCorrect`, `CrashCorrect`, `UpRefinesPipe`, `DownRefinesPipe`, `DropCorrect` | `ChunkInv` (the chunk against `dataLen`), `HeaderInv` (`tempHeader` holds the first bytes, its offset their number); for `AddressReachesRelay` also what `SendPatch` writes in those bytes and how `GetRelayEndPoint` reads them back (`Swapped`, `FrameRead`); `PayloadInv` with `Contiguous` and `OrderInv` (the next byte to forward against what was forwarded, until a connection fails). Of the session: `UpInv`, `DownInv` (until a side is down, what the other has processed is what it accepted, plus the one in hand) |
| `ServersProofs` | `PartnersCorrect`, `LatestCorrect`, `ReportsCorrect` | `LinkInv` (the table at each of the four steps of `AddLink`), `ReplayInv` (what the editor has read). For the TCP server: `RegistrationInv` (which handlers a client has at each step of `AddClient`, and that it is in the list behind the last), `HandlersInv` (the handler list of a client against the spans in which its handlers were on), `CallsInv` (a call still to come is that of a handler that was there for the last packet), `EndInv` (where each thread that disconnects stands against `Connected`, the session and the events: an end nobody was told of came before there was a handler for it, and one that was told twice needs two threads between the test and the assignment) |
| `HooksProofs` | `ServedCorrect`, `ReturnsCorrect`, `AddressCorrect`, `HookedCorrect` | of `connect`: `ApartInv` (calls that did not overlap are not inside together), `AloneInv` (the globals belong to a call that is alone, label by label), `DoneInv`.  Of the address: lemmas on swapping two and four bytes and on the layout of both frames.  Of `HookFunc`: lemmas on remainders (`ModIs`, `ModAdd`, `ModShift`), because addresses wrap; `MemoryInv` = `StageInv`, `TodoInv`, `FunctionInv` (every byte of the function at every stage), `SavedInv`, `AllocInv`, `TrampInv` (every byte of the trampoline); and `CallOK`: where a call that `HookFunc` did not meet is, and which instructions it has executed, which needs that the three jumps lead where they should (`ToTheHook`, `BackToTheFunction`, `OverTheNops`, from `SignedJump`, `SignedNear` and `ResumeGoesOn`) |
| `CaptureProofs` | `ListCorrect`, `CausalCorrect`, `TypeCorrect` | `CountInv` (a session has one packet between received and passed on), `DispatchInv` (each operation belongs to a callback that waits for it), `HandlersInv` and `CallsInv` (a handler is called once per packet), `ListInv` (a packet is listed before it is passed on and not before its callback called the handler), `PendingInv` (what is on its way is listed or will be) |
| `EditorProofs` | `RowsCorrect`, `ReplayCorrect`, `ListedCorrect` | `ClientsInv` (the list has a client once), `UIInv` (one task has the UI thread), `TaskInv` (a task has found no client twice, and whom it has still to add has a row only if its copy of the rows has it); `ExistInv`, `ReadInv` (a client object has the packets to process that it has received), `SentInv`; `PluginsInv` (the list it filters by is what the last load listed; each entry is from a load that found it, the entries of one plugin are in the order of their loads and two apart, and what a load found is there from it or from the one before) |
| `AsmJitProofs` | `PiecesCorrect`, `NodesCorrect` | of the arenas: `ZoneInv` = `ArenaOK` (the cursor is inside the current block, and blocks are apart), `FreeOK` (the rest of the block, the chunks in the slots and the blocks behind are in blocks and apart), and `OwnOK` (what users own is in a block or is the data of a dynamic block, and apart from each other and from all that is free), where what the vector owns is not its capacity but the size that a release of it will be rounded to (`Owns`).  Every operation cuts free memory up (`FreeCut`: the new free pieces lie within old ones, and apart), takes a piece of it (`GoodGiven`) or gives one back (`Released`). Of the nodes: `BuilderInv` = `BuilderOK` or `Doubled` (a node is in the list twice; the module takes no step from there); `BuilderOK` is `GoodList` of the state, where the cursor, the function, the pool and the loop under way are tied to `Chained` (`order` and `rest` hold a node once, the links are those of `order` from either end, also before its first and behind its last node, `rest` is linked forwards, and a node in neither has no links) and `JumpsOK` (a label leads to its newest jump and each jump to the next older one of that label, and the label counts them). `RemovalOK`, `WalkOK`: what `removeNodes` has still to visit is `rest`, from the first to the last, and the walk stands at a node of the list that is not the end of a function. `FuncOK`, `PoolOK`: the end of an open function is in the list and its pool is not. That the chain of a label, defined by what the pointers lead to, is the set of its jumps needs that they descend (`Newest`), and an argument by the least counterexample. |
| `CodeProofs` | `LabelsCorrect`, `NamesCorrect`, `CellsCorrect` | of the holder: `HolderInv` = `BufferInOrder` (what was written is what counts, and one loop at a time), `UsesApart` (uses share no byte), `UsesFit` (each use has its link as long as its label is not bound, and else what belongs there: the distance in the buffer, or one relocation with the place of the label or the target; between two steps of `bind` a label whose link was resolved counts as bound where the cursor is, `Place`), `RelocsFit` and `LinksFit` (no relocation and no link without a use, and no two links for one), `Counted`, `TrampolinesFit` (8 bytes are reserved for each relocation that may need a trampoline), and in `relocate` `CopyFits` (a use whose relocation was done is right in the copy, any other has its bytes from the buffer, and there is room for the trampolines still to come). All of it is about bytes that do not overlap (`HoldsStill`, `UseFitsStill`), and the steps are of three kinds: nothing of a use changes (`QuietKeeps`), a use is added at the cursor (`EmitsKeeps`), the first link of a label goes (`ResolvesKeeps`). Of the names: `LabelsInv` = `InTable`, `LabelsTypeOK`, and `TableSizes` (the table has one bucket or as many as a prime of the table); that the search finds a label of the name follows from `InTable` (`FoundByHash`). Of the frame: `ListsInv` (each cell of the function is in one of the two lists, once), `CountsInv` (`varsUsed` against the registers in the list), `VarsInv` (a register that has its offset lies in the part of its size, before the position of the next), `StackInv`, and `PlacedInv` (those that have their offsets are apart).  It needs that the parts of the sizes do not overlap and begin at multiples of the size (`Parts`), and what `alignTo`, the sorted insertion and the default alignment return (`AlignedTo`, `Inserted`, `AlignmentOK`). |

`SendRefinesPipe` and `RecvRefinesPipe` show that each direction of a `Client`
implements `Pipe!Safety`; `RelaySession` starts from there and
`UpRefinesPipe`, `DownRefinesPipe` show the same for two of them in a row: the safety part
of `BothArePipes`.

Proved and not among the properties of a run, because others that are cover them:
`TypeOK` of the modules with theorems, `OpenIsConnected`, `ConnectedOnce`,
`OneRecvProcess`, `WireOrder`, `SendWakeUp`, `RecvWakeUp`, `TrafficOnlyWhileConnected`
(`Client`), `FirstAttemptIsHeader`, `NeverTwice` (`Handshake`), `DropNeedsDown`
(`RelaySession`), `LinksArePairs` and `DuplicateKeyOnlySelf` (`UdpServer`).

Only model-checked: everything about liveness (`SendIsPipe`, `RecvIsPipe` and `BothArePipes`
beyond their safety part, `CloseIsReported`, `CallReturns`, `HalfOpenEnds`,
`TrafficPasses`, `RowsSettle`, `MonitorEnds`, `StopEnds`, `LivenessIsFound`), `HookIsTransparent`,
which is the execution of fifteen given pieces of code, one path each, and for which a run of TLC is
a proof but for the contents of the caller's frame, and five modules of asmjit.  `RbTree`, `VMem`
and `ConstPool` (`TreeFindsCode`, `Accounted`, `ConstantsReadBack`) have recursive operators over
trees and bit maps, and the programs of `Liveness` too; `BitUtils` (`BitsAgree`) uses `Bitwise`,
which the prover does not take.  The other five are without either: in `CodeHolder`, `CodeBuilder`,
`NamedLabels` and `StackCells` the loops are steps, as they are in the code, and the invariants say
what holds between two passes.  Where a proof needs an induction all the same it goes by the least
number for which something fails (`Least`).

`Least` stands in both modules that need it, `AsmJitProofs` and `CodeProofs`.  The lemmas about
`CodeBuilder`'s operations are about any two states, as records, so that they do not
depend on primed variables; `Builder!State` and its primed value are put in last.

## 5. What is not modelled

- *PacketEditor*: filters are predicates over one packet; saving is database I/O.
- *Hooks*: `HookUp` (`InjX86.cpp:656-685`) is a list of calls of `HookFunc`, each with the length of the
  instructions to move, which is part of `Detour`'s layout; `Test`, `Debug` and `RemoveMutex` (688-727)
  are never called and `Entry` (730-735) only calls `HookUp`; `PatchSocketAddress` and
  `SendSockPatch` of the x64 DLL repeat what `ConnectHook` models.
- *Plugins*: what a plugin does; `StopAssembly` is never called.
- *Injectors*, start-up, `Utils`, `Serializer`, `SQLiteClient`: I/O and pure conversions.
  *RawSocket*, `IPHeader`, `TcpHeader`: unused.  *mono*: declarations only.
- *asmjit*: what is left is mostly encodings without state, which is why the mapped share of
  the repository's lines stays low: operands, function signatures, SIMD types, macros and
  build configuration, formatting, and thin calls of the operating system.  The x86 backend,
  which would emit instructions and fetch and translate nodes, is not in the repository, so
  the functions that only call it (`serialize`, `translate`, `fetch`) have nothing to model.
  `ZoneBitVector`, `ZoneStack`, `ZoneList` have no user besides the absent backend, or none.
  Sections beyond the first, the growth of a buffer and logging are left out.
- Opening a Client twice, partial writes to a socket, memory exhaustion outside asmjit.

## 6. Plan

Written so far, in this order: `Pipe`, `Client`, `Handshake`, `UdpServer`,
`ConnectHook`, `AddressFrame`, `RelaySession`, `Server`, `ConnectionMonitor`,
`HookStack`, `Capture`, `Replay`, `Plugins`, `Detour`, with proofs of all but
`HookStack`; then the modules of asmjit, with proofs of `StackCells`, `Zone`, `CodeBuilder`,
`NamedLabels` and `CodeHolder`; and the hook's frame as the stream of `Handshake`
(`AddressReachesRelay`).  To come:

1. Proofs: `Accounted`, with the search of `vMemMgrAllocFreeable` bit by bit instead of recursive.
