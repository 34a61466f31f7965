# A verification of AcOpenServer

AcOpenServer recreates the servers of Armored Core: Verdict Day. A game asks the
*login service* for the port of the *authentication service*, authenticates there
in four requests, and is given the address of the game server. This directory
holds TLA+ models of that program, TLC configurations that check them, and proofs
that TLAPS checks. Paths below are relative to `src/AcOpenServer/` unless they
start with `src/`; `crypto/` is `src/native/openssl/crypto/`.

## 1. The system

### Components

| Component | State | Operations | What makes it correct |
|---|---|---|---|
| **Authentication session** `Network/Services/Authentication/AuthClient.cs` | `AuthState`, the ciphers, `GameCwcKeyBytes`, `SendQueue`, `disposedValue` | `Service` and its four handlers, `Disconnect`, `SendThenDisconnect` | answers come in order; the game server is given only to a peer that returns the key of this session; nothing is answered after a disconnect; the connection is given up in the end |
| **Message and packet framing** `Network/Communication/SVFW/*.cs`, `Crypto/CWCCipher.cs` | `ReceivingPrefix`, `ExpectingCount`, the receive buffer | `SendAsync`, `OnReceived`, `Read`, `Write` | what is sent is delivered once, whole and in order, or the connection faults |
| **TCP listener and clients** `Network/Communication/Tcp/*.cs` | the socket, its timer, `disposedValue` | `ListenAsync`, `ReceiveAsync`, `IsConnected`, `Dispose` | a task that is over leaves no open socket; a disconnect is reported when there is one; the accept loop comes back |
| **Service tasks** `AuthService.cs`, `LoginService.cs` | three tasks per client, one `PeriodicTimer` per service | `OnAccepted`, `PollClient`, `ClientCleanup` | each accepted client gets its tasks; clients in the backlog are accepted |
| **Version gate** `Network/Data/AC/AcvAppVersion.cs`, `AcvVersion.cs` | none | `<`, `>` | versions in the range are served, versions outside are told on which side |
| **Startup and files** `Network/Servers/*.cs`, `Crypto/RSAKey.cs`, `Program.cs` | server folders, two key files, a configuration, ports | `ServerManager`, `MakeDefaultServer`, `Server.StartAsync`, `RSAKey.Save` | the key in the folder is the one that is served, through crashes and restarts; a login leads to a port that is served |
| **Login session** `Network/Services/Login/LoginClient.cs` | `SendQueue`, `disposedValue` | `Service`, `SendAsync` | writes are awaited in order; what is not awaited stays in the queue, which is bounded by the requests |
| **UDP channel** `Network/Communication/Udp/*.cs` | `Clients` by endpoint, `Disconnected`, `Buffer` | `ListenAsync`, `NotifyReceived`, `Disconnect`, `Dispose` | at most one live client per endpoint; a datagram reaches one client, the one it is for; disposal ends |
| **FSDP stream** `Network/Communication/Fsdp/*.cs`, `Network/Data/FSDP/*.cs` | stream state, two sequence indices of twelve bits | senders and handlers of the opcodes | the two indices survive packing |
| **Ticket parser** `Network/Data/RPCN/Ticket.cs` | an offset into the payload | `Parse`, `TryParse` | a ticket that is parsed lies in its payload; what is no ticket is an error |
| **Logging** `Logging/*.cs` | a queue, its length, a timer | `Enqueue`, `Flush` | each entry is written once |
| **RSA key in use** `Crypto/RSACipher.cs`, `crypto/rsa/rsa_ossl.c`, `crypto/rsa/rsa_crpt.c`, `crypto/bn/bn_blind.c`, `crypto/bn/bn_mont.c` | two blindings, Montgomery contexts, two locks | private encryption and decryption, on the threads of all sessions | a number is undone with what it was blinded with; factors are not used twice; contexts outlive their users; locks are given back |
| **CWC hash** `src/native/aes_modes/cwc.c` | key, running hash and lengths of a message | `do_cwc`, `cwc_auth_header`, `cwc_auth_data`, `cwc_compute_tag` | the hash is the remainder it stands for |
| **Other ciphers, binary readers and writers, generated messages, utilities** | none that lasts | conversions | inverse of one another |

### How they interact

* `Program` makes a `ServerManager`; it makes one `Server` for every folder under
  `Saved`, or a default one. `Server.StartAsync` reads configuration and key, and
  starts two services that run side by side for good.
* A service owns a stack of listeners: `SVFWMessageListener` over
  `NetTcpListener`. The accept loop raises `Accepted`; each layer wraps the client
  and passes it up. `OnAccepted` of the service starts three tasks, *receive*,
  *send* and *poll*. A task runs on the thread of the accept loop until it first
  waits, and on pool threads after that.
* Received bytes go up through events, on the receive task: `NetTcpClient`,
  `SVFWPacketClient`, `SVFWMessageClient`, `AuthClient` or `LoginClient`. A
  handler is one such call: it runs to its end before the next read. Replies go
  down the same stack and are written without waiting; the tasks of the writes go
  to `SendQueue`.
* Disposal goes down the stack: `AuthClient.Dispose` disposes the message, packet
  and TCP clients. Nothing goes up: a TCP client closed by its timer leaves
  `AuthClient` undisposed.
* Servers share the `Logger` and the ports of the machine; clients of a service
  share its `PeriodicTimer`. Both services of a server use one RSA key, which goes to
  OpenSSL with every request that is decrypted and every reply that is encrypted.

### Where it is hard

* **Interleaving.** One write, the refusal's, is awaited with the session already
  disconnected and the receive loop still running. Polls of all the clients of a
  service contend for a timer that admits one waiter. `IsConnected` reads the
  socket twice, with the receive loop in between. `SendQueue`, the table of UDP
  clients and the logger's queue are used by several threads without a lock. The
  sessions of a server use one RSA key, whose blinding is squared in two steps and
  drawn anew between two uses.
* **Liveness.** The accept loop runs the beginning of each client's receive loop;
  that loop never yields on a connection its peer has closed. The timer of a
  connection covers its whole life, and it is what both depend on.
* **Failure.** `ReceiveAsync` catches cancellation and nothing else. An accept that
  throws ends the service. One service of a server may fail to listen. The program
  may die between any two of the files of a new server, or in the middle of one.
* **Boundaries.** The length prefix is cut to sixteen bits; a short read is an
  error; a payload as long as its headers is read as empty; versions are compared
  word by word; a number at the end of a buffer is tested by its first byte; two
  counters of twelve bits share a byte; a hash of 127 bits is reduced in four words
  of 32.

`PROJECT.json` lists each hazard with its line and the properties that watch it.

## 2. The modules

| Module | Models | Checked by | Proofs |
|---|---|---|---|
| `AuthProtocol` | what one authentication session promises its peer | `auth_client` | |
| `AuthClient` | the session, as it runs over sockets and tasks | `auth_client`, `auth_assert` | `AuthClient_proofs` |
| `MessageFifo` | a channel that delivers once, in order, until it breaks | `svfw_channel` | |
| `SvfwChannel` | one direction of the framing | `svfw_channel` | `SvfwChannel_proofs` |
| `AppVersion` | the version gate | `app_version_older` | `Bytes_proofs` |
| `TcpService` | a service with its accept loop and its clients' tasks | `tcp_service` | `Service_proofs` |
| `ServerStartup` | how the program comes up, and comes up again | `server_startup`, `server_startup_public_key` | `ServerStartup_proofs` |
| `LoginClient` | a login session, and the queue of writes it shares with its send task | `login_client` | `LoginClient_proofs` |
| `UdpChannel` | the UDP listener, its clients, and the receiver on top of one | `udp_channel` | `UdpChannel_proofs` |
| `TicketParser` | where the ticket parser reads, and how it ends | `ticket` | `Bytes_proofs` |
| `Logger` | the log everything writes to, and the flags the servers set | `logger` | `Service_proofs` |
| `FsdpHeader` | the counters of an FSDP packet and their copies | | `Bytes_proofs` |
| `RsaBlinding` | the private operations of one RSA key that threads share | `rsa_blinding` | `RsaBlinding_proofs` |
| `CwcHash` | the hash of the CWC mode, in words as the code computes it | | `Bytes_proofs` |

`MCAuthClient`, `MCSvfwChannel`, `MCServerStartup`, `MCUdpChannel`, `MCTicketParser`
and `MCRsaBlinding` give constants their values; the other modules are checked as they
are.

`Bytes_proofs` is about the four parts that compute on the bytes of one packet and call
nobody, and `Service_proofs` about what the threads of the server have in common. The
specifications they use side by side have names of their own: `VersionSpec`, `HashSpec`
and `LogSpec`, each with an `Init` and a `Next` of the same prefix.

Operators named `X_Variant` stand before an operator `X`, are used by no
specification, and are forms of `X` with a mistake that could have been made
there: a dropped guard, a forgotten reset, a swapped order. Put in the place of
`X` they make a property fail, which shows that the property depends on that code.
`PROJECT.json` pairs each property with one.

### AuthClient and AuthProtocol

One action is one handler with all that it calls, since it runs to its end on the
receive task. A message is what the handlers branch on: its type, the cipher it is
under, and the kind of its payload. The peer may send any message at any time.
`authState`, `cipher`, `cipherEnabled`, `gameKeyBytes` and `gameKey` are the
fields of the same names; `open` is the socket, `disposed` the flag of the stack
of clients, `recv` the receive task, and `wire` the replies with the cipher each
left under. `ticketKey` and `asserted` are history.

`SendThenDisconnect` is split at its `await`: its first half is part of the status
handler, `RefusalWritten` and `RefusalWriteFails` are what may follow. An
exception of a handler is `ThrowFromHandler`: the task faults with the socket open.
`Timeout` is the connection's cancellation source, `PeerCloses` and `PeerResets`
are the peer's, and `ReadAborted` is the receive loop on a socket that was closed
under it. `SendQueue` is left to `LoginClient`, whose code is the same: it holds
writes that have already started, and no handler reads it.

`AuthProtocol` is six actions over four variables: the answers given, the key
issued, the key presented and whether the server still serves.
`ImplementsProtocol` maps a connection to it: the names of the replies on the wire,
`gameKey`, `ticketKey`, and a session that is not disconnected with a receive task
that reads.

### SvfwChannel and MessageFifo

Sender, stream and receiver of one direction. Lengths are counted in bytes: two
for the prefix, twelve for each header, sixteen more for a reply's, twenty-seven
for the CWC envelope. A read asks for what `ExpectingCount` says and may return
less, which faults the task. A stream may also carry frames of a peer that is not
this code. `Frame` cuts the prefix to sixteen bits and leaves the length in the
packet header whole, as the code does. `Deliverable` names the messages that can
cross: those that fit the prefix, are not empty when encrypted, and whose
ciphertext is not as long as the headers in front of it (a one byte reply).

### TcpService

`listener` follows the accept loop into `OnAccepted`: "receiving" while it runs the
receive loop of the client it accepted, "polling" while it runs its poll. `receive`
and `poll` are the tasks of each client, `unread` what has arrived, `cancelled` the
timers that have fired. A handler is what it does to the connection: go on,
dispose, throw, or begin a refusal. `refusal` is `SendThenDisconnect` from then on: it
is at its `await` until the write ends, and then disposes the client on the thread of
the write (`RefusalWritten`), or never does if the write threw (`RefusalFails`). The
receive loop goes on meanwhile, so the disposal may meet it at a read (`ReadDisposed`),
which throws; that is caught only if the timer had fired before. `PollSocket` and `ReadAvailable` are the two halves of
`IsConnected`. `overtaken` is history: clients whose bytes the receive loop took
between them.

### AppVersion

A version is two words of `UIntRange` values, the upper compared unsigned and the lower
as a signed number. The range is any range, although the program configures one
version for both ends.

### ServerStartup

Files are missing, torn or whole. `MakeFolder`, `SavePublic`, `SavePrivate` and
`SaveConfig` are the steps of `MakeDefaultServer`; `ReadConfig`, `LoadKey`,
`ResolveFails`, `ListenLogin` and `ListenAuth` those of `StartAsync`, for every
server found, interleaved. `Crash` may tear the file that is being written. The
operator makes and removes folders and supplies keys while the program is down,
and edits configurations at any time. `issued` is history: the key a folder's
server has listened with since its keys were last replaced.

### LoginClient

`recv` is the receive task, `send` the send task, `write` the tasks of the replies.
`array`, `head`, `tail` and `size` are those of the runtime's `Queue`, and its
operations are cut where two threads can meet: `Enqueue` grows the array and stores
(`Store`), then writes the size it read (`Enqueued`); `TryDequeue` takes hold of the
array (`Capture`), reads the size (`Look`), takes the task and reads the size again
(`Take`), and writes it (`Dequeued`). `Enqueue` stores while an earlier `TryDequeue`
is anywhere in between, so a count can be lost, a slot read that is still null, or
an index used on an array that was empty a moment ago. `raced` is history: the two
were in the queue at once.

### UdpChannel

`loop` is the listening loop from one receive to the next: it looks the endpoint up,
makes and adds a client and raises `Accepted`, or has a client it knows
`NotifyReceived`. `call` is where each thread is in a `Disconnect` or `Dispose` of a
client: about to set the flag that was tested, to call `Clients.Remove`, in it, or
to clear `Buffer` and `Received`. Threads are the loop's (a handler may disconnect
its client), users', and the owner's, which disposes the listener, and may do so
again after a `Dispose` that threw. `table` is the
dictionary. Two threads inside it, one of them writing, are `raced`; what becomes
of the table is then any loss of entries, and the properties that speak of the table
say nothing of such behaviours. `delivered`, `late` and `removals` are history: what
a client was given, how much of it after its disconnect, and how often its endpoint
was removed.

### TicketParser

`field` goes through the layout of `ReadUserdata` and `ReadSignature`, `offset`
through the payload; the outcome is a ticket or one of three exceptions. A number is
read when its first byte is in the payload, a span when all of it is, and `reach`
remembers the end of the furthest bytes that were read. `peeked` is the type of a
missing cookie, which was seen before it is read.

### Logger

`at` is where each thread is in its call: it enqueues the parts of its entry one by
one, reads the length (`Count`), writes it (`Add`), and, if there is no timer, goes on
into `Flush`: it looks at the length, clears and fills the buffer, drains the queue,
resets the length, copies the text out and hands it to the console. The timer's
handler does the second half only. A logger without a period, which is what the
program makes, has a timer all the same: it fires once, as the logger is made, and
its handler may come late. `ClearFlags`, `SetOption` and `SetError` are what
`Server.StartAsync` does to the flags, while connections of servers started before
log. `enqueued`, `parts` and `shown`, the parts on the console, are history; `overlapped` says that two calls were in
progress at once, `met` that two threads were in `Queue` or in `Buffer`. What a queue
does then is in `LoginClient`; here such a behaviour ends.

### FsdpHeader

Functions of headers and packets: the getters and setters of the two counters that
share three bytes, and the packet that keeps a copy of each. Nothing here is a state
machine, so no run checks it; it is proved for every header and every number. That
the senders of the stream never run (`Write` throws `NotImplementedException`)
leaves the packing as it is.

### RsaBlinding

`pc` is where each thread is in its private operation; the labels are the places
where another thread can come between, or where a lock is held. `rsaLock` and
`sharedLock` are `rsa->lock` and the lock of `mt_blinding`; `blinding["own"]` and
`blinding["shared"]` are `rsa->blinding` and `rsa->mt_blinding`; `mont` and `freed`
are the Montgomery contexts by who made them. `EnterRsa`, `SetupOwn` and
`SetupShared` are `rsa_get_blinding`; `Convert`, `SquareAi`, `SquareA`, `Recreate`
and `Multiply` are `BN_BLINDING_convert_ex` with the update in it; `ReadContexts` and
`SetContext` are `BN_MONT_CTX_set_locked` before and under its write lock, for each
modulus in `todo`; `Invert` is the exponentiation and the unblinding. The thread that
made the key's blinding passes no lock on the way, the others pass one, and the
actions are the same but for `MayConvert`.

A half of a blinding is a draw and how often it was squared: the same half of the
other member undoes it, and equal halves are equal numbers. `used` and `reused` are
history: the factors numbers were blinded with, and one of them twice. Every step
that allocates may fail (`Fail`); the operation then ends and gives back what it
holds. `RecreateFails` does not end it: `BN_BLINDING_create_param` returns the
blinding it was given, and the update takes that for success. A thread that has made
the blinding keeps it as its own after it ends; threads are not replaced.

### CwcHash

`do_cwc` multiplies the hash by the key in four words of `Base` values each, splits
the product at 2^127 and adds both parts; `add_4` drops the carry out of the top
word. `FoldTop` adds what is above bit 127 once more. `Hash` and `Finish` are the
blocks and the lengths of a message; `hash` is the running hash, and `exact`, history,
the polynomial it is the remainder of. Words of two bits would say little of 32, so no
run checks it; it is proved for words of every size.

## 3. What the runs check

| Run | Instance | States | What it shows |
|---|---|---|---|
| `auth_client` | two session keys, two game keys, every message | 163 | the safety properties, that a connection is given up, and that the session implements `AuthProtocol` |
| `svfw_channel` | two messages of eight lengths, encrypted or not, four malformed frames | 160,947 | delivery as sent, faults with causes, everything arrives, `MessageFifo` implemented |
| `tcp_service` | two clients, one of which may be refused, sockets for one or two, timeout or none | 645,012 | tasks, sockets and refusals agree, reports of disconnects are right, the backlog is served |
| `server_startup` | two folders, three ports, two keys, one edit | 97,462 | the key on disk is served and kept, logins lead somewhere, startup settles |
| `login_client` | three requests, timeout, reset, malformed messages | 12,750 | writes are awaited in order, the queue holds the rest, the send task ends and for a cause |
| `udp_channel` | two endpoints, three datagrams, one call of a user beside those of handlers and the disposal of the listener | 4,373,607 | one live client per endpoint, datagrams delivered once and to the right client, nobody deaf, the loop ends for a cause, disposal leaves no client connected but the one being made, also when it throws and is called again |
| `logger` | two threads and a timer, two entries of three or four parts, two servers | 282,753 | no part is lost or shown twice unless threads meet, entries are whole and in order unless calls overlap, only a start drops errors, every entry is shown |
| `rsa_blinding` | three threads, four operations, one failure, one prime, a draw every second use | 1,095,753 | locks are given back, numbers are undone with what they were blinded with, no factor is used twice, contexts outlive their users |
| `ticket` | payloads of 0 to 150 bytes, fields of 0, 3 and 300 | 20,271 | a parsed ticket lies in its payload, reads stay near, no field is read after one that ran over |

### Bounds

* *Keys of the session.* Two keys of each kind tell "the key of this session" from
  any other; a session uses one of each. The proofs need no bound.
* *Messages.* Two messages tell order, loss and duplication apart, and each frame
  leaves the receiver where it was; the lengths are those at which a decision
  changes (none, one byte, the headers' sizes, the last that fits the prefix and
  the first that does not, with and without the envelope).
* *Words of four values* (`app_version_older`) hold two signed and two unsigned ones,
  so each pair of orders of the two words occurs. The proofs are for every even size.
* *Clients.* Two are enough for one to hold the accept loop, the timer or the last
  socket while the other waits. One chunk unread is enough for a read to overtake
  `Available`. A session is refused once at most; one client that may be refused
  (`Refusable`) meets one that may not at every step, and with two the states are too
  many for the liveness check. The proofs have any set of them.
* *Startup.* Three ports let two servers share none, one or two of them; two keys
  are one before and one after a replacement; one edit puts any configuration on
  disk, and a second folder without one gives the default.

* *Login.* Three requests are one before the send task looks, one while it takes,
  and one after; they fit the array after its first growth (`OneGrowth`), so the
  array grows once, from nothing to `Capacity`.
* *UDP.* Three datagrams make three clients of one endpoint, which is what it takes
  for a second removal to hit a successor that is then succeeded itself; two
  endpoints tell clients apart. One call of a user (`MaxCalls`) puts a second thread
  beside the loop and its handlers, and the owner's disposal of the listener a third.
  TLC follows a behaviour until it has had both a race on `Clients` and a refused send
  (`RaceOrRefusal`), since neither decides what the other does; the proofs of the same
  invariants have no such bound.
* *Log.* Two entries are one to be shown and one that comes in between, before or
  after; a third thread is the timer's. Three and four parts are those of an entry
  without and with a scope. Two servers are one whose connections log and one that
  sets the flags meanwhile.
* *Tickets.* A payload of 150 bytes holds every field with room left, so each
  byte of a ticket is the end of some payload; a field longer than any payload
  (300), one that fits and an empty one are the cases of a length. The proofs need
  no bound.

* *RSA key.* Three threads are one with the key's own blinding and two that share the
  other; four operations let one blinding be used fresh, squared and drawn anew, with
  `Counter` 2 in place of 32. One prime and the modulus are two contexts to be made in
  order; a second prime is one more of the first kind. One failure is enough for every
  early return and for a blinding that goes on with halves that do not match. The
  proofs need no bound.

### Fairness

* `AuthClient`: a timer that was started fires; a read on a socket that was closed
  returns; a write on one fails. Nothing is asked of the peer, which may fall
  silent, nor of a pending write while the socket is open.
* `SvfwChannel`: bytes that were written are read, as long as the loop goes on.
* `TcpService`: threads run, timers fire, and a client in the backlog of a loop
  that accepts is accepted in its turn (the system's backlog is a queue). Nothing is
  asked of the write of a refusal: a peer that does not read may hold it for ever.
* `LoginClient`: threads run, a timer that was started fires, and a write on a socket
  that is closed or reset returns. A write on an open socket may never return.
* `Logger`: threads run, and a timer that is due fires.
* `UdpChannel`, `TicketParser` and `RsaBlinding` state no fairness: only their safety
  is checked. That a thread which waits for a lock of the key gets it rests on
  `LocksAreGivenBack`.
* `ServerStartup`: a program that was started goes on, and so does every server.
  Starting the program, crashes and edits are owed by nobody.

### What does not hold

Three runs find a line of the repository violated by what the code does
(`findings` in `PROJECT.json`):

* `auth_assert`: `AuthClient.cs:84` asserts that a disconnected client is not
  serviced. A message that arrives while a refusal is written is.
* `app_version_older`: `SVFWRequestMessage.proto:53` says that an older version
  gets the empty response. A version is older only if both its words are smaller,
  so with one build number in the upper word no version ever is.
* `server_startup_public_key`: `src/README.md:36` has the player install the public
  key the server made. `RSAKey.Save` writes the private key there.

### Worth knowing

* `src/README.md:42` says that the server makes keys under the folder of its name.
  Only the default server's are made, and only when there is no folder at all; after
  a crash before they were written, or in a folder the operator made, every start
  gives up (`StartupSettles` counts it as settled).
* Every text on the console has as many null characters in front of it as it is long:
  `Flush` sets the length of the buffer where it may have meant its capacity
  (`ShownInOrder`).
* An entry that is added while another thread is at the end of its flush may stay in
  the queue until the next one: its length is written over (`ShownInOrder` holds
  without overlapping calls only).
* `LogInfo` and `LogWarnings` have no effect: `LogChannelFlags.Error` is three and sets
  the bits of both. Before the first server is configured nothing is logged, not even
  that a configuration is missing. Errors are kept from then on, except in the moment in
  which another server sets the flags (`ErrorsAreKept`).
* The client timeout covers the whole life of a connection, not its silence.
* With no timeout, a peer that connects and closes at once holds the accept loop
  for good (`BacklogIsServed` names the case).
* `SVFWRequestMessage.proto:37` says that the handshake response is encrypted; it
  leaves in the clear (`RepliesUnderSessionKey` begins behind it).
* `Ticket.cs:159` and `:160` document a `NotSupportedException` and an
  `InvalidDataException` for sizes that do not fit; the constructor throws its own
  `TicketParseException`, which `TicketParser` has as "refused", and for a payload that
  ends early whatever the runtime throws, which it has as "outOfRange".
* An empty payload cannot be sent under CWC, nor a one byte reply; a payload in the
  clear that is as long as its headers arrives empty (`DeliveredAsSent`).
* A message too long for the prefix is caught by the 32 bit length.
* A login service without its authentication service can only come of a port that
  another service of the program holds; its clients are sent to that one.

* The send task of a session ends at its first empty queue, which is usually before
  the first request. Every later write stays in the queue until the client is
  disposed, its error unseen (`QueueHoldsTheRest`).
* Two threads that disconnect one UDP client at once may both pass its flag; the
  second removal takes the endpoint's next client out of the table, and the one after
  that lives beside it (`OneLiveClient` names the case).
* One datagram that does not decrypt, or a refused send to a peer that is gone, ends
  the listening loop for all clients (`LoopEndsForCause`).
* A blinding that cannot be drawn anew is used as it is, or with halves that do not
  undo one another: `crypto/bn/bn_blind.c:108` tests for a null that
  `BN_BLINDING_create_param` returns only when it was given none, while
  `src/native/openssl/doc/man3/BN_BLINDING_new.pod` has it return null on error. It
  takes a lack of memory or of entropy (`ResultsAreRight`, `NoFactorTwice` name the
  case).
* A step of the CWC hash may lose its last carry (`src/native/aes_modes/cwc.c:548`; the
  comment above it, from line 536, says it cannot): with the key 2^127 - 2^32, the hash
  2^127 - 1 and the block 2^95 + 2, for one. `CarryMayBeLost` proves it, and
  `HashesAreExact` that with a key at least 2^96 below 2^127 none is ever lost. A higher
  key is drawn once in 2^31 times, and only some hashes and blocks lose a carry with it.
  Both ends compute the same, so their tags agree.
* Disposing the UDP listener while its loop adds a client may throw out of the
  enumeration, with the socket left open and clients it had not come to connected
  (`EnumerationThrows`). They are still in the table, and calling `Dispose` again
  disconnects them (`DisposalReachesAll`).
* The thread that has written a refusal disposes the client under the receive loop's
  next read, so that a refused session usually ends with an exception in the log of its
  receive task (`SocketsFollowReceive` names the case).
* A receive task that faulted with bytes unread leaves a client whose poll finds them at
  every tick and never ends; its socket stays open as long as the peer does.
* The poll of a second client faults at once, since the timer has its waiter: its
  disconnect is not logged (`WaitForNextTick`).
* A ticket cut short is not refused: it throws an exception that `TryParse` lets
  through. Up to seven bytes behind the payload may be read before that.

## 4. What is proved

`AuthClient_proofs`, for all sets of keys and with or without a timeout, from
`NoKeyIsNoGameKey` (a drawn key is not sixteen zero bytes), `CipherNamesDistinct`
and `TimeoutIsSwitch`:

* `InvHolds`: `Inv` is an invariant. The safety properties are not inductive by
  themselves: that admission binds the issued key needs to know what the bytes
  compared with are at that moment, and this needs the whole history of the
  session. `Inv` is `TypeOK`; `Transcript`, which says that the replies are a
  beginning of the protocol's answers or end in a refusal, and what the key
  variables hold for each number of replies; `AnswersGiven`, which ties that number
  to `authState`; and `SocketOwnership`, which says who may have closed the socket
  or left it open. The proof has a lemma per action.
* `TypeCorrect`, `AdmissionIsBound`, `RepliesAreEncrypted`, `KeyBytesAreBound`,
  `SocketsAreClosed` and `EndedReceiveHasClosed` follow from it; `DisconnectedIsSilent` is the action property.
* `Refinement`: `AuthClient` implements `AuthProtocol`. Initial states map to
  initial states, and under `Inv` each action is a step of the protocol or a
  stutter.

`SvfwChannel_proofs`, for any number of messages of any lengths, from
`LengthsAreNaturals` and `MaxSentIsNatural`:

* `NothingIsLostOrMadeUp` (`DeliveredAsSent`), `FaultsHaveCauses` and `TypeCorrect`. What
  was delivered says nothing of the next frame; `IInv` adds that the stream, up to the
  first frame that is not ours, holds exactly the frames of what was sent and not yet
  delivered (`InOrder`), that between prefix and body the receiver expects what the
  prefix of the first frame says (`InStep`), and that a receive task that has faulted left
  the frame it faulted on in the stream (`Caused`). That a frame is delivered with its
  length is arithmetic: a length that fits the prefix is not cut by it, and the lengths
  of two headers and an envelope can be taken off again (`Sizes`).
* `ChannelImplementsFifo`: every step is a step of `MessageFifo` or leaves its queue
  alone. The abstract queue is the numbers of the frames, so the lemmas say what
  appending and taking a frame does to them.

`Service_proofs` has two parts. For any number of clients, from `NoClientIsNone`,
`LimitsArePositive`, `BoundIsPositive` and `RefusablesAreClients`: `ReceiveEndsAsClosed`
(`SocketsFollowReceive`), `ReportsAreRight` and `TypeCorrect` of `TcpService`. That a report of a disconnect is right
depends on what the first half of `IsConnected` saw: `WhatPollSaw` says that it is still
there, that the peer has left, or that the receive loop took it in between.
`BacklogIsUntouched` says that no task is there for a client before it is accepted.

For any number of threads, entries, parts and servers, from `MainLogs`,
`TimerIsNoWriter`, `EntriesHaveParts` and `BoundsAreNatural`: `PartsAreConserved`
(`EachPartOnce`), `EntriesAreInOrder` (`ShownInOrder`), `LogTypeCorrect`, and the action
property `ErrorsStay` (`ErrorsAreKept`) of `Logger`.

* Conservation is two conjuncts: what was enqueued is what queue, buffer, texts and
  console hold (`Conserved`), and none of these has a part twice or one that another has
  (`Separate`). They need that the part enqueued next is new (`NextIsNew`, `Numbered`) and
  that one call has the buffer, while only a call about to show a text has one (`Held`).
* Order needs to know that one call at most is busy as long as none have overlapped
  (`OneBusy`), and what that call has yet to do: `Stage` says for each place in it how far
  the length is behind the queue and what buffer and text make up with the console. The
  timer's look at the length, which may come while another call is busy, disturbs
  neither.
* That only startup drops errors needs that the bits of an error are on once a server was
  started (`LevelsAreOn`).

`ServerStartup_proofs`, for any names, ports, keys and edits, from `DefaultIsAName`,
`DefaultPortsDiffer` and `BoundsAreNatural`: `ServedKeyIsOnDisk`, `LoginHasATarget`,
`TypeCorrect`, and the action property `KeysAreKept`. That a served key is on disk holds
through crashes because of what is on disk in the middle of making it: `Making` says what
each of the files is at each step of `MakeDefaultServer`, `FilesArePairs` that a private
key that can be read has its public file, which is why the order of the two is what it
is, `KeysAreOnDisk` that a key in memory or once served is the one in its folder, and
`NothingInMemory` what a crash leaves.

`LoginClient_proofs`: `TasksAreAwaitedInOrder`, `QueueIsExact`, `SendFaultsForCause` and
`TypeCorrect`, for every interleaving of the two threads in the queue, from `OneGrowth` and
`TimeoutIsSwitch`. `OneGrowth` limits a session to three requests, since the array is
modelled to grow once; longer sessions, in which the array's tail comes round and it grows
again, are not covered. Within that limit the order of the tasks survives two threads in
one queue because the tail never comes round: `Places` says that task i is in place i until the head
has passed it, `Taking` that what was taken is the next task or a null, `Sizes` how far the
sizes that two threads write can be off, and `Undisturbed` that before the two have met
each of them finds the queue as it should be.

`UdpChannel_proofs`, for any number of endpoints, threads, datagrams and calls, from
`BoundsAreNatural` and `UsersAreOthers`: `DatagramsGoToOneClient` (`DeliveredOnce`),
`DeafnessPasses` (`NobodyIsDeaf`), `LoopEndsAreJustified` (`LoopEndsForCause`),
`OneClientLives` (`OneLiveClient`), `DisposalIsThorough` (`DisposalReachesAll`) and
`TypeCorrect`. None of them is inductive. `IInv` follows a client through its life:

* `NewIsUnknown`: nobody knows the client the loop is adding. `Pending`: its endpoint has
  no other in the table meanwhile.
* `Calls` and `Removal`: a client is marked before it is removed or cleared, and one with
  a successor was removed or had lost its place (`Evicted`: an older client of its
  endpoint was removed twice). `OneLiveClient` follows from it.
* `Whereabouts`: a client that was neither removed nor evicted is in the table, is being
  added, or was cleared with it.
* `Datagram` and `Counted`: the datagram at hand was given to nobody, and no datagram makes
  two clients.
* `Visiting`, `Clearing` and `Cleared` follow the disposal of the listener: what it passed
  is marked, or was added since, it clears a table of marked clients, and what is in the
  table after that is the client the loop has just added. `Growing` says that the client
  which makes the enumeration throw is the last one: the loop finds its subscriber gone.
  `DisposalReachesAll` follows with `Whereabouts`.

There is a lemma per action, and lemmas on what a call of `Disconnect` or `Dispose` makes
of the state of its thread (`StepAfterIs`, `CallIs`) and on what the steps of the loop and
of the owner leave alone (`LoopMovesKeep`, `OwnerMovesKeep`).

`Bytes_proofs` has four parts:

* The version gate, for every even number of values of a word: `RefusalsAreSound` (a
  refused version lies outside the range on the side that is told), `EndsAreServed` (the
  two versions that bound the range are served), and that the comparison is a strict
  order (`LessIsStrict`, `LessIsTransitive`). They rest on two lemmas: a version is put
  together from its words, and a smaller upper word decides.
* The counters of a reliable packet, for every header and every natural number: `Unpacks`
  (what `SetAckCounters` packs comes out of the getters, each by itself),
  `RepackingIsIdentity`, `SettersKeepTheOther` (setting one counter leaves the other, whose
  upper bits share its byte) and `CopiesAgree` (a packet's copies are what its header
  says). They rest on the arithmetic of bytes and halves of bytes (`TwelveBits`,
  `HalvesOfByte`).
* The ticket, for payloads of every length and fields that give any length:
  `ParsedTicketsAreInside`, `ReadsAreNear`, `TicketTypeCorrect`, and the action property
  `OverrunsAreNoticed`. That a parsed ticket lies in its payload is not inductive: a number
  may well reach past the end, and only the last field, a tested span, vouches for what
  came before. The strengthening is `ReadBehind`: while the parser goes on, what it has
  read lies before its offset, but for the type a peek has seen.
* The CWC hash, for words of every size: `BlockIsExact` (a step that loses no carry is the
  multiplication modulo 2^127 - 1 it stands for), `HashesAreExact` (with a key below the
  top by the size of a block no step of a message loses one), `LengthsAreExact`, and
  `CarryMayBeLost`.

`RsaBlinding_proofs`, for any number of threads, primes, operations and failures, any
count between two draws, from `NoThreadIsNone`, `CounterIsPositive` and
`PrimesAreListed`: `LocksHeld`, `RightResults`, `NoFactorIsReused`, `ContextsSafe` and
`TypeCorrect`, all from `IInvHolds`. `IInv` says what the properties need of the moments
in between. That results are right needs that the halves of a blinding are equal
except in the middle of a square (`Halving`), and that a thread which has its own
blinding is alone with it (`Stages`). That no factor comes twice needs that every spent
factor is of an older draw or was squared less often than the present one
(`Drawing`), which a fresh blinding satisfies by its count. That contexts are there
needs to know which ones a thread still has to make (`Contexts`). Four lemmas say
what a step of one thread leaves alone, and there is a lemma per action.

The assumption that a drawn key is not zero is one about chance: the code does not
exclude it, and a ticket with a zero cookie is refused unless it happens.

Every bound that a run needs (`MaxSent`, `MaxKeys`, `MaxDatagrams`, `MaxEntries`, ...) is a
constant of the proofs too, of which they assume no more than that it is a natural
number, `OneGrowth` aside.

Only model-checked: the liveness properties (`ConnectionIsGivenUp`,
`EverythingArrives`, `BacklogIsServed`, `StartupSettles`, `SendEnds`, `EntriesAreShown`),
since TLAPS does not prove properties under fairness, and the three that do not hold.
Every invariant and action property of the runs that hold, and both refinements, are
proved. Most types are proved and not checked again; those of `AuthClient` and `Logger`
are both. `KeyBytesFollowTheSession` and `SilentOnceDisconnected` are only proved:
`AdmissionBindsIssuedKey` rests on the first, and `ImplementsProtocol` says the second
among other things.

## 5. Abstractions

* Cryptography is perfect: a message decrypts under its own key and no other.
  Parsers are known by what they come to.
* `TcpService` leaves out writes, except the one of a refusal, which is awaited: the
  others are started and not waited for, and one that fails shows only in the send task.
  Of a handler it keeps what it does to the connection, and of a client that its session
  is over once it was refused. A poll that waits again while the accept loop runs it takes at most
  one tick that has passed: ticks are two seconds apart.
* `ServerStartup` takes its ports to be used by no other program, and folders not
  to vanish while it runs. Name resolution succeeds or fails.
* Big numbers, AES, randomness and paddings are taken for what they compute.
  `RsaBlinding` takes two draws to be different numbers, and no number to come back by
  squaring; a private key carries its public exponent, so nothing is computed without
  a blinding.
* `Queue` and `Dictionary` are the runtime's, modelled from their documented
  structure. The steps of a queue's operations interleave as written; an overlapping
  use of a dictionary loses any of its entries.
* `UdpChannel` leaves out what a send sends. Its listener is disposed by one thread. `FsdpPacketClient.Dispose` is its
  client's `Dispose`; that it forgets its own subscribers first is left out.
* Debug and release builds differ in `Debug.Assert`; the models are of the release
  build, with `asserted` to tell where a debug build would stop.

## 6. Not modelled, and the plan

Not modelled at all: `GameService`, a stub; the state
machine of the FSDP stream, which cannot run as long as `Write` throws
`NotImplementedException` and incoming packets reach no handler; the bindings of the
native cryptography (`src/OpenSslNet`, `src/AesModesNet`), which pass arguments on;
what `src/native` holds besides the use of a key and the CWC hash, above all the rest of
OpenSSL, a vendored library of which the server calls key generation, reading and
writing, and RSA, so that TLS, certificates, curves and other ciphers, by far most of
its lines, are never reached;
generated messages; the binary readers and writers the ticket parser does not use,
utilities and sample programs, which have no state of their own.

The order of the work. Done: the session and its protocol, the framing, the version
gate, the service tasks, the startup, the login session and its queue, the UDP
channel, the ticket parser, the FSDP counters, the logger, the RSA key in use, the CWC
hash. To come:

1. A composition of `AuthClient` over `SvfwChannel`, both directions.
2. The growth of the queue's array beyond once in `LoginClient`, so that `OneGrowth` can go.
3. The padding of an RSA message (`crypto/rsa/rsa_oaep.c`, `rsa_pk1.c`), which is
   written without branches and would be proved to agree with its plain form.
