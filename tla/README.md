# Vandrare: verification

TLA+ models of vandrare, an SSH gateway through which
connections publish services ("reverse tunnels") and others reach them, with
TLC runs on small instances and proofs checked by TLAPS. Paths below are
relative to `src/`.

## The system

| Component | Source | State it keeps | Operations |
|---|---|---|---|
| Reverse tunnels | `gateway/ssh/reverse_tcp.go`, `gateway/ssh/forward_tcp.go`, `internal/loadbalancer/lb.go` | `g.accepting` (endpoint to LB), `g.cleanup` (connection to closure), both under `g.l`; the workers of each LB under its own mutex; a goroutine per request and per channel | tcpip-forward, cancel-tcpip-forward, direct-tcpip, cleanup, `LB.New/Remove/Empty/Offer` |
| Random set | `internal/set/random.go` | a slice | `Add`, `Remove`, `Pick` |
| Store | `internal/store/{store,ops,kv,json}.go` | SQLite; per handle the `sql.Tx`, a sticky error, a read cache | `Ops`, `KV`, `GetBytes`, `SetBytes`, `Fail`, `Commit`, `Rollback`, `Close` |
| Tokens | `internal/store/tokens.go`, `gateway/ssh/tokendb.go`, the view of migration 0.2.1 | token rows with expiry | `Issue`, `Valid`, `List`, `Remove` |
| Migrations | `internal/store/migrations.go` | the schema and rows of applied versions | `Open`, `initDB`, `applyMigration` |
| Key database | `gateway/ssh/static_keydb.go` | key configs and permission lists in the store | `RegisterKey`, `SetPermission`, `AuthN`, `AuthZ`, `RequestKeyRegistration` |
| Gateway lifecycle | `gateway/ssh/gateway.go` | the SSH and HTTP servers, the host certificate | `NewGateway`, `Run`, `runSSHD`, `genHostKey` |
| Admin shell | `gateway/ssh/admin.go`, `internal/appshell/` | the script typed so far | `runAdminSession`, `EvalInteractive` |
| Sessions and patterns | `gateway/ssh/session.go`, `internal/pattern/match.go` | none | `Match` |
| HTTP API | `gateway/ssh/http_api.go` | none of its own | `runHTTPD`, `protectHttpFunc`, `registerKey` |
| Generators, command line, domains, key files, optional values | `gateway/generators.go`, `cmd/`, ... | none | |

How they interact: every SSH connection runs in goroutines of the ssh library,
which call the gateway's handlers. `PublicKeyHandler` authenticates the keys
that a client offers, all but the admin's through the key database, which runs
short transactions on the store; the admin session and the HTTP API write to
the key and token databases. A tunnel request only asks whether a key was
accepted on its connection (`ensurePubkeyAuth`): `AuthZ`, which knows the hosts
of a key, has no caller yet. The request
takes an LB from the registry, adds a worker to it and leaves a goroutine that
receives calls from the worker's channel. A direct-tcpip channel finds the LB,
picks a worker from the LB's random set and offers itself on that channel. When
a listener's connection ends, or when it cancels, its cleanup removes the
worker, deletes the LB's name if the LB is empty and closes the connection.
`Run` spawns the two servers, each with a goroutine that closes it when the
shared context ends, and returns when both have.

What is hard here:

- *Concurrency.* The registry, the LBs and the channels have separate locks.
  What was read under one is used after its release: the LB by `registerEndpoint`
  and by callers, the worker by `Offer`. Cleanups are called from two places.
- *Failure.* A connection may end between any two steps of its own requests. A
  database call may fail anywhere in a transaction and errors are sticky in two
  places. The process may stop at any moment, also between two migrations. A
  server may fail to start while the other one runs.
- *Waiting.* `Offer` blocks on an unbuffered channel whose receiver may be gone;
  a cancel request waits for a cleanup that somebody else may be running; `Run`
  waits for servers that somebody else must close.
- *Limits and clocks.* Slices shifted in place, a permission list cut at its
  end, token expiry in two units.

What makes each component correct: a call reaches only workers of its endpoint;
a registered listener can be found, an ended one is forgotten; nobody waits
forever for somebody who is gone (tunnels). The slice is a set and retains
nothing (random set). A transaction is applied as a whole or not at all, its
reads stay true, its locks end with it, and its caller learns the outcome
(store). No grant is lost or restored by a concurrent or failed one (key
database). A request is accepted exactly while its token is stored and not
expired (tokens). Every migration is applied once, in order, together with its
record, over crashes and in processes that start at once (migrations). Lines
run once and in order, and an exit code says whether all did (shell). A
shutdown, or a server that fails, ends the process (lifecycle).
`PROJECT.json` lists the hazards line by line and which property covers each.

## The modules

| Module | Kind | What it is |
|---|---|---|
| `TunnelService` | abstract | sessions given to listeners: dial, route, open, end |
| `ReverseTunnel` | detailed | the registry, the LBs and all goroutines around them |
| `ReverseTunnel_proofs` | proofs | nine theorems, among them that it implements `TunnelService` and never comes to rest half-way |
| `PickSet` | abstract | a set with a random pick |
| `RandomSet` | detailed | the slice and its backing array |
| `RandomSet_proofs` | proofs | five theorems, among them that it implements `PickSet` |
| `AtomicStore` | abstract | transactions applied at once or dropped |
| `Store` | detailed | the handles, the sticky errors, the read cache, SQLite's locks |
| `Store_proofs` | proofs | five theorems, among them that it implements `AtomicStore` |
| `KeyTable` | abstract | a table whose rows are changed at once, from what they hold then |
| `KeyDB` | detailed | the key database as programs of calls of `Store`, which it extends |
| `KeyDB_proofs` | proofs | five theorems, among them that it implements `KeyTable` and is a program of the store's calls |
| `Grants_proofs` | proofs | `GrantsSurvive`, by counting the entries of the lists, on top of `KeyDB_proofs` |
| `Tokens` | detailed | tokens, the clock, and the requests that present them |
| `Tokens_proofs` | proofs | four theorems: each property of the run |
| `Migrations` | detailed | processes of several releases opening one database |
| `Migrations_proofs` | proofs | seven theorems: the order of versions, the safety properties, one next migration at a time |
| `Pattern` | operators | the matchers of session commands, turn by turn |
| `AdminSession` | detailed | sessions, the admin's shell, and their connections |
| `Gateway` | composition | the two servers and their shutdown, with `AdminSession` on the connections |
| `Gateway_proofs` | proofs | eight theorems about `Gateway`, `AdminSession` and `Pattern` |
| `MC*` | TLC | instances: constants and symmetry only |

Operators commented `Fault:` are changed versions of the definition that
follows them. No specification uses them; each one is a bug the code could have
had, and shows which property would notice.

### ReverseTunnel

One action is one critical section or one channel operation of one goroutine.

| Actions | Code |
|---|---|
| `AcquireLB`, `JoinPool`, `RegisterCleanup` | `handleTCPForward` and `registerEndpoint`: `acquireLB` under `g.l`, `lb.New` under the LB's mutex, `registerCleanup` under `g.l` |
| `LeaveLoop` | the serving goroutine takes `ctx.Done()` |
| `CleanupRemove`, `CleanupForget`, `CleanupClose` | the `sync.OnceFunc` closure: lock `g.l` and remove the worker; delete the name if the LB is empty and unlock; close the connection |
| `Cancel`, `CancelReturn` | `handleCancelTCPForward`, which waits for the closure whoever runs it |
| `Dial`, `RejectChannel`, `GetLB`, `PickWorker`, `AbandonOffer`, `HandOver` | `handleDirectTCPIP`, `getLB`, and `LB.Offer`: pick under the mutex, then a select between the send and the caller's context |
| `OpenReverse`, `PeerRefuses`, `ReverseFails` | `handleReverseConnection` |
| `CopyEnds`, `CopyBreaks`, `CloseOther` | the two goroutines of `copyAndClose`, each named by the end it reads: `io.Copy` returns and this end is closed; the copy must return since the connection read is gone; then the other end is closed |
| `Disconnect` | a connection ends, at any moment |

A registration stands for the accepted request, the Go channel `lb.New` makes,
the cleanup closure and, if it finds no LB, the LB it makes. A gateway lock that
is taken and released within one action is not state; `mutex` is `g.l` as a
cleanup holds it across two. Endpoints are values: `net.JoinHostPort` has no
other effect here. The ssh server serves the global requests of one connection
one after another (`RequestLoopFree`), and may still serve one that it had
read when the connection closed. `ensurePubkeyAuth` is true on every
connection that is up, so it decides nothing here. Of a tunnel, `tunnel` keeps
which goroutines still copy, which have one end left to close and which ends
are shut; the bytes are not modelled. A goroutine that waits for bytes of a
silent peer may wait forever, also when the other one has shut both ends: that
wakes nobody before the ssh library has seen the peer's answer.

The refinement counts a session as routed when the worker's goroutine has
received it. A caller that has picked a worker has no promise yet, because the
worker's loop may end before it receives.

### RandomSet

`len` and `array` are the slice header and its array, `Zero` the zero value.
`Pick` takes any permutation for `rand.Shuffle` and returns the first element;
`Remove` shifts left and clears the last slot through the old header; `Add`
scans first. `Cap` bounds the array; the instance has as many slots as items, so
the bound never stops an `Add`.

### Store

One action is one call on a handle; a handle that is closed may be opened
again. `Ops` may fail, and every call of the database may fail. `kv` is the one
`kvops` that each caller makes right after `Ops`. `Fail` is
`ops.Fail(kv.Err())`, the only form callers use. `Commit` reproduces that the
error of `tx.Commit` goes to the handle and not to the caller, `Rollback` that
it dereferences the `sql.Tx` that a failed `Begin` did not return. The fields `parent`
and `closed` of `ops` are never set by any code and are left out.

External, from how the code uses it: SQLite in its default journal mode. A
deferred transaction takes a shared lock on its first read and the reserved
lock on its first write, and writes are committed only when nobody else holds a
lock; who finds a lock taken gets an error at once, since no busy timeout is
set. A commit or rollback that fails finishes the `sql.Tx`; its connection
goes back to the pool and may keep the lock until the process ends (`stuck`).
That SQLite may undo a whole transaction by itself when a call fails is seen at
the commit that then fails. `Crash` ends the process between any two calls.

### KeyDB

Each function of `static_keydb.go` is a program of store calls, and one action
is one of these calls or the caller's work between two of them; so an action
is the action of `Store` it makes, with the caller's program counter. `call`
holds what the function has in its locals.

| Actions | Code |
|---|---|
| `Call` | `keyset.put`, `keyset.addPermission`, `registerKey`, `PublicKeyHandler`'s `AuthN`; `AuthZ`, which nothing calls yet |
| `OpsCall`, `GetCall`, `SetCall`, `FailCall`, `CommitCall`, `CloseCall` | the calls of `RegisterKey`, `SetPermission`, `RequestKeyRegistration` and `lookupAndVerifyConfig` |
| `RefuseOperation` | `AuthZ` of anything but `expose-endpoint` |
| `Verify` | the comparison with the clock, in `lookupAndVerifyConfig` |
| `Answer` | what `AuthN` and `AuthZ` return after the deferred `Close`, `AuthZ`'s search for the host included |
| `GivesUp` | the panic of line 130 on a list of one |
| `KdbCrash` | the process ends |

`SetEntries` is the list arithmetic of `SetPermission`, the cut at
`foundIdx-1` included. The `less` of its sort is never true for entries that
are all `allow`, so `Orders` takes any order. JSON is modelled by what it
tells apart: a row holds a configuration, a list or a registration, and
`KdbTypeOK` shows that the three never mix. Configurations and lists come back
as they were put. Registrations do not: they are passed by value, so the
pointer's `MarshalJSON` does not apply, and `UnmarshalJSON` refuses the object
that was written instead. `Decoded` makes such a read look like a missing row,
as `RequestKeyRegistration` takes it, and its check of the body (lines 180-185)
is therefore no step of the model. A list has at most as
many entries as `Value` allows; an `Append` beyond is not taken.

### Tokens

| Actions | Code |
|---|---|
| `Issue`, `Revoke`, `ListActive` | the functions of `tokenset` in `admin.go` |
| `Request`, `Select`, `Check`, `Serve` | `protectHttpFunc`: `Valid` reads the row, compares the clock and then the secret, and the handler runs after that transaction |
| `Execute`, `StatementFails`, `CommitCall` | the statement of a transaction, its failure, and the `Commit` whose result nobody looks at |
| `Tick`, `Crash` | time passes; the process ends |

`ListActive` may return any part of the active tokens: `List` does not ask
`rows.Err()`, so an iteration that fails ends the list early and says nothing.
Rows have no handle cache and no sticky error in these paths, so the module
has SQLite's locks of its own instead of `Store`. `is_active` is the view's
expression: milliseconds against seconds, `Second` of them to one. `lost` and
`handed` are history. The secret is either the right one or not (`op`); ids
are random and never collide.

### Migrations

| Actions | Code |
|---|---|
| `Start`, `Seed`, `Query`, `Finish` | `Open` and `initDB`: the seed file, the highest applied version, the end of the sorted loop |
| `Content`, `Record`, `Commit` | `applyMigration` within `inTX` |
| `Fail`, `Crash` | any error, which ends `Open` and rolls back; the process ends anywhere |

`Files` gives each process the versions embedded in its release. SQLite's
write lock is held by the process that is at `record` or `commit`. A migration
creates its table or view without `if not exists`, so its content fails when
it is in the schema already. `ReleaseAssumption` says that a release only adds
versions above all earlier ones; without it `StartedUpToDate` is false, since
the loop skips everything up to the highest applied version. Nothing in the
code enforces it; the files in `migrations/` meet it.

### AdminSession, Pattern and Gateway

| Actions | Code |
|---|---|
| `Connect`, `Authenticate`, `Disconnect` | the ssh library: a handshake begins, a signature by an accepted key is verified, a connection ends at any moment |
| `PublicKeyHandler` | the handler, for each key that is offered, with the `allow_admin` mark on the connection's permissions |
| `Open` | `sessionHandler`, with `isAdminSession` and the whoami pattern |
| `Scan`, `Run`, `EndOfInput` | a turn of `EvalInteractive`'s loop up to `RunContext`, the script, and what follows the loop |
| `Exit` | the deferred `Exit` and `Close` of `runAdminSession`, or the session's own |
| `genHostKey`, `ListenSSH`, `ReturnSSH`, `CloseSSH` | `runSSHD` and its goroutine |
| `StartHTTP`, `ListenHTTP`, `ReturnHTTP`, `ShutdownHTTP` | `runHTTPD` and its goroutine |
| `Cancel`, `WaitChildren` | the caller's context ends; `Run` |

`accepted` is history: the keys for which the handler has said yes.
`allow_admin` holds the connections that carry the mark, and outlives the key
that set it: `isAdmin` reads the mark, whichever key was authenticated.

A line is a number and a form, whole, opening or closing a block, which is all
that `ValidScript` tells apart. `Turn` is one turn of `all.Match` with an
equality matcher, with the `break` as `over`. External, from how the code
uses them: maestro's `Shutdown` cancels the context that both servers share; a
`Close` of the SSH server closes the connections it knows, also twice, and is
lost on a server that has no listener yet, while `http.Server` remembers its
`Shutdown`. The process ends when `Run` returns, with whatever its sessions do.

## What is checked

| Run | Instance | What it shows |
|---|---|---|
| `tunnel_safety` | 2 connections, 2 endpoints, 3 forward requests, 1 channel; symmetric | type, nobody stranded, pools, routing, no dead names, sharing, refinement of `TunnelService` |
| `tunnel_liveness` | 2 connections, 1 endpoint, 2 forward requests, 1 channel; no symmetry | five liveness properties under fairness |
| `tunnel_listed` | 2 connections, 1 endpoint, 3 forward requests | **violated**: an accepted listener can be unreachable |
| `random_set` | 5 items, 5 slots | set behaviour, no duplicates, nothing retained |
| `store` | 2 handles, 2 keys, 2 values; symmetric | reads stay true, locks released, errors trusted, refinement of `AtomicStore` |
| `store_commit` | 2 handles, 1 key, 1 value | **violated**: `Commit` returns nil for a refused commit |
| `store_reread` | 2 handles, 1 key, 1 value | **violated**: the second read of a key finds nothing |
| `keydb` | 2 sessions, the 3 rows of one key, 2 permissions, lists of up to 3; symmetric | rows of the right kind, checks answered from current rows, idle sessions without handles, no grant lost, refinement of `KeyTable` |
| `tokens` | 2 clients, 2 tokens, 2 owners, clock up to 4; symmetric | accepted exactly while live, handed out and stored, revoked for good |
| `tokens_listed` | the same | **violated**: expired tokens are listed as active |
| `migrations` | 2 processes of this release, 1 of a later one with one more file | records and schema agree, each applied once and in order, up to date after a start, every start ends |
| `gateway` | 1 connection, 2 sessions of 3 and 1 lines, 11 commands, both servers or either | lines once and in order, exit codes, commands, shutdown |

*Tunnels, safety.* `NobodyStranded` says what is left when no goroutine of the
gateway can take a step (`AtRest`, the guards of the fair steps spelt out): the
lock is free, every cancel answered, every listener serving or cleaned up, no
caller waiting but for a worker that left, and without connections an empty
registry. Any lock kept, worker forgotten or cleanup skipped on any path ends
in such a state. `PoolsHoldLiveWorkers` says
that an LB holds exactly the workers that joined and were not removed.
`RoutedToOwnEndpoint` says that a caller, which keeps an LB over three steps,
reaches only workers of the endpoint it dialled. `NoDeadName` says that a name
whose LB is empty is about to change, so callers are not turned away for good.
`SharedUntilFirstDeparture` says that all listeners of an endpoint share its LB
until the first one leaves; the unconditional form is false (see below).

*Tunnels, liveness.* Closed connections are cleaned up (`ClosedConnCleansUp`);
when all are gone the registry is empty and stays so (`RegistryDrains`); a
blocked `Offer` ends unless its worker has left its loop (`OfferResolved`);
when one copying goroutine stops or one connection dies, both ends of the
tunnel are shut whatever the other goroutine waits for (`TunnelEnds`); cancels
return (`CancelReturns`). `OfferResolved` has its exception because the code has it:
the goroutine that would receive is gone and only the caller's context remains.

*Key database.* `GrantsAreCurrent` says how old a positive answer may be: the
configuration it rests on is the committed row until the check's transaction
ends, whatever is registered meanwhile, but the answer comes after the close
and a change may have been committed in between. `IdleHoldsNothing` says that a
session whose call is over, by whatever early return, failed call or panic,
has left no handle, no writes and no lock, but for a transaction that failed to
end. `GrantsSurvive`
relates the list before and after each commit: a grant goes one at a time, by
its own deny or by the deny of the last entry that takes its neighbour.
`ImplementsKeyTable` says the same of every row without the list's details:
each change is applied at most once, to the row as it is then.

*Tokens.* `AcceptedIffLive` relates the decision, made on a row read earlier,
to the table of that moment, in both directions. `HandedOutIsStored` says that
a token in a user's hands disappears by a revocation only, the failed `Commit`
apart. `RevocationIsFinal` says that no late or failing call brings a token back
that has gone, nor changes the owner or lifetime of one that is stored. What
holds of a listing is little: it may be short, and it may show expired tokens
(`ListedAreValid`, see below).

*Migrations.* `RecordsMatchSchema`, `AppliesNext` and `StartedUpToDate`
hold although the last version is read outside the transactions: a process
that comes too late fails on what exists already. `AppliesNext` is about the
commits: each adds one version that the schema lacks, all lower ones being
applied. `StartEnds`: a start ends,
as started or as failed, whatever the others do.

*Gateway.* `RunsOnceInOrder` and `ExitCodeTells` relate what a session has
read, what it has run and what its client was told, over scripts that fail in
the middle and connections that another session closes. `CommandDecides`
compares `Match` with plain equality of commands, and the mark of a connection
with the keys accepted on it: a session is the admin's if the admin key was
among them, also when it was only offered and another key was authenticated. `ShutdownCompletes`: once
the context is done or a server has returned, `Run` returns, unless the SSH
server was closed before it listened; `Run` then stays until that listener
fails.

*Bounds.* Requests and channels are never reused in an instance, so their
number bounds the history. Two connections are the least that can be listener
and caller, or two listeners that race. Three requests are what the longest
race needs: one that leaves, one that joins the orphaned LB, one that has
registered a new LB under the name meanwhile. Two endpoints are needed to route
a call wrongly and to have two requests of one connection differ. Channels
share no state but the connections, so one shows each interleaving with the
registry. The view of `tunnel_safety` leaves out the locals of a channel that is over,
which no step reads: `RoutedToOwnEndpoint` and the refinement see them when
they are set. The liveness run drops the second endpoint and third request because
temporal checking must do without symmetry. Five items make every slice
position (first, inner, last) and both neighbours distinct. Two handles make
every lock conflict, two keys show that writes apply together, two values that
an overwritten value is not seen. `keydb` needs lists of three for a first,
an inner and a last entry; its view leaves out the reply of the last store
call, which no later step reads and no property of the run mentions outside
`TypeOK`. The tokens' clock passes both lifetimes and comes to the first full
second; two tokens and owners tell a wrong row or owner. Two processes of one
release race for each file, and the third, of another release, moves the
highest version past them. Three lines make an open block, a line in it and its
end, or three scripts; the second session closes the connection under the
first. The commands are the two patterns, their proper prefixes and suffixes,
and longer ones. All state spaces are finite and explored
in full; there are no state constraints.

*Deadlock.* Checked in every run but `gateway`, where the process ends.
An accepted request leaves its closure in `g.cleanup` for good, so another cancel
request can always come; a slice can be picked from, a handle opened, a call
made and a process started at any time.

*Fairness.* Weak fairness of each step that a goroutine of the gateway can take
by itself: the Go scheduler runs every runnable goroutine, and `sync.Mutex`
hands over to a waiter after a millisecond of starvation. An unbuffered send
with a receiver ready is such a step. `OpenChannel` and `io.Copy` end as the
peers like (`PeerRefuses`, `CopyEnds`) and are fair only once the connection
they depend on is gone (`ReverseFails`, `CopyBreaks`). Nothing is assumed of peers: `Disconnect`,
`AcquireLB`, `Cancel`, `Dial`, `OpenReverse`, `PeerRefuses`, `RejectChannel` and
`CopyEnds` have no fairness. The store has no waiting and no
liveness property: a call that meets a lock fails, and so in the key database
and the tokens. In `Migrations` a process takes its steps (`Step`), failing
among them; in `Gateway` the two servers, their goroutines and `Run` take
theirs. A server returns by fairness only after it was closed: that a
healthy listener fails is possible and never due. Nothing is assumed of
sessions, of `Cancel` or of `Start`.

## What the runs found

1. `RegisteredReachable` (`gateway/ssh/reverse_tcp.go:53-62`). `acquireLB` and
   `lb.New` are separate critical sections. If the last worker of the endpoint
   is cleaned up in between, the name is deleted and the new worker joins an LB
   that nobody can find. Its connection stays up and is never offered a call. A
   later cleanup in the orphaned LB can delete the name of the LB that replaced
   it, since the deletion is by name.
2. `CommitTells` (`internal/store/ops.go:43-47`). A failed `tx.Commit` is kept
   in the handle and nil is returned, so `RegisterKey` and `SetPermission`
   report success for what was not stored.
3. `ReadsTheValue` (`internal/store/kv.go:31-40`). A shadowed `buf` makes a
   successful read cache the empty buffer. Present callers read each key once
   per transaction.
4. `ListedAreValid` (`internal/store/migrations/0.2.1-token-set-views.sql:10`).
   The view compares `expires_at_unixms` with `unixepoch('subsec')`, which is
   in seconds, so `listActive` shows expired tokens as active, which `Valid`
   refuses.

Not runs, but visible in the models: denying the last entry of a permission
list takes the entry before it as well, and panics on a list of one
(`gateway/ssh/static_keydb.go:130`; `GrantsSurvive` limits the loss to exactly
that); `Issue` hands out a token whose `Commit` has failed
(`gateway/ssh/tokendb.go:47`; `HandedOutIsStored`); an SSH server that is closed
before it listens keeps `Run` from returning (`gateway/ssh/gateway.go:144-147`;
`ShutdownCompletes`). And closing a handle whose `Begin` failed
dereferences a nil `sql.Tx` (`internal/store/ops.go:57-60`). `HandleTellsTx`
limits the panic to exactly that case. A stored registration is never decoded
(`gateway/ssh/static_keydb.go:52`, `187`; `Decoded`), so the check that its body
fits its row does not happen. `List` takes a failed iteration for the end of the
rows (`internal/store/tokens.go:139-151`; `ListActive`). `allow_admin` says that
the admin key was offered on a connection, and not that it authenticated it
(`gateway/ssh/gateway.go:160-181`; `CommandDecides`).

## What is proved

All theorems hold for any constants that meet the modules' assumptions: `None`
is none of the values it stands beside, `Zero` is not an item, `Cap` is a natural
number, the rows of `KeyDB` hold values of its three kinds, a lifetime is positive,
`Files` are versions of releases, commands are sequences of strings and the two
patterns differ (`CommandAssumption`). Nothing is assumed finite but in
`CapNeverBinds`, which is about finitely many items, and in `NextDetermined`,
which shows of itself that what is applied is finite.

*ReverseTunnel.* `IInv` is layered. `Registry` joins type correctness of the
registry with `RegistryConsistent` and `PoolsHoldLiveWorkers`: they are only
inductive together, because the lock's holder is known by its `once` state and
a worker's membership by both its goroutine and that state. `Calls` adds what a
caller holds over its steps (`CallsConsistent`: the LB is its endpoint's, and
so is the worker picked from it), which gives `RoutedToOwnEndpoint`.
`NoDeadName` and `SharedUntilFirstDeparture` rest on `Registry` and are
inductive on top of it. For the refinement each action is mapped to a step of
the service or a stutter; `HandOver` is the routing step and needs that a
receiving worker is registered for the dialled endpoint.

`NobodyStranded` adds one layer, `Departed`: who has left its loop or was
cleaned up has lost its connection. With `Registry` it follows in the order of
the waiting: the holder of `g.l` is in its cleanup and can go on, so the lock is
free; hence whoever runs a cleanup can go on, so cancels are answered; hence
requests have settled, so pools hold nobody whose connection is gone, and by
`NoDeadName` no name is left. `ForwardCorrect` shows that a request takes at
most seven steps and a channel six, besides two of each copying goroutine, and
none of them backwards. Together they are
what the liveness properties need beside fairness: a rest is reached, and at
rest what had to happen has happened. Only the last inference, from weak
fairness of the steps to the rest, is TLC's.

*RandomSet.* `TypeOK`, `NoDuplicates` and `NothingRetained` are inductive
together; for `Remove` the position is unique by `NoDuplicates`, so that
shifting over it removes the item, and for `Pick` a permutation preserves the
set of elements. `CapNeverBinds` is a pigeonhole: a full array without
duplicates maps onto all items, so an `Add` finds its item or a slot.

*Store.* `IInv` adds to the checked invariants what a commit relies on
(`Locking`: who has read or written holds a lock, and a finished transaction has
neither reads nor writes) and why a handle's error can be trusted (`Handles`:
`Fail` can only pass on `ErrTxDone` from a transaction that is over). A commit
that changes the database requires everybody else's lock to be gone, hence
nobody else has read anything: that is the whole reason why `ReadsStayTrue` is
inductive and why a read-modify-write by one handle loses no update.

*KeyDB.* `KdbIInv` joins the invariant of `Store`, the program (`Flow`), what a
session's handle holds at each step of it (`Prepared`: nothing is written before
`set`, and at `commit` a handle without an error has written one row, made from
the value that it has read) and `RowsOK`. That reads stay true until the handle
ends, an invariant of `Store`, makes what a check has read current until its
`Close` (`GrantsAreCurrent`) and
a commit a change of the very value it was computed from: the `Apply` step of
`KeyTable`. `Store_proofs` is extended and its lemmas are used call by call.
`KdbStoreCorrect` makes that a theorem: `KdbSpec` implies the store's `Spec`, so
the key database inherits its promises. `IdleCorrect` needs that a session has
an `sql.Tx` exactly while its program is between `Ops` and `Close`
(`HandleFits`), on the early returns and panics too.

*Grants.* `GrantsSurvive` counts. `Places(list, e)` are the positions of an
entry, and `Times` their number. Moving positions by an injection keeps the
number (`Moved`); so a sort, which permutes, keeps all counts, while dropping
the first entry (`TailTimes`), putting the last in the place of the one denied
(`MoveLastTimes`) and the cut at `foundIdx-1` (`CutTwoTimes`) change only those
of the entries they name. `OnlyCommits` shows that a list changes by a commit
only, of a value computed from the list that is still there.

*Tokens.* `IInv` says that an insert has a row and a delete has none, and that
a request between its read and its decision holds the shared lock and has the
row that is in the table. `AcceptedIffLive` and `HandedOutIsStored` follow.
`RevocationIsFinal` rests on `Unique`: only
tokens that were handed out are stored or being revoked, and a token that is
being issued is neither, by one client only. A commit therefore never writes
over a row, nor brings back one that has gone, in whatever order the calls end.

*Migrations.* `VersionOrder` shows `Less` a strict total order. `IInv` adds to
the checked invariants that everything up to a process's position is applied
and that its transaction has written its next file. That file is the least one
above the position, so a commit extends the prefix (`AppliedIsPrefix`),
whatever other processes have applied meanwhile. That it extends it by a
version nobody has applied yet, `AppliesNext`, needs SQLite's write lock:
`Locked` says that one process at most is between its content and its commit,
and that its version has stayed out of the schema since. `NextDetermined` shows
that what is applied stays finite, hence has one highest version for the query
to find, and that the sorted loop has exactly one next file until it is done.
`ReleaseAssumption` is used for the versions of other releases.

*Gateway.* `IInv` splits the lines a session has read, by its program counter,
into those that ran, those of the script at hand and those still accumulated,
in this order and numbered through; `parseErr` is true exactly when something is
accumulated. The exit code follows from what is left when the session ends.
`MatchIsEquality` holds for sequences of any length. `Match` runs `all.Match`'s
loop as a recursive function of the turns; the induction over them is by the
least turn at which `Matched` fails (`WFMin`), since the library's induction
theorems take an operator. `CommandCorrect` is its use in `Open`, with `Marked`:
a connection carries the mark exactly when the admin key was accepted on it. For the
servers, `ClosedForGood` and `Unguarded` relate each with its goroutine;
`RestCorrect` and `ForwardCorrect` are to `ShutdownCompletes` what those of the
tunnels are to theirs.

Only model-checked: the seven liveness properties (`ClosedConnCleansUp`,
`RegistryDrains`, `OfferResolved`, `TunnelEnds`, `CancelReturns`, `StartEnds`
and `ShutdownCompletes`), which are out of the prover's reach, and the violated
properties.

## Not modelled

- Certificate generation, address formatting and key files: cryptography,
  strings and I/O without state of their own. `Gateway` has only whether
  `genHostKey` succeeds. The health and certificate endpoints print constants;
  a request that comes before `genHostKey` has set the certificate fails by itself.
- The client's configuration generators, the command line and the flags: they
  download, print and wire.
- The script engine: its language, its variables between scripts, and the
  conversions of `casts.go`, `module.go` and `echomod.go`. The functions that
  scripts call are the callers in `KeyDB` and `Tokens`.
- The bytes copied through a tunnel or printed to a session.
- What an HTTP client is told of a registration: `registerKey` answers 200
  also for one that failed (`gateway/ssh/http_api.go:106-109`).
