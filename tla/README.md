# TLA+ models of a2a-go

These modules model the concurrent core of the a2a-go server: the in-memory
event queue, its Manager, the synchronous `message/send` path of the request
handler, the task update manager that applies an agent's events to a Task, the
in-memory task store, the Task validator, and the client's in-memory
credentials store.
TLC checks them under the configurations listed below. Line numbers refer to
the files under `src/`. `src/a2asrv/eventqueue/queue_in_memory_impl.go` holds
three files one after another:
- lines 1-132 are an older queue revision;
- lines 133-270 are the current revision;
- lines 271-321 are `queue.go`, the interfaces.

## 1. Inventory of the system

| Part | Source | State | Operations | Interacts with |
|---|---|---|---|---|
| Event queue `inMemoryQueue` | `queue_in_memory_impl.go` 133-270 | buffered channel `events` (capacity `defaultMaxQueueSize` = 1024), `closeChan`, `closed`, a one-token `semaphore`, `closeMu` | `Write`, `Read`, `Close` | executors write, the handler reads, the Manager closes |
| Older queue revision | same file, 1-132 | the same, with `closeChan` of capacity 1 | same | not used by the Manager |
| Queue Manager `inMemoryManager` | `manager_in_memory_impl.go` | `queues` map under `mu` | `GetOrCreate`, `Destroy` | makes and closes queues |
| Request handler | `a2asrv/handler.go` | a reference to its executor and Manager | `OnSendMessage`; all other methods return `errUnimplemented` or a nil sequence | Manager, queue, `AgentExecutor` |
| Task update manager | `src/unnamed/part_003` (package `taskupdate`) | `mgr.Task`, a `Saver` | `NewSubmittedTask`, `Process` (Message, Task, status update, artifact update, other), `updateStatus`, `validate` | the task store |
| Task store `Mem` | `src/unnamed/part_000` | map of Tasks under a RWMutex | `Save` (gob deep copy, may fail), `Get` | task update manager |
| Task validator | `internal/taskstore/validator.go` | none (pure) | `validateTask` and the recursive metadata cycle check | task store |
| Credentials store `InMemoryCredentialsStore` | `a2aclient/auth.go` 49-89 | map of session to map of scheme to credential, under a RWMutex | `Set` (makes the session's map on first use), `Get` | client code that authenticates calls |
| Client, transports, interceptors, card resolver | `a2aclient/...`, `part_004` | interceptor list, resolver options | every call returns `ErrNotImplemented` | none |
| Protocol types and JSON | `a2a/agent.go`, `part_005`, `part_006` | none | marshalling | none |

Hard behaviours, and the properties that make each part correct:

- **Queue.**
  - Writers, readers and closers run concurrently and may be cancelled.
  - A `Write` holds the semaphore token across its `closed` check and its send. This keeps `close(events)` away from the send, and a send on a closed channel panics.
  - `Close` first closes `closeChan`. A `Write` blocked on a full channel while it holds the token can then give the token up.
  - `Read` drains buffered events before it reports `ErrQueueClosed`.
  - Correctness means: no panic, the Queue contract holds (no `Write` succeeds after `Close` returns, reads are FIFO and drain before failing), and every call returns.
- **Manager.**
  - Every request for a task gets the same queue until `Destroy` removes it.
  - `Destroy` closes the queue while holding the Manager mutex.
- **Manager and queue together.** `Destroy` keeps `m.mu` while `Close` waits for the semaphore token. The token may be held by a `Write` blocked on a full queue, and the readers that would drain it may be waiting for `m.mu` in `GetOrCreate`. Only the `closeChan` signal breaks this cycle.
- **Credentials store.** `Set` looks up the session's map and makes one when it is missing. The write lock must cover both steps, or two first `Set`s of a session lose one credential.
- **Handler.** `OnSendMessage` does four things in order:
  1. takes the task's queue;
  2. runs `Execute` synchronously;
  3. reads one event;
  4. checks that the event is a `SendMessageResult`.

  Correctness means that every call returns, and returns its own execution's result.
- **Task update manager.**
  - Each status update moves the current status message to History and merges Metadata, with the newest value winning.
  - Events of another task or context are rejected.
  - `Save` may fail, and the spec (sections 4.3 and 7) expects a failed update to leave the Task unchanged.

## 2. Modules

| Module | Models | State and actions |
|---|---|---|
| `EventQueueContract` | the `Reader`, `Writer` and `Queue` interfaces (lines 299-321) | `buf`, `phase` (open/closing/closed), per-call `pc`/`ret`. One atomic action per call outcome. |
| `EventQueue` | current `inMemoryQueue`, lines 207-270 | `events`/`evClosed` (the channel and `close(events)`), `closeChan`, `closed`, `sem` (token holder), `closeMu`, `canceled`, `pc`, `ret`, `got`. `WriteAcquire` is `acquireWithContext` plus the `closed` check. `WriteSelect` is the three-way select, and also the send on a closed channel, which panics. `Read` is the select of `Read`. `CloseLock` is lock, check and `close(closeChan)`. `CloseAcquire` is acquire, `close(events)`, `closed = true` and unlock. `Cancel` is the environment. |
| `TaskUpdateManager` | `taskupdate.Manager` and `Mem.Save` as seen by it | `task` (`mgr.Task`), `stored` (the store's copy), `result`, `calls`, plus history variables `base` and `applied`. `Process(e, saveFails)` covers every event kind, and the early return when `NewManager` was given a nil Task (`task = NoTask`). `StatusApplied` is `updateStatus`, `MergeMeta` the metadata merge, `Validate` is `validate`. |
| `RequestHandler` | `OnSendMessage` with `inMemoryManager`, queues used through `EventQueueContract` | `registry` (`m.queues`), `created`, `qbuf`, `qclosed`, and per request `hpc`, `hq`, `script` (what its executor does), `res`, `resEv`, plus `canceled` (whether the caller canceled the request's context) and the history variables `epoch`/`hepoch`. The actions are `Start` (TaskID check and `GetOrCreate`), `ExecStep` (one executor step: write, fail or return), `ReadStep` (the one Read and the type check), `Cancel` (the caller cancels the context; the executor's blocked Write and the Read may then take `ctx.Done`, even when their channel is ready), `Destroy`, and `OnTaskMethod`, `OnStreamMethod`, `OnPushConfigMethod` (the unimplemented methods, which return at once). |
| `EventQueueRev1` | the older `inMemoryQueue`, lines 66-132 | `EventQueue`'s state, through `INSTANCE EventQueue`. Write and Read are the same code. `CloseLock` sets `closed` and closes `closeChan` right after taking `closeMu`. `CloseAcquire` takes no part in `closed`. |
| `MetaValidator` | `validator.go` 23-125 | The heap the validator walks is chosen by `Init` and never changes: `cells` (array elements), `entries` (map values) and `task`. `ValidateMetaRecursive` and `ValidateElems` are RECURSIVE operators that return the set of results over all map iteration orders. `Key` is `%p`, which for a slice is the address of its first element. `Reachable`, `Cyclic` and `HasForbidden` are the reference. |
| `TaskStore` | `taskstore.Mem`, `part_000` 26-80 | `heap` (the callers' Tasks and every copy), `tasks` (`s.tasks`), per caller `pc`, `local` and `got`, plus the history variables `snap` and `saved`. `SaveCopy` is `deepCopy` outside the lock, and fails on a Task gob cannot encode. `SaveInsert` is the map write. `GetRead` is the read under `RLock`. `GetCopy` is `deepCopy` after `RUnlock`. `Change` is a caller writing a Task it holds. |
| `ManagerQueue` | `inMemoryManager` (`manager_in_memory_impl.go` 26-59) for one task, composed with `EventQueue` | `EventQueue`'s variables through `INSTANCE EventQueue WITH Closers <- Destroyers`, plus `queues`, `created`, `mu` (holder of `m.mu`), per call `mpc`, `held`, `dret`. `GetOrCreate` is one step under `m.mu`. `DestroyLock` is lock and lookup. `CloseLock`/`CloseAcquire` are the queue's `Close` with `m.mu` held. `DestroyDelete` is delete and unlock. Writers and readers use the queue through `EventQueue`'s actions. |
| `ManagerContract` | the `Manager` interface (`manager.go` 23-32) | `queues`, `created`, per call `mpc`, `held`, `dret`. `GetOrCreate` and `Destroy` are each one atomic step. |
| `CredentialsContract` | what `CredentialsService` promises (`auth.go` 44-55) | `dict` from (session, scheme) to credential; atomic `Set` and `Get`. |
| `CredentialsStore` | `InMemoryCredentialsStore` (`auth.go` 51-89) | `credentials` (session to map id), `maps` (the session maps, since Go maps are references), `mu` (writer holding the lock), per caller `spc`, `arg`, `result`. `SetLookup` is Lock and the lookup. `SetMake` is `make` and the registration. `SetStore` is the write and Unlock. `Get` is one step under `RLock`. |
| `MC_*` | model values and the small sets for TLC | |

`RequestHandler` uses queues through their contract: each call takes effect in one step. This is sound because the `queue` run checks that `EventQueue` implements `EventQueueContract`. The check instantiates `EventQueueContract` with a refinement mapping and checks its `Spec` as a property:
- `phase` is "closing" once `closeChan` is closed;
- `phase` is "closed" once `events` is closed.

`ManagerQueue` is checked against `ManagerContract` in the same way. A `Destroy` that is closing the queue maps to a pending call, and it takes effect at the delete. `CredentialsStore` is checked against `CredentialsContract` in the same way. The mapping `Stored` reads each (session, scheme) through `credentials` and `maps`.

## 3. Runs

| Run | Bounds | Checks | Result |
|---|---|---|---|
| `queue` | 3 writers, 2 readers, 2 closers, capacity 2 | `TypeOK`, `NoSendOnClosedChannel`, `QueueContract` (refinement), `AllCallsReturn` (under the fairness of section 4) | pass |
| `taskupdate` | 2 task IDs, 2 context IDs, 2 messages, 2 states, 2 metadata keys with 2 values (an event sets at most one), a nil or a submitted Task, 3 calls | `TypeOK`, `HistoryIsSupersededMessages`, `MetadataLastWriterWins`, `IdentityPreserved` | pass |
| `taskupdate_savefail` | 2 calls | `FailedProcessLeavesTaskUnchanged` | violation |
| `handler_concurrent` | 2 concurrent requests, each `OnSendMessage` or an unimplemented method, 2 tasks, every executor script of up to one event, 1 Destroy, either context may be canceled, capacity 1 | `QueuePerTaskUnique`, `CanceledRequestReturns` (spec section 5: a blocked call returns once its context is canceled, whether it waits in the executor's Write or in the Read) | pass |
| `handler_leftover` | 2 serial requests, 1 task, an execution that writes then fails | `ResultFromOwnExecution` | violation |
| `handler_overflow` | 1 request whose executor writes 2 events into a queue of capacity 1 | `AllRequestsReturn` | violation |
| `rev1_race` | as `queue` | `ClosedGuardedByToken` | violation |
| `validator` | 1 backing array of 2 elements, 2 maps of at most 2 entries, every value kind, a Task with status, history, an artifact and parts | `VerdictMatchesReference` (also for the Task as a whole, through `validateTask`) | pass |
| `validator_alias` | 1 array of 2 elements, maps of 1 entry | `CircularOnlyForCycles` | violation |
| `manager_destroy` | 3 writers, 1 reader, 2 Destroys, capacity 1 | `GetOrCreateNeverReturnsClosingQueue`, `ManagerCallsReturn`, `ManagerContractHolds` (refinement), `DestroyedQueueRefusesWrites` | pass |
| `credentials` | 2 callers, 2 sessions, 2 schemes, 2 credentials, 4 calls | `CredentialsContractHolds` (refinement) | pass |
| `taskstore` | 2 callers holding Tasks of one ID, 2 contents, 5 calls | `StoredTaskImmune`, `GetReturnsSnapshotAtRead` | pass |

Why these bounds are enough:
- **Queue.** Capacity 2 lets two events wait in the buffer, so the order in which they are read is checked; at capacity 1 a read that took the newest event instead of the oldest would go unnoticed. Two writes fill the channel, and the third writer blocks on it while holding the token, which is the case `closeChan` exists for. Depending on the interleaving, a writer may instead arrive after `Close`. Two closers exercise the `closed` re-check under `closeMu`.
- **Task updates.** Three calls allow a snapshot between two status updates. They also allow two updates of the same metadata key and a failed Save between successful ones. Two metadata keys make a key-by-key merge differ from replacing the Task's metadata with the event's: after one update sets `k1` and a later one sets `k2`, only the merge still holds `k1`. Each event sets at most one key, because letting events carry any metadata over two keys multiplies the state space by five (about 3 minutes) and adds no case the merge treats differently.
- **Validator.** Every heap of one 2-element array and two maps of up to 2 entries is enumerated. This gives self-loops, 2-cycles through a slice, shared sub-containers without a cycle, forbidden values, and sub-slices of one array.
- **Task store.** Two callers with one task ID give concurrent Saves of one ID, and a Save landing between a Get's read and its copy. Five calls allow save, change, get and change-what-get-returned in one run.
- **Manager with queue.** With capacity 1, one writer fills the queue and a second blocks holding the token. The single reader must get its queue from `GetOrCreate` to drain it, so it can be caught waiting for `m.mu` while `Destroy` waits for the token. A third writer and a second `Destroy` arrive after the queue was removed, and get a new queue or `ErrQueueNotFound`. A writer that got the queue before `Destroy` and writes after it returned shows that `Destroy` closes before it deletes.
- **Credentials.** Two callers and four calls give two first `Set`s of one session racing, and a `Get` between them. Two schemes show that one session's map holds both.
- **Handler.** Two concurrent requests on two tasks either share a queue or use two independent ones. Destroy gives a request holding a queue that was removed. Capacity 1 makes the sharing bite: a second request for the task blocks in Write on the queue the first filled. A request whose executor wrote nothing can also take the other's event, which leaves the other blocked in Read. Either request may be canceled in either wait. Three concurrent requests do not finish in 6 minutes, and add no case of sharing that two requests lack. The two violation runs keep requests one at a time, so that their traces show the failed execution and the overflow on their own.

The violation runs are the findings in `PROJECT.json`:
- `updateStatus` changes the Task before `Save`, so a failed `Save` leaves it changed.
- The older queue revision writes `q.closed` while a `Write` holding the token may read it: a data race, which the current code's field comment says the token exists to prevent.
- `validateMetaRecursive` keys containers by `%p`. Two distinct slices of one array that start at the same element share the key, so metadata with no cycle is rejected as circular.
- A failed execution leaves events behind for the next request.
- An executor that writes more than the queue holds, or nothing, blocks `OnSendMessage` for ever when its context is never canceled.

Every property of a passing run has a mutant in `PROJECT.json`: a plausible bug in the mapped definition that the property catches.

## 4. Fairness

- **Queue.** Every goroutine keeps running, so its local steps are weakly fair.
  - Taking the semaphore token (`WriteAcquire`, `CloseAcquire`) is strongly fair: goroutines blocked sending on a Go channel are woken in FIFO order.
  - Taking `closeMu` is strongly fair: `sync.Mutex` switches to starvation mode and hands the lock to a waiter that has waited over 1 ms.
  - Cancellation is never assumed. Liveness therefore does not rely on contexts.
- **Manager with queue.** The queue's fairness, plus strong fairness for taking `m.mu` (`GetOrCreate`, `DestroyLock`), for the same `sync.Mutex` reason.
- **Older queue, validator, task store, credentials.** These runs check safety only and assume no fairness.
- **Handler.** Each request's steps are fair in the same way. `Destroy` and `Cancel` are never assumed: they belong to the environment, and a caller need never cancel. `CanceledRequestReturns` therefore asks only that a canceled request returns. Without a cancellation, a request may wait forever, and the code does let it: its event can be taken by a concurrent request for the same task, or its executor may write nothing.

The runs set `CHECK_DEADLOCK FALSE` because the model stops once every call has returned, which is the intended end. Termination is stated as the liveness property instead.

## 5. Not modelled, and why

- The client side: `Client` (`client.go`), the grpc transport and factory, interceptors and call metadata (`middleware.go`). Spec section 1 puts client-side transports, factories and interceptors out of scope, and makes authentication a non-goal. In the code, every protocol method returns `ErrNotImplemented`. `Destroy` only forwards to the grpc connection's `Close`. `WithSessionID`, `CallContextFrom` and `CallMetaFrom` derive immutable `context.Context` values, which no two goroutines share for writing. None of this has a state change or an interleaving a model could check. `agent.go` holds protocol type declarations only.
- `InMemoryCredentialsStore` as a type: its `Get` takes `a2a.SecuritySchemeName`, where `CredentialsService.Get` takes `string`. The type therefore does not implement the interface its comment names. `NewInMemoryCredentialsStore` returns the store by value, mutex included: copies share the map but not the lock. Both are compile-time facts and are listed as notes, not runs.
- `agentcard.Resolver`: option application is sequential. `WithRequestHeaders` writes into `r.headers`, which is never made, so it panics on any non-empty header map (`resolver_test.go` 40 calls it). A unit test reaches this, and a model checker adds nothing.
- `Client.AddCallInterceptor` appends with no lock. No client method runs the interceptors yet, so there is no behaviour to check. It is listed as a hazard.
- JSON codecs and protocol types: pure data conversions with no concurrency. `NamedSecuritySchemes.UnmarshalJSON` (`part_005` 34-87) dispatches on the `type` tag that each `MarshalJSON` adds. It does not round-trip every value: a nil entry decodes to an "unknown security scheme type" error, and a nil map decodes to an empty one. The round-trip test in `part_006` compares `decodedJSON` with itself, so it checks nothing. A model would be a candidate for a later sitting, within the limit on runs.
- Push notifications and the push config store: interfaces with no implementation.
- Pointer aliasing between an executor and `mgr.Task`, listed as a hazard.

## 6. Plan

Done:
1. `EventQueueContract` and `EventQueue`, with refinement and liveness.
2. `TaskUpdateManager`, with the Save-failure divergence.
3. `RequestHandler`, composing the handler, the Manager and the queue contract.
4. `EventQueueRev1`, the older revision, with the race on `q.closed`.
5. `MetaValidator`, checked against a reference over enumerated heaps, with the `%p` collision.
6. `TaskStore`, `Mem.Save` and `Get` with concurrent callers and deep copies.

7. `ManagerQueue`: `Destroy` holding `m.mu` across the queue's two-step `Close`, with the three-party wait that `closeChan` breaks.
8. `CredentialsStore`, refining `CredentialsContract`.
9. `ManagerContract`, the `Manager` interface, which `ManagerQueue` refines.
10. The `queue` run at capacity 2, so that read order is checked.
11. `DestroyedQueueRefusesWrites` (spec section 8: `Destroy` closes the queue, so later writes fail) and the handler's unimplemented methods.
12. Context cancellation in `RequestHandler`, and `CanceledRequestReturns`. The handler run now serves its requests concurrently. It checks the spec's promise that a blocked call returns once its context is canceled, including a call whose event another request took.

Next:
1. **Compose `TaskUpdateManager` with `TaskStore`.** Save through the store's two steps while the executor keeps writing `mgr.Task`.
2. **JSON round trip of `NamedSecuritySchemes`.** Check that `UnmarshalJSON` inverts `MarshalJSON` over a small set of schemes, nil entries included.
