# SQRL: models and proofs

TLA+ models of the parts of `sqrl-lang/sqrl` in which something runs
concurrently, is retried, times out, expires or fails half way, and of its
compiler, with the TLC configurations that check them and the theorems TLAPS
proves about them. Paths below are relative to `src/packages/` unless they begin
with `src/`.

SQRL is a rules language. A ruleset is compiled to *slots*, one JavaScript
callback each; an *execution* evaluates the slots an event needs, lazily and
asynchronously; functions of a ruleset call services (counters, rate limits,
labels, ids, most of them in redis); the statements of a ruleset record what is
to be changed with a *manipulator*, whose callbacks run at the end. The command
line and an HTTP server drive executions.

## 1. Inventory

| Component | State it keeps | Operations | Who it talks to | What is hard |
|---|---|---|---|---|
| Execution engine (`sqrl/src/execute/`) | a promise per slot, cost, clock | `fetch`, `prepare_`, `load`, `wait`, `fetchByName`, `tryWait`, `fetchClock` | callbacks of the slots, embedding program | interleaving of callbacks at every `await`, memoisation, promises that never settle |
| Safety nets (`sqrl/src/function/Instance.ts`) | none | `asyncSafetyNet`, `syncSafetyNet`, null-argument wrapper | every function, the manipulator's error log | timers racing with answers, answers that come late, errors becoming null |
| Code generation (`sqrl/src/js/SqrlJs.ts`, `sqrl/src/ast/AstExpr.ts`) | none at run time | load, if, call, and/or chains | engine | what is loaded upfront and what lazily |
| Boolean and control functions (`sqrl/src/function/`) | local `hadNull` | `_andSequential`, `_orSequential`, `_not`, `_slotWait`, ... | engine | null in three-valued logic, short circuits |
| Manipulator and server (`sqrl-cli-functions/src/CliManipulator.ts`, `sqrl-cli/src/SqrlServer.ts`) | blocked, whitelisted, callbacks | `setBlocked`, `setWhitelisted`, `addCallback`, `mutate`; `run` | execution, client, databases | order of verdict, features and mutations; partial failure of callbacks |
| Command line stream (`sqrl-cli/src/cli/CliRun.ts`, `CliOutput.ts`) | a semaphore, the stream's flow, rows of a table | `stream`, `action`, `close` | executions, stdin, stdout | pause/resume, end of input racing with actions, batches |
| Semaphore (`sqrl/src/jslib/Semaphore.ts`) | count, max, queue of resolvers, zero promise | `increment`, `decrement`, `setMax`, `waitForZero` | command line, REPL | timers, moving maximum, handing over |
| Entity ids (`sqrl-redis-functions/src/services/RedisUniqueId.ts`) | in redis: ids, counters per millisecond | `fetch`, `create` | redis, `EntityFunctions.ts` | races for one entity, expiring counters, several clocks |
| Rate limiter (`sqrl-redis-functions/src/lua/rateLimitFetchLua.ts`, `RateLimitFunctions.ts`) | in redis: tokens and last refill per key | the script, `rateLimited` | redis | late events, lazy refills, expiry |
| Sessionization (`lua/sessionizeLua.ts`) | in redis: session start, tokens, last refill | the script, `sessionize` | redis | late events are not clamped |
| Counters and unique counters (`CountFunctions.ts`, `CountUniqueFunctions.ts`, `services/`) | in redis: buckets of a sliding window | bump, fetch | redis, manipulator | window edges, bumps after the execution in two commands, expiry |
| Labels (`LabelFunctions.ts`, `services/RedisLabelService.ts`) | in redis: keys | add, remove, has | redis, manipulator | two commands per label |
| Main, watch, recompile (`sqrl-cli/src/cli/CliMain.ts`, `WatchedFilesystem.ts`) | a compile lock, the executable | `loadSource`, `triggerRecompile` | file system, stream | changes during a compilation |
| REPL (`sqrl-cli/src/repl/SqrlRepl.ts`) and test runner (`sqrl/src/testing/SqrlTest.ts`) | the statements so far, a semaphore | `eval`; `runStatements` | compiler, engine | inputs that overlap, statements taken back after errors, batches of assertions |
| Compiler (`sqrl/src/compile/`, `sqrl/src/slot/`, `sqrl/src/ast/`) | slots, globals, truth tables, the WHERE of the file | `pushStatement`, `mergeGlobal`, `addStatement`, `newGlobal`, `calculateSlotNames`, ... | code generation | order of definitions, merging and resetting of features, WHERE contexts, shared slots, loads |
| Demonstration page (`src/websqrl/components/StreamPage.tsx`, `workers/compile.worker.ts`, `src/EventDomain.ts`) | the text and its status; source, executable and timers; the file of events, its index, a cursor | `compile`, `init`, `playhead`; `triggerCompile`, `queueNextEvent`, `setCursor`, `fetchData` | page and worker by messages, both compiler and engine, recorded events over HTTP | debounced compilations whose answers cross new edits, chains of timers and fetches that a move of the playhead meets half way |
| Parsers, text/data/jsonpath functions, objects, website, tools | none shared | - | - | - |

What makes each correct, and where it is stated:

* engine: a slot is calculated once (`FetchedOnce`), has the value its
  expression means whatever ran first (`AgreesWithMeaning`), keeps it
  (`FirstAnswerStands`), is calculated only when needed
  (`ImplementsDataflow`), and always settles (`EveryFetchSettles`);
* server: the verdict is that of the rules, once and for all
  (`VerdictMatchesRules`), mutations come after everything that may fail before
  them (`MutationsComeLast`) and before success (`SuccessMeansMutated`), and
  verdict and mutations are decided together, nothing being added later
  (`ImplementsOutcome`);
* stream: the limit holds (`ConcurrencyRespected`), nothing is lost or printed
  twice (`PrintedOnce`), and the program ends after the last action
  (`ProgramsFinish`);
* recompilation: the newest source that compiles runs (`NewestSourceRuns`);
* REPL and test runner: inputs are all or nothing (`AcceptedOrGone`), assertions
  are checked once and where they stand (`AssertedInPlace`);
* semaphore: no permit is lost, invented, idle while somebody waits, or given
  out of order;
* ids: one stable id per entity, the one every call is told that is told any
  (`ImplementsAllocator`), no id for two entities (`IdsAreUnique`);
* rate limiter: never more than the bucket held, nobody refused without cause,
  and expiry of the key changes nothing of that; sessions: those of a chain of
  events in time (`SessionIsTheChain`);
* demonstration page: what it says of the text is true (`StatusIsOfTheText`),
  events are played one by one and in order (`EventsInOrder`) and to their end
  (`ProgramsFinish`);
* counters: exact but for the bucket a window begins in (`CountersAreRight`: the
  sliding count, the unique count and the count of the window before), and not
  kept for ever (`KeysExpire`);
  labels last as long as promised (`LabelLasts`);
* compiler: values (`CompiledAsWritten`) and effects (`EffectsAsWritten`) are
  those the program's text means, generated code loads what it reads
  (`LoadsAreComplete`), and a feature is not defined twice (`DefinedOnce`, which
  fails).

The hazards this list comes from are in `PROJECT.json`, each at its line.

## 2. Modules

| Module | Models | Runs |
|---|---|---|
| `SlotGraph` | what an execution gets of the compiler: slots, kinds of expressions, dependencies, null-tolerant functions; three-valued logic | (constants of the next ones) |
| `LazyDataflow` | the abstract specification of an execution: demand and determination of slots, with no promises, timers or order | property of `execution` |
| `SqrlExecution` | engine, safety nets and generated code | `execution`, `statement_feature` |
| `ServerRun` (extends it) | `POST /run` with its manipulator | `server_run` |
| `RequestOutcome` | the abstract specification of a request: verdict and mutations, decided at one moment, carried out, told | property of `server_run` |
| `Semaphore` | the semaphore | `semaphore`, `semaphore_lost` |
| `CliStream` (instantiates it) | `sqrl run --stream` | `programs` |
| `Recompile` (instantiates it) | first compilation, watcher, compile lock, adoption of an executable | `programs` |
| `Repl` (instantiates it) | `sqrl repl` over the test runner's list of statements | `programs` |
| `StreamPage` | the demonstration page: editor, web worker, event domain | `programs` |
| `Redis` | the clock of redis, expiry, late events | (extended by the next ones) |
| `TokenBucket` | the arithmetic both scripts share | (extended by the next two) |
| `RateLimit`, `Sessionize` | one key of each script | `redis`; `rate_limit_period`, `session_late` |
| `Counters`, `Labels`, `UniqueId` | one counter, one label, ids of entities | `redis` |
| `IdAllocator` | the abstract specification of the ids: an allocator with no redis, clocks or counters | property of `redis` |
| `Ast` | syntax trees and the constructors that simplify | (extended by the next ones) |
| `WhereClause` | truth tables, intersection of WHERE clauses | `compile` |
| `Codegen` | expressions, constant folding, costs, loads | `compile` |
| `Compiler` | statements to slots to expressions: a state machine with one action per kind of statement | `compile`, `defined_twice`, `when_reason` |
| `Meaning` | the specification of the compiler: what a program means, read from its statements alone | `compile`, `defined_twice`, `when_reason` |
| `CompiledCode` | what compiled expressions do when run; the compiler's properties | `compile`, `defined_twice`, `when_reason` |
| `SqrlExecutionProofs`, `ServerRunProofs` | theorems about an execution and a request | TLAPS |
| `SemaphoreProofs`, `CliRunProofs` | theorems about the semaphore and the programs of the command line over it (`CliStream`, `Recompile`, `Repl`), and about all programs of `MCPrograms` together | TLAPS |
| `StreamPageProofs` | theorems about the demonstration page | TLAPS |
| `BucketProofs`, `CounterProofs`, `RedisProofs` | theorems about what is kept in redis (`RateLimit`, `Sessionize`; `Counters`, `Labels`; `UniqueId`, and all services of `MCRedis` at work together) | TLAPS |

Operators named `<Definition>_<Something>` are faulty variants of the definition
that follows them; no specification uses them. They show that each property can
fail: with the variant in the place of the definition TLC finds it violated.

### SqrlExecution

`phase[s]` says whether `slots[s]` is missing (`unset`), a promise whose
callback is loading a group of slots (`loading`) or waits for its function
(`calling`), or fulfilled (`set`, with `value[s]`). `stage` is the point the
generated code of the slot has reached: an `if` loads its condition, then a
branch; an and/or chain loads one operand at a time. `pos` counts the slots of
the group `prepare_` has gone through: it yields between them. One action is
what runs between two yields.

* A nested expression is one slot per node. Loading a single slot with
  `this.fetch(d)` and `.then` is a group of one; its code yields in fewer places
  than the model does.
* Values are `true` (truthy), `false` (falsy) and `null`, which is all the
  control flow tells apart. What a function would return is chosen in `Init`
  (`answer`), so that the meaning of an expression can be written down.
* `Answer`, `Throw` and `Timeout` are `asyncSafetyNet`: its promise takes
  whichever comes first. Nothing cancels a function that timed out, so it stays
  in `late` until `LateAnswer`.
* `FetchRoot` is the embedding program: any root, at any moment.
* Not modelled: `setFutureFeatures` (inputs as promises that may be rejected),
  background functions, list comprehensions, parallel and/or, cost accounting.

### ServerRun

`pc` is the `await` at which `run()` stands. `InvokeWithEffect` adds to the
invocation of a slot's function what statements do before their first await:
`setBlocked`, `setWhitelisted`, `addCallback`. All statements of the repository
act there. A statement whose arguments are null and that registers nothing is
not in the run: in the model a callback is registered whatever the arguments. Requests share nothing but the databases, so one request is modelled.
A callback ends well or badly (`FinishCallback`); that a database command never
answers is not modelled, and `EveryRequestEnds` assumes that it does.

`RequestOutcome` has neither slots nor promises: `Decide` sets the verdict and
what is due at once, `Write` carries out one mutation, `Succeed` needs all of
them. In the mapping a mutation is due when its callback is registered and the
verdict was read. A statement that ran after that would change what is due, so
`ImplementsOutcome` says that there is none. A request that failed may go on
writing: `Promise.all()` does not stop the other callbacks.

### Semaphore, CliStream, Recompile, Repl

A request is a call of `increment()`. `passed` is the state between the call of
its resolver and the continuation bluebird runs in a later turn, where the timer
can still fire. The three programs instantiate the real semaphore.

* `CliStream`: the semaphore without a maximum; the status of a request is
  derived from the action it counts. `wrap()`'s decrement and the resume around
  it run in one drain of the microtask queue, with no data event in between, so
  they are one action. `Show` is `CliTableOutput`, the output with state of its
  own.
* `Recompile`: sources are numbered by the edits that led to them. The watcher
  polls, so edits between two polls are one change. A handler asks for the lock
  (and may give up after its 30 seconds), compiles what is on the disk in the
  turn that got it, and the result is adopted in a later one. The first
  compilation holds the lock. Whether adopted inputs and features still fit is
  not checked again by the code, and not asked here.
* `Repl`: `at[j]` is the await at which the evaluation of input `j` stands,
  `next` and `round` are the loop of `runStatements()`. A compilation or an
  execution is one step that succeeds or fails. A mutation that fails ends an
  input but takes nothing back (place `stuck`): neither does the code.

### StreamPage

`toWorker` and `toPage` are the messages under way. A chain is what one call of
`queueNextEvent()` begins: it awaits a file (`delay`), sets a timer, awaits the
file again (`data`) and processes an event (`running`), then begins anew.
`fetches` are the calls of `fetchData()`; `dataPromise` is that of the last, and
whichever ends puts its file in place. Promises that are settled are continued
before the next message, timer or answer (`NextTurn`); a compilation awaits
nothing else, so it is one step. The files and the dates between them are
numbered by windows of ten minutes, each with an event at least. The list of
results the page shows is left out: only the compiler's answers change what is
asked of it here. `played` (since the playhead last came to another window) and
`calm` are history: `calm` ends when a move of the playhead finds a chain that
is not waiting for its timer, which is where `clearTimeout()` comes too late
(section 6).

### UniqueId

A redis command takes effect at one moment; between two commands of a fetch any
other fetch may run, time may pass and counters may expire. A command that
changes something takes effect in one action and is answered in a later one:
INCR (`Increment`) and EXPIRE (`Expire`) by the next of them, SET NX (`Save`) by
`Saved` or, where it lost the race, `Reread`. `Fail` may come in any stage, so
that a command can fail before or after it took effect: a fetch rejected in the
stage `answer` has saved an id that it tells nobody, and the next fetch for the
entity finds it. `Resend` is a client (ioredis does so after a reconnect) that
sends a SET NX again whose answer it did not get: it is answered null, and
rereads its own id. `Unreliable` bounds which fetches meet this; the proofs hold
for any set of them. An INCR that is sent again is not modelled: it only skips a
number, as the INCR of a fetch that fails does. What is read is answered where it
is read (`Find`, `Reread`), since a saved id does not change; after a GET that
found nothing others may act before `getTimeMs()` is called (`Miss`, `Create`).
The caller's clock differs from that of redis by `Skew`. Assumption
`ClocksAgree` is what uniqueness rests on: an INCR for a millisecond must not
arrive when the first counter of that millisecond has expired, so the difference
of any two clocks plus the delay of a command must be less than the TTL of one
second. Without it the ids of two entities can be equal; the code does not
check it.

`createRedisKey` (a hash) is taken to be injective. How an id is packed into
eight bytes is not modelled. (It shifts by the 40 bits of the timestamp and not
by the 23 of the remainder, so it relies on what `bigint-buffer` does with a
number that does not fit.)

### RateLimit and Sessionize

A script call is atomic. Its event time is at most the clock of redis and at
most `MaxLag` before it. The key expires by the clock of redis and refills are
counted by the times of events. History variables are what the properties are
written with. The in-memory mock is the same script without expiry. A call for
several keys runs one script per key; each bucket is independent of the others.
`sessionize` is the other script on the same bucket: it does not clamp late
events, returns the session's start, and fails for a call that takes nothing.
`SessionIsTheChain` therefore speaks of events on time only; `session_late`
shows what a late one does.

### Counters and Labels

A bucket is the set of the events in it. What redis holds for `count()` is the
sum of their amounts, for `countUnique()` the set of their elements (its
HyperLogLog errs by a percent or so; a set does not). Each window of each
execution bumps its bucket with two commands that other executions' commands, a
failure or the clock may separate; `count()` sends both at once, so that the
second may be executed although the first failed. `EXPIRE` is in whole seconds.
Two things are assumed of time: `LagAssumption`, that an event reaches redis
before the next bucket has passed (`MaxLag < Short \div NumBuckets`), and
`InTime`, that the two commands are answered within a moment. Without them a
key may be dropped while a window still needs it, which the code accepts.
`Labels` is SET then EXPIRE, and DEL, of any number of callbacks.

In these modules and in `RateLimit` and `Sessionize` no command is sent twice. If
the client repeats an INCRBY or a script whose answer was lost, the event counts
twice or takes twice; nothing in the code prevents that, and no property here
speaks of it.

### The compiler

`Compiler` reads one statement per action. `slots` is the table of
`SqrlParserState`; `todo` holds the statements that are left, each with the
`globalWhere` of the file it is in, so that INCLUDE and WHEN are the statements
they put in their place. `outcome` is `reading`, `compiled` or the reason of an
error; `Compile` is `SqrlCompiledOutput`. A slot is named by a feature, a truth
table, or the expression it holds.

* `Meaning` does not know slots, truth tables, merging or loads: it reads the
  list of statements with the files put in place. Where two cases of a feature
  hold together, or it has two DEFAULTs in one layer (since the features were
  reset), `Meaning` gives the feature no value: the code means to refuse such a
  program (`SqrlFeatureSlot.ts:204` and `:225`). `CompiledCode` runs the
  expressions of all slots for an input and compares, for the inputs under
  which no feature is defined twice (`ClearInputs`). That a program is refused
  only if it may define a feature twice is part of `CompiledAsWritten`; that it is
  refused whenever it does is `DefinedOnce`, which the code violates
  (`defined_twice`).
* `EffectsAsWritten` compares sets of calls: equal calls count once, as equal
  statements share a slot (section 6).
* Values are strings, "null", "false" and "true" among them. Costs are those of
  functions nobody measured: all equal. The argument `state` of functions is
  left out. The hash that names a slot is injective.
* A reset of replaceable features is the statement `_resetReplaceableFeatures()`
  of the language, as in the code: what follows may redefine what precedes.
* Left out: assertions (those of the test runner are in `Repl`), iterators and
  list comprehensions, custom functions' transforms, label wait features,
  serialized parser states.

## 3. Runs

All runs that pass explore their whole state space (the violations stop at the
first). Runs whose components share only what they are built on (`redis`,
`programs`) choose the component in the initial state, so that each is
explored by itself and its bounds are its own.

| Run | Bounds | Why they are enough |
|---|---|---|
| `execution` | nine slots: input, synchronous and asynchronous functions, and, or, not, if, wait; two clients | every kind of expression, a function used by three consumers, a null-tolerant function, chains of three operands, two concurrent roots; every function answers, throws or times out at every point |
| `statement_feature` | four slots, the documentation's example | - |
| `server_run` | a blocking rule whose `WHEN` also adds a label, a whitelisting rule (synchronous; it fires or fails), a counter; requested features: none, a valid one, an unknown one | each part of the verdict, each way out of `run()`; a mutation with a condition and one without, one of which may fail while the other runs |
| `semaphore` | four requests, each with a timer, maximum 1, 2 or none, changing at any time | a queue longer than a permit's worth at both limits, timers for all |
| `semaphore_lost` | three requests, maximum 1 | - |
| `programs` | stream: five lines, one invalid and one blocked, two at a time, tables of two rows; watch: four edits, the second does not compile, the first lacks a feature; REPL: four inputs that define, redefine and assert two features, one with `EXECUTE 2`, one a feature name; page: three texts (one does not compile, one lacks a feature), three windows of one or two events; four edits, or two edits and a move of the playhead, or two moves (if a move disturbs a chain: three edits, or one edit and the move) | the limit is reached, tables are full, partial and empty at the end; changes before, during and after each compilation, compilations that queue, fail and are given up; inputs that wait, give up, are rejected after an execution that succeeded, or stick; edits back to an earlier text while answers are under way, moves to each window at each step, a file's end, fetches that fail, two chains at once |
| `redis` | rate limit: three tokens, refill of two every three ticks, calls for 0, 1 and 2, strict or not, until 6; session: one or two tokens every three ticks, until 9; counter: two executions, interchangeable (`Symmetry`), each adding its own element to windows of 4 and 8 in two buckets, or TOTAL, until 8; label: two additions, one removal, expiry 2, until 6; ids: three fetches, two of them for one entity, two clocks one tick apart, TTL 3, one connection that may break at every command (`Unreliable`), until 3. Events are at most one tick late | partial refills, the cap, late events before and after a refill, keys that expire between events, two periods; chains of three events, sessions that end; buckets that are shared, split and dropped, windows that begin within and between buckets; every order of SET, EXPIRE and DEL; races for one entity and for one millisecond, a counter that restarts, the fetch that fails being the first, the second or the only one to save |
| `rate_limit_period`, `session_late` | one service, `MAX 3 EVERY 3` and `EVERY 3` | - |
| `compile` | up to three statements of a catalogue of twenty-two, after a prelude with two inputs or one with an earlier release; two ways of giving inputs; sixteen valuations of the inputs | each pair of ways to define a feature, before and after a third statement; every refusal is reached; three-valued conditions, nested IF, WHEN, files under a WHERE that depend on what follows |
| `defined_twice`, `when_reason` | up to two statements after each prelude | - |

Deadlock is checked where the system never ends (`Semaphore`). An execution, a
request, a program of the command line and a compilation do end, and the clocks
are bounded (`Horizon`, and `Watched` of `MCRedis`); those runs switch it off.

### Fairness

`SqrlExecution`: every continuation that is ready runs, and every timer of
`asyncSafetyNet` that is due fires; both are what the event loop does. A function
need not answer (`Answer` and `Throw` are not fair) and nobody need fetch.
`ServerRun` asks for less: while continuations are ready, or timers due, one of
them runs, whichever. As nothing goes round in circles (`NoLivelock`) that is
enough. The handler goes on, database commands end. `Semaphore`:
continuations run, timers fire, holders release. `CliStream`: the stream emits
what it has, executions end (their functions have timers), callbacks end. `Repl`
the same for inputs, and the user leaves in the end; that the program then ends
(`ProgramsFinish`) is claimed only if no wait for the turn timed out, because of
what `semaphore_lost` shows. `StreamPage`:
messages arrive, timers fire, fetches and executions end and the next window
comes; that all events are played is claimed only if no file fails, no text that
runs lacks a feature and `calm` lasts. The fairness of the programs is stated in
`MCPrograms`, for the one that runs. The redis modules and the compiler state no
liveness: their clients decide whether they call again.

### What the runs that fail show

* `statement_feature`: `src/website/source/functions/statement.md:18` says that
  the feature of a statement resolves only once all statements have been run. A
  statement that timed out has been answered with null and still runs.
* `semaphore_lost`: a request whose timer ran out leaves its resolver in the
  queue. The next `decrement()` passes its permit on to it and returns; nobody
  has the permit, and the count never comes down again. With the maximum of one
  that the REPL and the compile lock use, everyone after it times out too.
* `defined_twice`: two ways in which a program that defines a feature twice is
  compiled. `astIntersects.ts` tries only the constants that occur in the clauses:
  `WHERE B` and `WHERE S != "a"` (as `S != "a"` and `S != "b"`) are taken as
  disjoint, although both hold for other values of `S`; the comment at
  `SqrlFeatureSlot.ts:225` says "make sure we don't add conflicting where
  clauses". And `defaultCaseReplaceable` is set by the first LET of a feature
  and never reset, so that the assertion "Feature already has a default case set"
  (line 207) cannot fail and a second DEFAULT replaces the first; the comment at
  line 66 says that the flag is false after a DEFAULT. TLC stops at a program
  of either kind; with `Rivals` cut to pairs of DEFAULTs, or to pairs of cases, it
  finds each.
* `rate_limit_period`: "the maximum number of actions allowed during the time
  period" may be exceeded. Tokens left over are taken first, without refill, and
  then a full refill: `MAX 3`, events at 1, 3, 4, 4, 4, 4 with a period of three
  all pass.
* `session_late`: `src/website/source/counters/session.md:30` says that an event
  extends the session it finds. One that is a moment older than the last finds
  -1 refills due: its session is nil, the bucket has -1 tokens, and the next
  event starts a new session.
* `when_reason`: `src/website/source/tutorial.md:191` says that a `WHEN` block
  runs a side effect when one of its rules fires. If the reason of a fired rule
  names a feature that is null, `_buildWhenCause` throws, the cause is null and
  nothing of the block runs, for any of its rules.

## 4. Proofs

Every theorem holds for all values of the constants that satisfy the
assumptions of the modules, which TLC evaluates in each run. Most of them give
types and say that sets are finite. Those that say more:

* `GraphAssumption`: slots have no loop (the compiler refuses one), expressions
  have their number of operands.
* `StatementAssumption` (`ServerRun`): `SqrlExecutionComplete` waits for all
  statements, the call of a `WHEN` block is the branch of an `if` on its cause
  (`compileWhenBlock.ts:71`) and is referred to nowhere else. Without it a
  statement could be calculated by another way than its cause.
* `ArgumentsAssumption` (`TokenBucket`): `MAX`, `EVERY` and the refill are
  positive, a refill is at most `MAX`.
* `LagAssumption` (`Counters`): an event is late by less than a bucket of the
  shortest window. A later one asks for a window whose first buckets may have
  expired.
* `ClocksAgree` (`UniqueId`): the clocks of two processes differ by less than
  the lifetime of a counter.

The theorems about one component are about its own specification. That they hold
of what the runs `redis` and `programs` explore is proved too. `OneServiceOfAll`:
a behaviour of `MCRedis`, where one service is at work, is one of
`ServicesSpec`, where all are, on one clock and with the arguments of a call in
common. `ServicesAreIndependent`: such a behaviour is, for each service, one of
its own specification. `EachProgramByItself` is the same for the programs.
`ServicesAreRight` and `ProgramsAreRight` then collect what was proved of each.

`SqrlExecutionProofs`
1. `Consistency`: `SlotsConsistent` is inductive. `FetchedOnce` alone is not: it
   needs that a slot with a promise was called exactly once, which needs that
   `prepare_` has given a promise to every slot before its position, that a
   later stage is reached only past operands which allow it, and that a function
   runs only with all of its arguments. One lemma per action.
2. `TypeCorrect`, `Memoised` follow; `ValuesStand` is an action property under
   the same invariant.
3. `Implementation`: under the refinement mapping (`demanded` is the set of
   slots that have a promise) each action is a `Demand`, a `Determine` or a
   stutter of `LazyDataflow`.
4. `Confluence`: any assignment of values that satisfies the equations of the
   expressions, given the functions that failed, agrees with each slot that is
   set. It goes along the steps of the execution, not by induction on the graph.
5. `NoDeadlock`: of the slots that have a promise and are not settled, the one of
   least rank waits for none but its own function, so that a step can be taken;
   `NoLivelock`: each step brings a slot further and none back. Together they
   are the safety part of `EveryFetchSettles`.
6. `MeaningIsMeaning`: the recursive function `Meaning` satisfies those
   equations. The slots up to a rank have a function that satisfies them, or
   there is a least rank where they have none; two such functions agree, or
   there is a least rank where they differ. `MeaningIsComputed` then has no
   hypothesis.

`ServerRunProofs`: a request, over the invariant of its execution
1. `RequestConsistent`: the inductive invariant `RunInv` has four parts. Its
   types; of the execution, that a statement is asked for only when its cause
   is true (`WellCaused`) and that a wait is over only when all it waits for
   is (`Awaited`); of the
   effects, that a call has left its mark in the manipulator exactly if it was
   invoked; of the handler, what has been fetched and is there at each `await`.
2. `VerdictRight`, `SuccessIsHonest`: a call with effects runs only in the
   branch of a cause that is true; when `SqrlExecutionComplete` is there, each
   that had to run has run, and none will run later. `Confluence` says that the
   cause is what the rules mean.
3. `MutationsAreLast` is a part of the invariant.
4. `OutcomeRefined`: the request implements `RequestOutcome`. The invariant says
   why no call registers a mutation once the verdict was read (`InvokeIsInTime`)
   and that those that are done were due.
5. `RequestNeverStuck`: what the handler awaits was asked for (`AskedBefore`), so
   that `NobodyStuck` of the execution applies.

`SemaphoreProofs`
1. `SemaphoreConsistent`: `NoIdlePermit` and `HoldersAreCounted` are inductive
   only together: `decrement()` needs a holder to be counted, and the count
   needs that whoever is handed a permit had none.
2. `NoneIdle`, `HoldersCounted`; `CountGrowsWithinMax` and
   `FirstComeFirstServed` are action properties; `OneMaxExcludes`: mutual
   exclusion where the maximum is one. The lemmas about one operation are what
   the next module cites.
3. `NobodyWaitsInVain`: whoever waits, for a permit or for zero, waits for
   somebody who holds one, until a timer runs out. What happens then is
   `semaphore_lost`.

`CliRunProofs`: three programs that use the semaphore. What is proved of it
there is instantiated (`LockLemmas`, `TurnLemmas`), not proved again.
1. `ConcurrencyKept` needs that a stream that flows has room for one more, and
   what the wait for zero knows. `StreamUsesSemaphore` is the refinement: a
   step of the stream is an operation of the semaphore or leaves it alone.
   `EachPrintedOnce`: rows flushed and rows of the table are together a
   sequence without repetitions of the actions that are done and shown.
   `StreamNeverStuck`: until it has ended it emits an event, goes on by itself,
   or some action is left whose end resumes it.
2. `NewestRuns`: the invariant `RecompileInv` says of each handler what it
   compiled, a source no older than its change (`CompiledOK`), while it held
   the lock (`PlaceOK`), and that the executable is the newest of the sources
   that were tried (`OrderOK`). `RecompileUsesSemaphore` is the refinement of
   the lock; `CompilationsExclude` and `RecompileNeverStuck` follow with what
   is proved of the semaphore.
3. `AssertedRight`, `AcceptedOrGoneRight`: the invariant `ReplInv`. An evaluation
   under way has the turn, so that the list can only have come from the list it
   began with and its own statements up to the one it is at
   (`StandsAsWritten`); each assertion passed is either collected or was checked
   in exactly one execution (`OnceEach`); the list it would be taken back to
   has what accepted inputs defined and nothing of rejected ones
   (`AcceptedStay`, `NothingLeftBehind`). `Before`, a recursive
   function, has the equations it is written with by a least element
   (`StandingIs`). `ReplUsesSemaphore`, `EvaluationsExclude`, `ReplNeverStuck` are
   as above; the last needs that what an evaluation awaits is one of the places
   that go on.

`StreamPageProofs`
1. `StatusIsRight`: the newest text the worker knows or will learn of is the
   editor's (`NewestIsText`), and answers are true of their texts.
2. `EventsRight`: as long as `calm` lasts, all chains of callbacks but the last
   have ended (`OthersAreGone`); the place of the last says which file is loaded or fetched
   (`ChainIsRight`, `FetchesInOrder`) and how much has been played
   (`PlayedSoFar`). The events of a run of files are joined by `FlattenSeq`,
   whose equations are proved from its recursive definition.

`BucketProofs`
1. `RateConsistent`: `RateInv`. `LimitedForACause` needs that a bucket with less
   than a refill lost the rest of it since the last one (`EmptiedSinceRefill`); `StrictHolds`
   needs that a bucket stays empty from a refusal on until its time is over
   (`StaysEmpty`). The arithmetic of refills, integer division included, is in
   lemmas of its own.
2. `BucketNotOverdrawn`, `ExpiryGivesNothing`, `NobodyLimitedWithoutCause`,
   `StrictIsStrict` follow.
3. `SessionsAreChains` needs that the key is there as long as the last answer
   is open (`OpenAsLongAsAnswered`); `SessionConsistent` is that invariant.

`CounterProofs`
1. `CounterConsistent`: a key expires only when no window holds its bucket any
   more (`KeysLast`); an event that took effect is in the bucket of its time
   until then, and in no other (`InOwnBucket`). That late events still find the
   buckets of their window is where `LagAssumption` is used.
2. `CountsRight` compares sums over sets of events; `Sum` is a fold over a set,
   and the lemmas say that it does not depend on the order, is additive and
   monotonic. `CountersExpire`.
3. `LabelsLast`, from `LabelConsistent`: an expiry the label has was set after the
   label was, so that it is no earlier than promised (`LabelOutlives`).

`RedisProofs`
1. `Consistency`: `IdsConsistent` is inductive. Uniqueness needs that the
   counter of a millisecond has counted every id made in it for as long as an
   INCR for it may arrive (`Counted`), and that a counter is dropped only after
   that (`Lasts`, where `ClocksAgree` is used, in lemma `DroppedIsOver`). That
   every saved id was made by a fetch of that entity carries it over to entities.
2. `TypeCorrect`, `Agreement`, `Uniqueness`, `Stability`.
3. `Allocation`: the service implements `IdAllocator`. An id is allocated when
   `SET NX` puts it there, though nobody may ever be told by that call; a fetch
   whose SET NX is answered, that finds an id, or that lost the race (to another or to
   its own first SET NX) is told; none is told twice (`ToldWhenDone`).
4. `ServicesAreIndependent`, `OneServiceOfAll`, `ServicesTypes` (`RedisTypeOK`),
   `ServicesAreRight`: see above.

Only model-checked:

* liveness (`EveryFetchSettles`, `EveryRequestEnds`, `EveryRequestServed`,
  `ZeroIsAnnounced`, `ProgramsFinish`), which is out of the prover's reach;
* the compiler (`CompiledAsWritten`, `EffectsAsWritten`, `LoadsAreComplete`): its
  functions are recursive over syntax trees, and the provers cannot
  expand such operators.

What liveness rests on is proved nevertheless, for every value of the constants:
that nothing is ever stuck (`NoDeadlock`, `RequestNeverStuck`,
`NobodyWaitsInVain`, `StreamNeverStuck`, `RecompileNeverStuck`,
`ReplNeverStuck`). TLC checks that fair steps then lead to the end.

## 5. Plan

What the runs check and the provers can reach is proved. What could follow:

1. `StreamPage` without `calm`: what a page with two chains still promises;
2. parts of the compiler as recursive functions over a bounded depth, so that
   the lemmas about `WhereClause` come within reach.

## 6. Observations

Met while modelling; none of them is a run, since no document says otherwise or
because the model shows what the code does by its definition.

* `--only-blocked` is documented as "Only show blocked actions"
  (`CliArgs.ts:29`); table, JSON and CSV output leave out exactly those
  (`CliOutput.ts:118`, `:152`, `:201`), as `Shown` of `CliStream` says.
* Two WHEREs with the same truth table share the slot of the first, although
  their expressions may differ where something is null.
* `andExpr()` folds a conjunction with a constant null to null, even if another
  constant is false.
* `SqrlAst.bool()` always returns a call, so that
  the check for a constant clause in `SqrlFeatureSlot.ts:237` never applies.
* An `and` with an iterator in a list comprehension finds no operand to load
  (`AstExpr.ts:179`).
* `SqrlImporter.ts:86` reads `features/<file>` for a dynamic include, whichever
  directory it lists.
* `SqrlFixedSlot`'s deserializer sets the serialized data instead of the slot
  (`SqrlSlot.ts:173`), and a parser state made from serialized slots fails in
  `setDefaultValue`; nothing uses it.
* `_bumpCountUnique` reads `keys.length` of keys that are null where WHERE does
  not hold; the safety net turns the error into null.
* `rateLimitedValues` reports only what
  was 0, `rateLimited` what was less than the tokens asked for; a call that
  takes nothing reads tokens without the refills that are due.
* REPL: a mutation that fails ends the input but keeps its statements; a LET
  without WHERE replaces the first LET of its feature only, so one with a WHERE
  further down stays.
* The demonstration page: a playhead that is moved while an event is processed
  or a file awaited begins a second chain, since `clearTimeout()`
  (`compile.worker.ts:246`) stops only a timer that has not fired. With two
  chains the same event is processed twice and the next left out. A fetch that
  ends after a later move puts its file under the new cursor
  (`EventDomain.ts:70`). A file that fails, or a text that lacks a feature the
  page fetches, ends the chain for good: after a correct text the page says
  "Compiled! Running..." (`StreamPage.tsx:161`) and no event is processed until
  the playhead is moved. In the model: drop `calm` or `Undisturbed`.
  `compilePromise` is never set, the `configure` and `runtimeError` messages of
  `types.ts` are never sent, and a file without events is run as one undefined
  event.
* After a recompilation inputs and features are not checked again.
* Identical statements under the same WHERE share one slot and run once.

## 7. Not modelled

Parsers (generated from grammars: with 11,900 lines a third of the code that
counts, so that the map cannot cover a large share of it); the text, jsonpath,
data and load functions (pure); list comprehensions, the parallel and/or,
`setFutureFeatures`, background functions; `trending()`, counts by alias, and
sets of unique values across aliases; custom functions' transforms and argument
checks; rendering, help, objects and their serialization; the website, tools, examples and
the styling of the demonstration page. They have no state that outlives a call, or none that
anything else writes.
