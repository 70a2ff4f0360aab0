# A TLA+ model of zcs

zcs is a C++ server library on Linux: coroutines (`fiber`), threads and locks, a configuration
system with change listeners, and a logging system that the configuration reconfigures while the
program runs. This directory models the parts that keep state, checks them with TLC on small
instances, and proves with TLAPS, for every instance, all safety properties that TLC checks.

Paths below are relative to the repository; the code is under `src/`, its programs under `tests/`.

## 1. The system

| component | state | operations | who calls it |
|---|---|---|---|
| `Fiber` (`fiber.h/.cpp`) | `state_`, `ctx_`, `cb_`, `id_` per object; `t_fiber`, `t_thread_fiber` per thread; `s_fiber_id`, `s_fiber_count` | `GetThis`, constructors, destructor, `Reset`, `SwapIn`, `SwapOut`, `YieldToHold/Ready`, `MainFunc` | client code on any thread; the callback itself from inside |
| `Thread`, `Semaphore` (`thread.h/.cpp`, `mutex.cc`) | `thread_`, `id_`, `name_`, `cb_`, the semaphore; `t_thread`, `t_thread_name` per thread | constructor, `Join`, destructor, `Run`, `SetCurName` | clients; `Run` on the new thread |
| `ConfigVar<T>` (`config.h`) | `val_`, `cbs_`, a read-write lock; one static `s_fun_id` per type | `SetValue`, `FromString`, `AddListener`, `DelListener`, `ClearListener` | modules; `LoadFromYaml` |
| `Config` (`config.h/.cpp`) | the map of names to variables, a read-write lock | `LookUp`, `LookUpBase`, `LoadFromYaml`, `Visit` | static initialisers, programs, listeners |
| `Logger`, `LogAppender`, `LoggerManager` (`log.h/.cpp`) | loggers, their appenders and formatters, a spin lock for each | `Log`, `AddAppender`, `DelAppender`, `ClearAppender`, `SetFormatter`, `GetLogger`, `ToYamlString` | everybody, through `LogEventWrap` |
| the listener of `"logs"` (`log.cpp`, `LogIniter`) | the value of the variable `"logs"` | rebuilds the loggers | `SetValue` of `"logs"` |
| `LogFormatter` (`log.h/.cpp`) | `pattern_`, `items_`, `error_` | `Init`, `Format` | loggers, appenders, the listener |
| `LexicalCast` (`config.h`) | none | texts to values of STL containers and back | `FromString`, `ToString` |
| `FileLogAppender` (`log.h/.cpp`) | stream, `last_time_` | `Log`, `Reopen` | `Logger::Log` |
| locks (`mutex.h`) | a mutex, spin lock or flag | scoped lock and unlock | all of the above |
| `Scheduler`, `ThreadPool`, `Socket`, `Timer` | declared; bodies empty, stubs or `//TODO` | - | - |

How they meet: `Config::LoadFromYaml` calls `FromString` of a variable, which calls the variable's
listeners; the listener of `"logs"` calls the loggers; every component logs. `Fiber` objects are
meant to move between the threads of a `Scheduler`, whose `Task` takes a `Fiber::ptr` by copy or by
swapping it away from its owner. Threads share everything through `shared_ptr` and the locks above.

What is hard to test here:

* a context switch writes `state_` before it saves the context, and a `Fiber` has no lock at all;
* a fiber keeps itself alive with pointers on its own stack, and frees its stack when they are gone;
* `SetValue` notifies and stores under two different locks, and releases the first in between;
* `s_fun_id` is shared by all variables of a type and protected by the lock of one of them;
* a reload takes a logger apart and puts it together again in several critical sections;
* appenders' formatters are inherited in one critical section and set in another;
* locks nest: manager, logger, root logger, appender; guards are locked and unlocked by hand as well;
* a file appender reopens its file by a time stamp that no lock protects, and opening may fail;
* the constructor of `Thread` and `Run` share an object that may die as soon as the constructor ends.

`PROJECT.json` lists these hazards line by line, with the properties that are aimed at them.

## 2. Modules

| module | models | composed with |
|---|---|---|
| `Fiber` | coroutines on several threads, and what their client may do | `Coroutine` (abstract), `MCFiber` |
| `Thread` | the life of a `Thread` object and of its thread, the semaphore | - |
| `ConfigVar` | several variables of one type with listeners | `NotifiedValue` (abstract), `MCConfigVar` |
| `Cast` | the `LexicalCast` templates | `Config` |
| `Config` | the registry and the loading of documents | `Cast`, `MCConfig` |
| `Logger` | loggers, appenders, manager, conversion and application of `"logs"` | `MCLogger` |
| `LogFormatter` | the parser of patterns | - |
| `FileLogAppender` | writing to a file that is reopened, and the file system around it | - |
| `Locks` | the locks of `mutex.h` and their scoped guards | `RWLock` (abstract), `MCLocks` |

The proofs are in `FiberProofs`, `ThreadProofs`, `ConfigVarProofs`, `ConfigProofs` (with those about
`Cast`), `LoggerProofs`, `LogFormatterProofs`, `FileLogAppenderProofs` and `LocksProofs`.

**Fiber.** An object is its name; the main fiber of thread `t` is named `t`. `cpu[t]` is the stack
that the thread executes on, `main_ctx[t]` the stack saved in the main fiber's `ctx_`, and `ctx_[f]`
says where a sub-fiber's saved context resumes (its entry, a yield, the end of `MainFunc`). `self[f]`
counts the `Fiber::ptr`s named `cur` on the fiber's own stack (one in `MainFunc`, one in a
suspended `YieldTo*`), `handles[f]` the threads that hold one. `SwapIn` is the steps `SwapIn` and
`Enter`, a yield is `Yield` and `SwapOut`, the end of a callback is `Finish` and `SwapOut`, so that
other threads act between the write of `state_` and `swapcontext`. A failed assertion or the use of
a dead context ends the process: `fault` says why. What client code promises is the constant
`Duties`; without a promise the model lets the client do everything the interface allows.

**Coroutine** is what `src/README.md` draws: each coroutine is fresh, running on one thread,
suspended, ended or destroyed, and a thread runs one or none. `Fiber` implements it for a client
that keeps all promises. The refinement mapping (`Standing`, `Runs`) reads nothing but the life of
the object, its saved context and who executes it; `state_`, the reference counts and both halves
of a switch are hidden. So `Enter` and `SwapOut` are the switches, `Finish` and `Yield` are stutters.

**Thread.** `Construct`, `Constructed`/`Interrupted` are the constructor up to and after
`semaphore_.Wait()`; `RunInit`, `RunNotify`, `RunExit` are `Run`. `Join` finds `thread_` set,
`PthreadJoin` enters `pthread_join` or has it fail, `Joined` is its return and `EndJoin` resets
`thread_`. A second `pthread_join` on one thread fails while the first waits: that `Join` throws, and its client
goes on. After the first has returned the id means nothing, and the call fails or ends the process.
`released` counts how often the system's thread was joined or detached. `Hazards` switches on an
interrupted `sem_wait`, two simultaneous `Join`s and a callback that calls `SetCurName` after its
object died.

**ConfigVar.** `SetValue`, `Notify`, `EndNotify`, `Store` are `SetValue`; `AddListener`, `StoreId`,
`Insert`, `Return` are `AddListener`, in which `s_fun_id` is read and written without a common lock:
a data race, so a later use of the variable in the same call may see either what is in memory or
what the call stored (`FunId`). `told[l]` is the value that the module behind listener `l` knows.
`duties`, which never changes, is what the modules of a behaviour promise; each property names the
promises it needs. A listener that calls back into its own variable (`CallBack`) waits for the write
lock behind its own read lock: its call has no further step.

**NotifiedValue** is what modules may rely on, without locks, ids and calls: a change of a value is
announced, every module of the variable is told (`Tell`), and then it takes effect (`Commit`); no
module joins during a change, none leaves before all have been told. `ConfigVar` implements it for modules that keep
every promise but "no reentry". The mapping (`Seen`) takes `val_` for the value, the argument of the
`SetValue` under way for the announced one (`Coming`), `home` and `told` for the modules. So
`SetValue`, `Notify`, `Store` and `Insert` are `Announce`, `Tell`, `Commit` and `Join`, the removals
are `Leave` (an id that nobody has removes no module), and everything about ids and locks is a stutter.

**Cast.** The templates pass texts to `YAML::Load`, so a text is represented by what that makes of it.
The text that yaml-cpp prints of a node is the node (this law is taken from yaml-cpp, which is not
part of the repository: what it prints reads as the node). Any other text is `Raw(w, node)`: other
quotes or blanks, a comment, `null` for `~`, nothing at all (`Empty`, read as a null); or `Bad(w)`, which
is not YAML and makes `Load` throw. Each template is an operator; the nesting of templates is fixed to scalars in vectors and sets,
and vectors in maps. What the templates do to corner cases is kept: `node[i]` of a map is the value under
the number `i` or an undefined node with an empty text, `size()` of a scalar is 0, `insert` keeps the
first of two equal keys, and an element's text is loaded again before it is pushed (`Pushed`), which may change
it or throw. `ToString` catches that and returns an empty text (`TextOf`).

**Config.** A name is the sequence of its parts. A document is the list of its nodes with their
texts, and `Cast` makes a value of a text or refuses it. `LookUp` is one step under the write lock;
`LoadFromYaml` lists the positions of the nodes it will visit (`AllNodes`), goes through them without
a lock and may run listeners (`CallListener`), which call `LookUp` any number of times
(`ListenerCalls` waits for the lock) and then end or throw (`ListenerThrows`). `FromString` catches a `std::exception`: nothing is stored and the load goes
on with the next node (`refused` remembers this one); any other exception leaves
`LoadFromYaml`. A variable is its type and its value.
`ListAllMember` refuses keys with upper-case letters before `LoadFromYaml` lowers them, so
`tolower` never changes a name.

**Logger.** A thread makes one call at a time. `Log` holds its logger's lock while appenders write;
`SetFormatter` and `AddAppender` test an appender's formatter and write it in two steps, because the
appender's lock is not held. The listener of `"logs"` makes its calls one by one, interleaved with
other threads: it logs to root, and for each logger that is new, changed (`Changed`) or gone (`Gone`)
it calls `GetLogger`, perhaps `SetFormatter`, `ClearAppender`, and `AddAppender` for each appender that
is `Wanted`; `reload` remembers which of these comes next. `Converted` and `Complete` are the
conversion of a document to `LogDefine`. `profile`, which never changes, says which calls the clients
of a behaviour make, which documents they load and what they promise.

**LogFormatter.** One step per turn of the loop of `Init`, a pattern is a sequence of characters.
`WellFormed` is the grammar of the comments, written independently of the parser: a pattern is well
formed if it can be cut into characters and directives (`Cuts`), in whatever way. `Spellings` are the
ways to write an item, and `Covers` says that items stand for consecutive parts of the pattern.

**FileLogAppender.** `Event`, `Test`, `Lock`, `Close`, `Open`, `Stamp`, `Lock`, `Write` are the
accesses of `Log` in order: the test and the write of `last_time_` are outside the lock. `Tick` and
`Change` are the world: time, and a file that is renamed or whose directory goes and comes. An
`ofstream` is the file it has open and whether it converts to false.

**Locks.** The lock of a guard is a flag (`Mutex`, `SpinLock`, `CASLock`) or counts readers and knows
its writer (`RWMutex`). A guard's calls are two steps, so that other threads see the time between
the release of the lock and `locked_ = false`, and the destructor is a call like the others. `RWLock`
is the abstract readers-writer lock that the other modules use (`CanRead`, `CanWrite`, `Free`).
`WritesNot` is assumed of the code that uses the guards: a thread does not lock an `RWMutex` that it
writes itself. (glibc then returns `EDEADLK`, which the guards ignore; that answer is not modelled.)
Under `src/` a write lock covers only `val_ = v`, the three listener calls and `LookUp`, which take no
other guard of the same lock.

## 3. Runs

Bounds have names: `MaxSets`, `MaxCalls` (calls of clients), `MaxLen` (length of a pattern),
`MaxTime` and `MaxChanges` (clock and file system). All other sets are small: 2 threads and 2 fibers,
2 clients and 2 thread objects, 2-3 threads on 2 variables with 2-3 listeners, 2 threads on 2 loggers
with 6 appenders, 2 threads with 3 guards on a flag and a read-write lock. Two threads are every race
in this code, which is always between one call and another; a third thread is there for `ConfigVar`,
where a setter, an adder and a remover meet, and a second variable for the shared id counter. Two
fibers give nesting; an object is constructed once, but `Reset` reuses it without a bound. Four or
five calls suffice to create, attach, reformat, detach and attach again. Five characters hold the
longest directives with one character around them. Three calls are two lookups and a load, and the
listeners of that load look up and throw as well. Five seconds hold a reopening before a change and
one after it, two changes a directory that goes and comes back. Three guards are two readers and a
writer, with two of them in one thread. Runs check no deadlock: clients may stop calling at any
time, and the bounds stop them.

| run | what it checks | result |
|---|---|---|
| `fiber_disciplined` | a client that keeps all promises: current fiber, state against context, the way home, references, no abort but by stranded fibers; control returns, unless a stranded fiber ended the process; `Fiber` implements `Coroutine` | holds |
| `fiber_careless` | a client that only promises "serial" (no call on a fiber while another thread is switching it) but copies pointers, nests, yields anywhere and checks nothing: the assertion of `SwapIn` keeps stacks exclusive, and `TotalFibers()` is exact | holds |
| `fiber_std_exception` | the process does not die | violated |
| `thread_life` | constructor, `Join` and destructor against `Run`, with signals, simultaneous joins of which one throws, and late renames: Run's last access, and every thread joined or detached exactly once | holds |
| `config_promises` | modules that promise everything, only one setter, only one adder, or only not to call back: what each promise buys; `ConfigVar` implements `NotifiedValue` | holds |
| `config_id_race` | modules know the value, when two variables of a type get listeners at once | violated |
| `config_registry` | one variable per name, documents are applied although nodes do not convert and listeners throw, values settle after being printed and read once, `Visit` is stable, calls return | holds |
| `log_loggers` | reloads with and without root against logging and dumping; reloads that all define root; careful clients that do everything else; reloads and clients at once: null pointers only in the one window, complete `Log`s, formatters kept and inherited, loggers as `"logs"` defines them, calls end | holds |
| `log_appender_pattern` | an appender has the file and pattern of the document | violated |
| `log_formatter` | all patterns up to five characters: errors exactly outside the grammar, only the tail is lost, the loop ends | holds |
| `log_file` | events reach the file that has the name, with failing opens and writes | holds |
| `locks` | explicit `Lock` and `Unlock` and destructors in any order: exclusion, no lost lock, `Locks` implements `RWLock` | holds |

### What the violations show

* `fiber_std_exception` - `MainFunc` handles `std::exception` without setting `state_`. The ended
  fiber stays in `EXEC` and the assertion of `~Fiber` ends the process when its last user lets go.
  `catch (...)` does set `EXECPT`.
* `config_id_race` - (`ModulesNotified`, the conclusion of `Informed`) two `AddListener` calls on two variables of one type disturb each other's
  ids; one listener ends up replaced by a later one.
* `log_appender_pattern` - the conversion stores an appender's pattern in `file`.

`OnlyTheTailIsLost` holds, and names a loss: `Init` never makes an item of the text that is pending at the
end of a pattern, nor of a final `%d`. So `%m done` prints no "done", and `%%` or `%d` alone, which
the comments list among the directives (`log.h:130`, `log.cpp:387`), prints nothing.

### What the promises are needed for

Each promise, and each exception that a property makes, is needed: with the change in the middle
column TLC finds a violation of the property on the left.

| property | change | what happens in the code |
|---|---|---|
| `OneThreadPerStack` | `Duties` without "serial" | two threads pass the assertion of `SwapIn` before either writes `EXEC`, or one resumes a fiber whose `YieldTo*` has not saved its context yet |
| `FibersAreCoroutines` | `Duties` without "through main" | a fiber that resumes another leaves the main fiber's `ctx_` pointing to a sub-fiber |
| `OwnReferences` | `Captures` with `"self"` | `cur->cb_ == nullptr;` compares where it should assign: the callback's own pointer keeps the ended fiber for ever |
| `Informed`, `OldIsReplaced`, `ChangesAreNotified` | without "one setter" | two setters notify in one order and store in the other |
| `Informed`, `ChangesAreNotified` | without "quiet" | a listener registered between notification and store misses the change |
| `Informed`, `ChangesAreNotified` | without "no throw" | listeners before the one that throws know a value that is not stored |
| `RegistrationsKept`, `ChangesAreNotified`, second half of `IterationIsStable` | without "one adder" | two calls draw or insert under one id: `DelListener` removes the wrong listener or none |
| `CallsReturn` of `ConfigVar` | without "no reentry" | a listener that sets its own variable waits for itself |
| `NoFault`, second part | without "root kept" | the root logger has no `root_`: while a reload has cleared its appenders, or after one has removed it, `Log` dereferences null |
| `NoFault`, third part | without `RootWindow` | documents that all define root, as those of `tests/`: a `Log` of root between the listener's `ClearAppender` and its first `AddAppender` |
| `NoFault`, third part | without `RootDefined` | a document without root after one with it: the listener clears root for good |
| `NoFault` | without "configured first" | `LogAppender::SetFormatter(nullptr)` on an attached appender: the next `Log` calls a null `formatter_` |
| `OwnFormatterKept` | without "configured first" | `Logger::SetFormatter` tests `has_formatter_` and writes `formatter_` outside the appender's lock |
| `InheritsFormatter` | without "attached once" | `AddAppender` tests `formatter_` and not `has_formatter_`: an appender keeps what it inherited before |
| `FollowsPath` | also of a stuck stream | after a failed write `Reopen` does not close the stream, and `open` of an open stream fails for ever |
| `TextRoundTrip` | also of a set with an empty string | `YAML::Load("")` is a null, whose text is `~` |
| `TextRoundTrip` | first round also of default values | a set with `null` comes back with `~`; one with a text that is not YAML makes `ToString` return an empty text, which is the empty set |

`FollowsPath` also shows why the unlocked `last_time_` does no harm: a slow thread may set it back,
and then the file is reopened too early, never too late.

### Fairness

Liveness is checked under weak fairness of the steps that a thread has begun (`FiberStep`, `Step`,
`ClientStep`, `RunStep`), never of calls that a client may or may not make. The operating
system schedules every runnable thread; callbacks are assumed to yield or return, `sem_wait` to
return when the semaphore is posted, a lock to be obtained when it stays free. The number of calls
is bounded, so `CallsReturn` and `CallsEnd` show that calls do not block each other for ever, not that a
spin lock under endless contention is fair. `MainRegainsControl` assumes that a resumed fiber yields.

## 4. Proofs

All theorems hold for every value of the constants that the named assumptions of the modules allow:
any number of threads, fibers, variables, listeners, guards, and no bound on calls or time.

**FiberProofs** is about every client that promises "one owner" (a `Fiber::ptr` is moved between
threads, never copied): `OneThreadPerStackTheorem`, `CountIsExactTheorem` (`TotalFibers()` is the
number of living objects) and `TypeCorrect`, whose difficult part is that the counters `self` and
`s_fiber_count` do not become negative. The run `fiber_careless` shows the first of copied pointers under
another promise, "serial", where the assertion of `SwapIn` is what helps. `OneThreadPerStack` is not
inductive: a thread may be between `SwapIn` and `Enter`, or a stack may be saved in some thread's main
context after a nested switch. The inductive invariant `OwnerInv` (`OwnerInvariant`) adds

* `Typed` - the types, with integers for the two counters;
* `SwapInHolds` - a thread inside `SwapIn` holds the fiber it is switching to;
* `ThreadFacts` - a thread runs on its own stack or on a sub-fiber, and its main fiber is its own;
* `OneHolder` - a fiber has at most one holder, and a held one is alive;
* `StacksAreOwned` - a stack that is executed, or saved in a main context, belongs to one thread,
  only that thread can hold the fiber, and it is alive;
* `ExecFacts` - such a fiber is in `EXEC` unless it is leaving, and one that is about to be
  entered is not in `EXEC`.

For the count, `NextCounts` shows that a step adds a living object and one to the counter, removes
both, or neither; cardinality then follows from the library's theorems on finite sets. For
`TypeOK`, `Refs` bounds `self` from below: at least one reference on a running fiber, two on one
that is suspended.

The second part of **FiberProofs** is about a client that keeps all promises (`KeepsDuties`). `DisciplineInv`,
inductive together with `OwnerInv`, fixes where each thread is (`HomeFacts`), the exact `state_` and
number of `cur`s of a fiber that is executed (`OnStackFacts`) and of one that is not
(`OffStackFacts`), who can be held by nobody (`HeldFacts`) and that only a stranded fiber ends the
process (`FaultFacts`). From it follow the invariants of `fiber_disciplined` and the refinement
`FibersAreCoroutinesTheorem`: `CoStep` maps every step to a step of `Coroutine` or a stutter, the
switches by `CoMoves` and `OthersStand`, all others by `CoStutter`.

**ThreadProofs**: `ThreadInv` says how far the constructor and `Run` may be of each other
(`ClientFacts`, `RunFacts`: the semaphore is posted once and taken once). `JoinFacts`: at most one
client is between the start of `pthread_join` and the reset of `thread_`, and without it `thread_`
says whether the thread was released, so that a `Join` that fails leaves nothing wrong behind. The
three safety properties of `thread_life` follow, and `TypeOK`, for every set of hazards.

**ConfigVarProofs**: `Base` is the types, the read-write lock
(`LockFacts`: whoever goes through `cbs_` holds the read lock, whoever adds holds the write lock, never
both) and `BegunFacts`: the ids that were drawn do not outnumber the listeners whose `AddListener`
was begun, which bounds the racing counter. On top of it come one invariant per promise:
`SetterFacts` ("one setter": the old value is still the stored one), `AdderFacts` ("one adder": ids
are not shared, and an id finds its listener) and `ToldFacts` (all promises: a listener knows the new
value once the iteration has passed it, and the stored one otherwise). From it follow `InformedTheorem` and
the refinement, `ChangesAreNotifiedTheorem` and `ConfigVarImplementsNotifiedValue`. The latter need two
facts more. `AllKnowAtStore`: when the iteration is over, every module knows the new value, so that
`Store` may commit. `JoinedFacts`: a listener in `cbs_` has its id, or the call that will return it is
under way, so that no module is there that `ToldFacts` does not speak of. `SetValueAnnounces`,
`NotifyIsTell`, `StoreCommits`, `InsertJoins` and `RemovalIsLeave` then map the actions one by one.

**ConfigProofs**: `RegistryInv` says that whatever `LookUp` has given out for a name is still registered
under it (`GivenFacts`), and that a visitor holds the read lock and sees the registry it began with
(`VisitFacts`). `OneVariableTheorem` and `VisitIsStableTheorem` follow.

`LoadInv` is about `LoadFromYaml`. `VariableFacts`: variables are made one after the other, each name has
its own, and only valid names are registered (so `tolower` maps no key to the name of another).
`LoadFacts`: what is left to do is the end of the list of nodes, and the variable that was looked
up is the one of the first of them. `Applied`: the last node so far that has some name, converts and
was not refused by a listener has set that name's variable; `ThrowStep` is the step of a listener that
throws. Other threads and listeners may register variables meanwhile, never replace one;
another load ends the promise (`alone`), which is why `LoadAppliedTheorem` is about loads that ran alone.

About `Cast` alone: `RoundTripTheorem` is for every value, where a set has only texts that yaml-cpp
prints, and `SettlesTheorem` for every set whatsoever: after one round through its text a value changes
no more. `TextRoundTripTheorem` is about the values that variables get (`ValuesTyped`: `FromStr` fails
or gives a value of the type, whose strings are printed nodes or empty). Each template
goes through the elements in order; a set or map is written in some order without repetitions
(`ListedOnce`), so that "insert keeps the first" keeps all.

**LoggerProofs**: `LoggerInv` has a part for every client and parts that need promises.
* `ThreadFacts` - a thread inside `Log`, `AddAppender` or `SetFormatter` has the lock of its logger, and
  what it still has to do concerns that logger's appenders, which therefore do not change.
* `FormatterFacts` ("configured first") - an attached appender has a formatter, its own if it was
  given one; a thread between the test and the write of `SetFormatter` or `AddAppender` is about to
  write to an appender without its own.
* `InheritFacts` ("attached once" as well) - an attached appender is in one list only and has its
  logger's formatter or is still to get it from the thread that has the lock.
* `RootFacts` ("root kept") - the root logger has an appender, and no reload is about to touch it.
* `FaultFacts` - the first two parts of `NoFault`.

`OthersKeep` and `QuietStep` say once that what a thread does under one lock disturbs nobody else; every
action then needs a step about its own thread. `LogIsWrittenTheorem`, `OwnFormatterKeptTheorem` and
`InheritsFormatterTheorem` follow from `LoggerInv`. `NoFaultTheorem` needs `RootInv` for its third
part: where documents define root, root is without appenders only in the window or while the listener
is attaching one (`RootAttach`). `RootDone` is the step that closes the window; it rests on
`WantedFacts`, by which the conversion gives root an appender that the listener will add.
`ConfigAppliedTheorem` needs `LogsInv`: only the listener changes loggers (`OnlyListener`), and of the
document it has applied exactly the loggers it is done with and, of the one at hand, the calls it
has made (`ListenerFacts`). `DefineFacts` goes through the conversion of documents of every length.
`LoggerTypes` is `TypeOK`.

**LogFormatterProofs**: `GrammarInv` compares the deterministic loop with all ways to cut the pattern:
every cut passes the loop's position (`OneMore`, `NoMore`: exactly one directive begins there, or
none and an error is reported), and without an error the visited positions are such a cut.
`ErrorIffMalformedTheorem` follows when the loop is through. For `OnlyTheTailIsLostTheorem`, `CoverInv`
says that the items cover a first part of the pattern and that what the loop has passed behind it
spells the pending text, or is a last `%d`. `CoverText` is about a character of the text,
`FlushedCovers` and `CoverEmit` about the items that a directive adds; `TextGrows` and `Pieces` are the lemmas on
sequences, resting on `FlattenAppend`. `FormatterTypes` is `TypeOK`.

**FileLogAppenderProofs**: `AppenderInv` adds to the types who has the lock, that a stream is closed
only by a failure or by a `Reopen` under way, and `TimeFacts`: any time stamp after the last
change, in `last_time_` or in a thread that has tested it, promises a stream that is fresh, about to
be, or stuck.

**LocksProofs**: `LockInv` says that a flag is set, a reader counted and a writer known exactly for
the guards that hold the lock. `StepKinds` sorts the steps into those that change no holder, add one
or remove one; `GuardsImplementRWLockTheorem` maps them to `RWLock`.

Assumptions: those that the modules name (`FiberAssumption`, `ConfigVarAssumption`, ...): finite
sets where something is counted, a `NULL` that is nothing else, bounds that are numbers; the texts of
documents are texts, as deep as the conversions look into them, and default values are values of their
types (`IsText`, `IsValue` of `Cast`); the
documents of `"logs"` are lists of loggers with lists of appenders (`YamlLogger`).

The library's induction theorems take operators as parameters, which the installed provers cannot
instantiate. Where a proof needs induction over a set of numbers or the length of a sequence
(`LeastElement`, `SetInduction`, `FlattenIs`), it uses that `<` is well founded on `Nat` (`Descent`): the set
of counterexamples would have a least element.

Only model-checked: liveness (`MainRegainsControl`, `CallsReturn`, `CallsEnd`, `Terminates`), which is out
of the prover's reach, and that the three violated statements are violated.

## 5. Not modelled

* levels: `Logger::Log` and the appenders never read `level_`; the conversion of `LogDefine` back to a
  text and the layout of `ToYamlString` (their locks are modelled).
* `LogLevel`, `LogEvent`, `LogEventWrap` and the text that a format item prints: values without state.
* `getcontext`, `makecontext`, `swapcontext`, `malloc` and `pthread_create` do not fail.
* an `RWMutex` that is locked by the thread that writes it (`WritesNot`).
* a time of day that goes back, while a file appender relies on it.
* `Scheduler` (`//TODO`): only the two ways in which a `Task` takes a `Fiber::ptr`.
* `ThreadPool` (its constructor joins threads that never return, and there is no queue), `Socket`,
  `Timer`, `util`, the programs under `tests/`.
* documents with a logger without a name, which the conversion of `LogDefine` refuses with an exception,
  and documents that differ in levels only.
* client code that calls `SwapOut` or `SetThis` itself; the yields and the ends of callbacks call them.
* visitors that call `LookUp`: they wait for a lock that their own thread holds, and nothing in the
  repository does it.

## 6. Plan

Done: every component with behaviour of its own; three refinements (`Coroutine`, `RWLock`,
`NotifiedValue`); every safety property of every passing run, proved.

1. An abstract logger for what `LogIsWritten` and `ConfigApplied` promise together. It cannot be a list
   of appenders that a reload replaces in one step: other threads log between the listener's
   `ClearAppender` and its `AddAppender`s, and see every list in between. The abstraction has to
   allow a logger the prefixes of its new list while it is reloaded.
2. `Scheduler`, when its queue and its threads are written.
