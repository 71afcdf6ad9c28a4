# Verification of liberado-python-interpreter-mcp

TLA+ models of the server in `src/src/` and of its Python worker in
`src/sandbox/wrapper.py`, checked with TLC on small instances, with theorems
proved by TLAPS for every instance. Line references are to the repository.

## 1. Inventory

The program is a server with one kind of child process. Calls arrive over HTTP;
each is a task of a multi-threaded tokio runtime, so any two of them interleave
at every lock and every `await`, and between awaits on two threads.

| Part | State it keeps | Operations | Correct when |
|---|---|---|---|
| Session registry (`server.rs` 13-135, 254-372) | `sessions`: id → `Arc<Mutex<Session>>` behind one map lock; the lock of each session | `execute_python`, `reset_python_session`, `list_python_sessions`, `install_package`, `cleanup_expired`, the reaper task | the limit holds under races; one execution per worker at a time; failed and killed sessions leave the map; only idle sessions are reaped; the two locks cannot deadlock; every call returns; no worker is left behind |
| Session and exchange (`sandbox.rs` 40-318) | child, its two pipes, work directory, `last_used` | `new`, `execute`, `exchange`, `kill`, `Drop` | a reply answers the request it is reported for, whatever times out or dies |
| Worker (`wrapper.py`) | the namespace; the protocol streams | `main`, `handle_exec`, three handlers the server never calls | exactly one response per request; a failed batch keeps the worker; incomplete input changes nothing |
| pip (`sandbox.rs` 320-440) | the session's `packages/` directory | `install_package`, `list_packages`, `get_python_info` | a package goes where the call says it goes |
| File tools (`server.rs` 137-252) | the files | `read_file`, `write_file`, `edit_file` | calls on a file that take turns do what they answer; an edit that is reported is made |
| Workspace containment (`workspace.rs`) | none | `resolve` and its two helpers | the result is under a root, and the lexical and the real path agree |
| Truncation (`sandbox.rs` 460-480) | none | `truncate_to` | at most the limit, on a character boundary, flagged exactly when cut |
| Sandbox mode, configuration (`config.rs`, `main.rs`, `sandbox.rs` 52-181) | `Config` | `from_env`, `validate`, `probe_sandbox` at boot and per session | `sandboxed` says what ran; a required sandbox is never replaced; a session that is not made leaves nothing |
| Idle time (`constants.rs`, `sandbox.rs` 224, `server.rs` 339-372) | `last_used`, the reaper's interval | `cleanup_expired`, `spawn_reaper` | no session is reaped early, none stays late |

How they interact: a tool call takes the map lock, clones the `Arc` of a session
and releases the map lock (except `install_package`, which keeps it while it
waits for the session); it then takes the session lock for one exchange over the
session's pipes, under a timeout. A failed exchange releases the session lock
and takes the map lock again to remove the session. The reaper, and a sweep at
the start of every `execute_python`, remove sessions whose lock they can take
and whose `last_used` is old. A session is dropped — worker killed, directory
removed — with the last `Arc` to it, wherever that is.

What is hard here: the order of the two locks; what happens between the release
of one and the taking of the other; requests queued behind one that fails; ids
that are used again; responses that are left in a pipe; the reaper racing calls.
`PROJECT.json` lists these as hazards with their lines.

## 2. Modules

| Module | Models |
|---|---|
| `WorkerPipe` | Every `Session` object ever made: the Rust side's steps on it (spawn, write, read, kill, drop) and the worker's (read a request, respond, die, write a line of its own) |
| `SessionServer` | `InterpreterServer`: the map, both levels of locks, the calls and the reaper, composed with `WorkerPipe`; its properties |
| `SessionDirectory` | The abstract specification of the registry, as its clients see it; `SessionServer` implements it |
| `SessionInvariant` | The inductive invariant of `SessionServer` |
| `SessionServerProofs`, `SessionRefinementProofs` | The theorems about it: types, safety, isolation; the refinement of `SessionDirectory`, resources |
| `ReplWorker` | The worker process: its loop, its handlers, a batch statement by statement, the namespace, threads |
| `ReplSession` | Its abstract specification: a batch is one step; `ReplWorker` implements it |
| `ReplWorkerProofs` | The theorems about the worker, the refinement among them |
| `IdleClock`, `IdleClockProofs` | Idle time and the reaper in seconds, and their theorems |
| `Startup`, `StartupProofs` | From the environment to running workers, and the theorems |
| `FileTools`, `FileToolsProofs` | `read_file`, `write_file`, `edit_file` on shared files, with their inductive invariant, and the theorems |
| `TextRules` | The pure algorithms on texts: the replacements of `edit_file`, `truncate_to`, and what they are meant to do |
| `TextQuestions` | Any text and what may be asked of those algorithms for it: an edit or a cut |
| `Workspace` | `resolve` and the opening of what it answers, in a file system with links |
| `TextRulesProofs`, `RulesProofs` | The theorems about the texts and about `resolve` |
| `MCSessionServer`, `MCReplWorker`, `MCLifetime`, `MCFileTools`, `MCRules` | The instances for TLC; `MCLifetime` runs `Startup` and `IdleClock` side by side, as neither reads the other |

Where the modules meet: `SessionServer` EXTENDS `WorkerPipe`, and takes a worker
for a process that answers, dies or writes a line of its own at any time;
`ReplWorker` is that process from the inside, and its `OneResponseEach` and
`strays` are what `WorkerPipe` assumes of it. `SessionServer` says of time only
that enough of it may have gone by (`Age`); `IdleClock` says how much, for one
id. `SessionServer` makes a session in one step; `Startup` has the steps of
`Session::new`. `FileTools` EXTENDS `TextRules`, and is given what `resolve`
answers; `Workspace` has `resolve`. The file tools touch neither the map nor a
session, so the two halves are not composed.

### WorkerPipe

An object is named by the call whose `acquire` created it (a call creates at
most one), a request by the call that wrote it. `life[o]` is the Rust side's
view: `open` while the two pipes are there, `killed` once `kill` has set them to
`None`, `dropped` after `Drop`. `worker[o]` is the process. `inbox[o]` and
`outbox[o]` are the two pipes, `job[o]` what the worker executes. A line is a
response, or text of user code that `serde_json` accepts or rejects: descriptor 1
is inherited by subprocesses, and `redirect_stdout` replaces only `sys.stdout`
and only for the time of one `exec`. `kill` sends SIGKILL without waiting; its
model empties both pipes, which is what the Rust side can still see of them
after dropping its ends.

The namespace, output texts and the fields of a response are in `ReplWorker`: here
an execution is told apart only by whose code its reply reports on (`answer`).

### SessionServer

`pc[c]` is where a call is; a step runs from one point where another task can
interfere to the next. Critical sections of the map lock that await nothing
(`cleanup_expired`, `acquire`, the removals, the snapshot of the listing) are
one action with the guard `MapFree`; `install_package` keeps `mapLock` over its
second await. `sessLock` is the session lock; a call that finds it taken waits
in its queue (`wait`), and tokio hands the lock from its holder to the queue, so
`try_lock` (`LockFree`) fails while there is one. `Return` and `Retire` are the
two ends of an exchange; between `Fail` (`drop(guard)`) and `Retire` the session
is unlocked and still in the map, as in the code. `DropUnreferenced` is the
reference count: the step that removes the last `Arc` kills the worker and
removes the directory. A reset is two steps: it removes the `Arc` from the map
(`Reset`), and drops what it has removed after the map lock is free
(`ResetDrops`).

Two sources of abstraction. Time: `Age` lets the idle limit pass for any session in the
map, at any instant, between `acquire` and the lock too: a sweep
reads the clock when it comes to the session (`sandbox.rs:297`). Cancellation: `Cancel` is the
transport dropping the future of a call at an await. Whether it does so is
decided outside this repository, so `Cancellable` is a parameter, and each
property says whether it needs calls to run to their end.

Not in the model: the result texts, `created` and `sandboxed`, log lines, the
moment in which the listing's `try_lock` makes the reaper's fail (the reaper
comes again), the first-come order of a session's queue (any order is allowed),
and `write_all` that stops half way (the request is then lost with the worker).
A pip that fails may have made its `--target` directory before (`PipFails`); that
the removal of a `TempDir` succeeds is assumed.

### SessionDirectory

Ids that name sessions, and executions that use a session one at a time: no
pipes, workers, locks, queues or `Arc`s. The refinement mapping is `names <-
sessions`, `inside <- sessLock`, `uses <- UsedBy` (the object of a call that holds
an `Arc`), `born <- Opened` (the objects ever made) and `outcome <- Outcome` (the
result of a call that has ended). The directory opens a session under an id that
names none while there is room; gives an execution the session its id names at
that moment; lets it in alone and to its end; reports a failure only when no id
names the failed session; and may forget a session nobody is inside of. That a
failure empties whatever its id names (`Fails(c, s)`) and that a session is
forgotten between `acquire` and the lock are allowed by it, because the code does
both. What it rules out: a session under two ids, an id that is given back,
an execution whose session is replaced under it, a limit that is passed.
`NeverNamedAgain` is a consequence of the directory alone, and is proved of the
server through it.

### ReplWorker and ReplSession

`inbox` is the worker's stdin, `log` and `shown` are the responses with their
stdout, `strays` is what reaches the protocol stream beside them. Each handler is
an action, and a batch runs one statement per step, so that threads, writes of
the server and death come between any two. Statements are what the properties
tell apart: bind, use, raise, exit, input, print, start a thread, never end, and
have a value whose `__repr__` raises. A trailing expression binds `_` and is
echoed. A name's value is the number of the request that bound it. `Die` is the
server's kill, any rlimit, or EOF; `DieAtLine` is an exception nothing catches: JSON
that is no object has no `get` (`wrapper.py:254`), and `ast.parse` may raise
something else than the two exceptions `handle_exec` catches (`RecursionError` for
deep nesting). Either ends the process without a response. Threads only print here:
that one binds a name while a batch runs is left out.

In `ReplSession` a batch is one step on the namespace: it takes effect up to its
first failure, defined there by a condition on the whole batch and not by running
it. The mapping is `namespace <- settled`, the namespace at the last response.

### IdleClock

`lastUsed` is set when an execution starts, as `Session::execute` does. The
interval is tokio's: ticks are due `Period` apart whatever the sweeps take (its
default is to catch up on missed ticks at once). A sweep waits for the map lock
for up to `Hold`, and may find the session's lock with a listing for a moment
(`CleanupMisses`; `missed` grants it a period for each). `ended` and `began` are
history. Its definitions are named apart from those of `Startup` (`ClockInit`,
`ClockNext`, `ClockTypes`) for the module that runs both.

### Startup

`from_env` and `validate` are the sequence `Steps` of checks in their order, the
first that fails ending `main`; a setting is unset, blank, not Unicode (which
`std::env::var(..).ok()` makes unset), or a value of some kind. `HostChanges`
lets nsjail come and go between any two steps, so the probe at boot, the probe of
a session and its spawn may see different hosts. `Session::new` is four steps
under the map lock, each of which may fail after the ones before; dropping the
`TempDir` removes the directory. Whether nsjail hands its environment to the
worker is its own configuration, so both are allowed; without it the worker uses
`DEFAULT_PACKAGES_DIR`, which is where the bind mount puts the same directory.

### FileTools

Text is a sequence of characters. `Matches` (where the occurrences begin that are
replaced) and `Replacen` are what Rust's
`str::matches` and `str::replacen` do; `Edited` and `Replaced` are the two uses
`edit_file` makes of them, one for the text and one for the number it reports.
A call is a read (one step), a write (directory, open, write, each of which can
fail on its own) or an edit (read, replace in memory, open, write). A file that is
there may still not be readable, its bytes being no UTF-8 or its permissions in the
way (`ReadFails`). The open
truncates: `tokio::fs::write` is `File::create` and then `write_all` from
offset 0 of a descriptor of its own, so two writers overlay each other
(`Overlay`). `FileOf` is what `resolve` answers for a name; two names may lead
to one file. `Restart` ends the process: calls in flight are lost and leave on
disk what they have done. `promised` and `alone` are history: what a file holds
by the answers given so far, and which calls have shared their file with no
other.

Left out: the cut of a long text (in `TextRules`); a read that
meets a file in the middle of being written in more than two pieces; the
cancellation of a file call (`fs::write` is one blocking task, which runs on).

### Workspace and TextRules

A location is a sequence of components, a file system a function from locations to
nodes, in which everything is in a directory (`WorkspaceAssumption`). The kernel's
path resolution is external: a walk is the directory it is in and the rest of the
path; a step goes down, stays, goes up or puts the target of a link in place of its
name; `Walk` is where it is after `MaxSteps` steps. `Canonicalize` is
`std::fs::canonicalize`; `Landing` is what `create_dir_all` and `File::create` make
or open: components that are missing at the end of the path are made, and a link to
a single missing name makes its target, but no directory is made along a link's own
target, for which the walk remembers how much of the rest is the path's `own`.
`LexicallyNormalize`, `CanonicalizeExistingPrefix` and `Resolve` are the code's.
`TreeChanges` changes the file system between `resolve` and the open. In `TextRules`, `Matches` is the set of the places where Rust's
`str::matches` finds an occurrence, from left to right and none inside another,
and `Replacen` writes the text position by position, as `str::replacen` does;
both are recursive functions over the positions of the text. `TruncateTo` steps
back to a character boundary as the code does. Both modules are
compared with definitions of another kind: where the kernel ends up, the largest
set of occurrences that do not overlap, the longest prefix that fits.
`TextQuestions` states the comparisons of texts for a `question`, any text with
what is asked of it; nothing else happens there, so that TLC takes the questions
from a small set and the proofs from all of them.

## 3. What the runs check

The safety runs of the server use three calls — one that fails or times out, one behind it in the
queue or with a new session under the same id, one that removes or sweeps — on
two ids with room for one session, so that the limit, an id used again and an
`Arc` that outlives its place in the map all occur. Three actors are what every
hazard of the list takes.

| Run | Instance | Shows |
|---|---|---|
| `Exchange` | 3 calls, 2 ids, no stray lines, no cancellation | `ReplyPairs`, `FailedSessionGone`, `KilledSessionRetiring`, the invariant `IInv` of the proofs (types included); `DirectorySpec`: the server implements `SessionDirectory` |
| `Sharing` | 3 calls, 2 ids, one stray line that parses as a response, calls cancelled at any await | `SessionLimit`, `SessionMutex`, `NoCircularWait`, `SessionIsolation`, `BusyNeverReaped`, `UnmappedWorkersInUse`, `WorkdirsAccounted`, and `IsolationInv`, the invariant of its proof |
| `Progress` | 2 calls, 2 ids, a stray line that does not parse, calls cancelled at any await, fairness | `CallsReturn`, `WorkersReclaimed`, `ResetReleases`; `DirectorySpec` for disorderly code and cancelled calls |
| `Worker` | 3 lines out of 19: nine batches, ten lines that are none | `OneResponseEach`, `OutputAccounted`, types; `SessionSpec`: the worker implements `ReplSession`; the invariant `WorkerInv` of the proofs |
| `Lifetime` | `Startup`: 98 environments, 2 sessions, nsjail coming and going. `IdleClock`: one id, 18 seconds, `Idle` 4, `Period` 3, `Timeout` 3, `Hold` 2 | `RequiredNeverReplaced`, `NothingLeft`, `WorkerAsReported`, the invariant `StartupInv` of the proofs; `ReapedIdle`: none is reaped early; `ReapedInTime`: none stays late; the invariant `ClockInv` of the proofs |
| `FileSharing` | 3 file calls out of 8 requests, 3 names of 2 files, one failure (of a read, a directory, an open, a write) or restart | `QuietFilesKeepPromises`: while calls on a file take turns, the file holds what their answers say; types, and the invariant `FileInv` of the proof |
| `Rules` | 196 file systems, 62 requests, two roots, one inside the other; all texts up to 4 characters | `RefusesOutside`, `NamesTheSame`, `DotsAgree` of `resolve`, `OpensResolved` and `OpensInside` of what is opened by its answer; `EditExact`: the number reported is the number of replacements made; `CutExact`: a long text is cut as late as it can be, and flagged when it is |

`Sharing` has more states than TLC can keep in its time, so it tells them apart by
`View` (`MCSessionServer`): of a call that is over, only what a later step or one of
the run's properties reads; of an id or a result that nothing will read again, no
value. Its invariants and `BusyNeverReaped` read nothing that the view leaves out.

`MaxStray` bounds the lines of user code on the protocol stream: one shifts every
later reply of a session, more would only shift them further. A line that parses
is the kind that shifts replies (`Sharing`); one that does not fails the exchange it
is read in and leaves the pipe open (`Progress`, and `PipeReused` with three calls). Four characters
hold two occurrences of a string of two and every overlap of one; a count of two
is below, at and above the number of occurrences; characters of one, two and four
bytes with limits up to ten put the limit on, between and beside boundaries. Of three file calls, two
overlap and one comes before or after them; one fault is one operation that
fails, or one restart, at any point. The file runs may end: a call that has
answered is over, and calls do not come back.

Three lines are enough for the worker: one to leave a thread, a binding or a
failure behind, one that meets it, and one behind that (after a timeout
the server writes no more). The batches fail at their start, middle and end,
with and without a trailing expression. Eighteen seconds hold six periods of the
reaper and two lives of a session; the lengths are chosen so that the reaper's
tick falls before, on and after an expiry, and an execution can take nearly as
long as the idle limit. Two sessions are what it takes for one to be given, or to
lose, the directory of the other; the environments combine the settings of the
sandbox in all ways and vary each other setting alone, as the checks of the others
do not read one another. The file systems have links within a root, out of it, to
a directory, to nothing and in a circle, and a root that is a link or is missing;
`MaxSteps` is no bound for them: `EnoughSteps`, which TLC evaluates, says that
every walk has ended in 16 steps or is in a circle. Each behaviour is one request: one
`resolve`, one open, and a change of the file system at most between them, after
which what is opened may be anywhere. The properties of `Rules` make one exception,
which is what `DanglingLink` reports: a link to nothing. Where the answer of `resolve`
is one, the comparison saw the place of the link, and the open makes its target.
`OpensResolved` and `OpensInside` say that this is the only way to open anything else
than what was compared, or anything outside; `RefusesOutside`, that an answer or a
root of that kind is the only reason for a wrong decision, and only about something
that is not there yet.

Fairness (`Progress`): strong fairness of each call's own steps, because tokio's
mutexes queue and every wait for one ends if its holders' do; every exchange is
ended by `exec_timeout_secs`, which `Config` requires to be positive, so a
`Timeout` step is always possible; weak fairness of the clock and of the
reaper's ticker. Nothing is assumed of workers, pip or clients: `CallsReturn`
excepts a call that waits for pip, which has no timeout.

Runs that end in a violation state what a document or comment says and the code
does not do; each is a finding in `PROJECT.json`:

| Run | Statement the code violates |
|---|---|
| `MapLockHeld` | the map lock is only held for a look-up — `install_package` waits for a running execution with it |
| `PipeReused` | a failed exchange retires the session instead of reusing the pipe — a queued call gets to it first |
| `RetireByKey` | retirement removes the failed session — after a reset has taken that one out of the map and another call has made a new one, the id names a healthy one |
| `DanglingLink` | symlinks are resolved, and anything landing outside the roots is refused — a link to a file that is not there is accepted, and `write_file` makes the file where it leads |
| `FileLostEdit` | an edit reports replacements actually made — an overlapping edit of the same file has undone them |

Other such behaviours came up in the models and are recorded without a run; the
first four are in the notes of the hazards.

- A line of user code on descriptor 1 that parses as JSON is taken for the
  response, and the response for that of the next call (`sandbox.rs:268`, against
  `ARCHITECTURE.md:35`); `Exchange` therefore has orderly user code, and `Sharing`
  checks what is left, `SessionIsolation`.
- pip may run after the session it installs for is gone: it makes the directory
  again, and where it succeeds the call reports success (`server.rs:281`, against `server.rs:255`).
- A sweep between a call's `acquire` and its lock removes the session the call is
  about to use (`server.rs:345`): the call succeeds, and its id is unknown afterwards.
- `last_used` is the start of the last execution, so its duration counts as idle
  time: 28 of the README's 30 minutes are sure with the default timeout, none with
  a timeout above 1800 s. `ReapedIdle` has the exact bound.
- A reset of a session in use takes it out of the map, and the worker lives until
  the call that uses it ends (`ResetReleases` says that it ends then).
- A workspace root that does not exist is not rejected at startup
  (`README.md:76`): `env_roots` asks only that it be absolute.
- A setting that is not Unicode counts as unset, and a blank
  `LIBERADO_WRAPPER_PATH` is an empty path where every other blank setting is unset.

## 4. What is proved

For the server, for every set of calls and ids, every limit and any user
code; the assumptions on the constants are `PipeAssumption` (`NoCall` is not a
call, stray lines are of the two kinds) and `ServerAssumption` (a positive
limit).

The invariant is `SharedInv`: types, `LockInv` (a lock is held exactly by the
call whose `pc` says so), `MapInv` (an object is in the map at most once, under
the id its holders know, and only after its creator and before it is dropped),
`LimitInv` and `FailedSessionGone`. Types alone are not inductive: what
`read_line` returns has a type only if the reading call has a session. That a
retirement by id unmaps the failed object needs the clause of `MapInv` that
holders know the id; that no failed object comes back needs the clause that an
object is inserted by its creator before anybody holds it.

- `ExchangesExclude` (`SessionMutex`), `LocksDoNotCircle`
  (`NoCircularWait`), `LimitHolds` (`SessionLimit`), `FailuresRetire`
  (`FailedSessionGone`) hold of every server, cancelled calls included. So does
  `TypeCorrect`, on which they rest.
- `KilledSessionsLeave` (`KilledSessionRetiring`) assumes `~Cancellable`.
- `RepliesPair` (`ReplyPairs`) assumes `Orderly`: no cancellation and no stray
  lines. `PipeInv` says that a pipe is empty unless one call is between its send
  and its read, and then carries that call's request, its execution or its
  response; the session lock makes that call unique. Without either assumption
  the statement is false (a line of user code is taken for the response; `PipeReused`).

- `BusyStay` (`BusyNeverReaped`): a session in an exchange is locked, and both
  sweeps take only sessions whose lock is free; nothing else but a reset or a
  retirement shortens the map. It needs `LockInv`.
- `SessionsIsolated` (`SessionIsolation`) needs neither assumption. `ReplyPairs`
  fails there, so `PipeInv` is of no use; `IsolationInv` says instead that every
  request, execution and response in the pipes of a session belongs to a call of
  that session, and that the session of a call that has written its request
  never changes again.

- `WorkersAccounted` (`UnmappedWorkersInUse`) and `DirectoriesAccounted`
  (`WorkdirsAccounted`), by `ResourceInv`: a session that is not dropped is
  referenced by the map, a call, a listing or a reset, and a worker that lives belongs to a
  session whose pipes are open. Every step that removes a reference ends in
  `DropUnreferenced`, which is what the proof turns on.
- `InvariantHolds`: all of `IInv`. `PipesBelong`: all of `IsolationInv`.
- `DirectoryImplemented` (`DirectorySpec`): the refinement, one lemma per action of
  the server and the step of the directory it is, on top of `SharedInv` and
  `ReturnInv` (only an output is returned). Steps on pipes, queues and references
  are stutters (`Unseen`). The step that needs most of the invariant is `Retire`:
  that no id names the failed session afterwards follows from `MapInv`.
- `NamesStayLost`: `NeverNamedAgain` of the directory, carried over to the server.

For the clock, for all lengths of the idle limit, the period, the timeout and the
wait for the lock (`ClockAssumption`): `AbandonedReaped` (`ReapedInTime`) and
`InUseStay` (`ReapedIdle`). `ReapedInTime` is not inductive; `ClockInv` adds where
the last tick stands (`began`, at most `Gap` ago while the reaper sleeps) and that
no tick which has been swept lies after the expiry of a session that is still
there. `MaxTime` bounds TLC and occurs in no argument.

For the start, for all environments and sets of sessions (`StartupAssumption`):
`RequiredSandbox`, `NoResidue`, `WorkersAsReported`. `StartupInv` adds that the
checks of boot hold for as long as the server runs (the settings do not change)
and that a command which is built is one they allow; that is what carries the
decision of a session's own probe over the loss of nsjail.

For the file tools, for all sets of calls, files, names and requests, any texts
and any number of failures and restarts (`FileAssumption`):

- `PromisesKept` (`QuietFilesKeepPromises`). `FileInv` adds `AloneInv`: a call
  that shares its file with no other has read, and is about to write, what the
  answers so far say the file holds; once a second call joins, the promise about
  that file is withdrawn until a call that is alone makes a new one.
- `FileInvHolds`: all of `FileInv`.
- `FileTypes` (`TypeOK`): what is read, written and promised is text, and a call
  that writes finds the file its open has made, whoever else is at work on it.
  It needs `FileInv` (a call on its way has a request) and the lemmas of
  `TextRulesProofs` that an edit of a text is a text and its number a number.

For the worker, for all sets of lines and requests, batches of any length, any
names and any number of threads (`WorkerAssumption`):

- `WorkerAnswersEach` (`OneResponseEach`): the log pairs, entry by entry, with
  the lines that are done. `WorkerTypes` (`TypeOK`) goes with it.
- `WorkerAccountsOutput` (`OutputAccounted`): that no text is in two places needs
  `TextInv`: every text so far is older than the next one, and what a batch has
  printed may be in its response.
- `WorkerImplementsSession` (`SessionSpec`). `BatchInv` carries it: a batch at
  statement `at` has bound, and met as its first failure, what the definitions
  over the whole batch (`Stop`, `After`, `Error`) say of the statements before
  `at`; at the end of the batch this is what the one step of `ReplSession` asks
  for.
- `WorkerInvariant`: all of `WorkerInv`.

For texts, over any set of characters, each of one to four bytes, and for all
texts, strings, counts and limits (`TextAssumption`):

- `EditsExact` (`EditExact`), from `EditReportsActual`. Up to every position of
  the text the leftmost matches are at least as many as those of any set of
  occurrences that do not overlap (`FoundLeads`). The length of the
  text replaced follows the positions: each is in one match or in none.
- `CutsExact` (`CutExact`), from `CutIsClean`: stepping back from the limit ends
  at the last boundary not above it, and what ends there is the longest prefix
  that fits, since more characters take more bytes.

`Matches`, `Replacen`, `Bytes` and `End` recurse over the text. Their unfolding,
and the inductions, are obtained in `TextRulesProofs` from one fact, that a set of
numbers which is not empty has a least element.

`ClockInvHolds` and `StartupInvHolds` are all of `ClockInv` and all of
`StartupInv`.

For `resolve`, for all file systems with any links, all lists of roots and all
requests (`WorkspaceAssumption`, `EnoughSteps`), in `RulesProofs`:

- `OpensWhatIsCompared` (`OpensResolved`), `NothingThereOutside` (`OpensInside`) and
  `RefusesWhatIsOutside` (`RefusesOutside`), with the exception of a link to nothing
  as in section 3, and without one for everything that is there;
  `AnswersNameTheSame` (`NamesTheSame`) and `DotsAgreeWithKernel` (`DotsAgree`). They
  rest on a lemma, `AnswersCurrent`: while the file system has not changed, the answer
  is the one for it. What is left is about one file system and one path:
  - A walk along a path goes on along a longer path as if that were not there, until
    it meets a file at its end (`ExtendAfter`); and from a directory it goes on as
    if it had started there (`Through`). So the part of a path that is there may be
    put as its own location (`SameLanding`), which is what
    `canonicalize_existing_prefix` does.
  - The next name, with which the path is no longer there, is behind a file, is
    missing, or is a link that leads nowhere (`BlockedKind`). A missing one is made
    where the answer says (`Made`); behind the others nothing is and nothing is
    made (`BehindFile`, `BehindLink`). `RealShape` says this of every answer.
  - A root before an answer has no link on its way, as nothing below a missing name
    is there and the answer has none on its own (`ClearNotBlocked`); so comparing
    the names compares the places (`Compared`).
  - Without links each step of the kernel is a step of `lexically_normalize`
    (`WithoutLinks`).

`EnoughSteps` restricts none of this but the constant `MaxSteps`: a walk that comes
back to a name before it has gone past it never ends (`CirclesForever`), and any
other may take as many steps as it needs. The kernel also gives up behind a
number of links (40 on Linux). The model does not: of a path that takes more,
without a circle, nothing is said.

`After` and `NormalizeTo` are recursive functions and unfolded like those of the
texts.

Only model-checked: the three liveness properties, as fairness is out of this
prover's reach.

## 5. Not modelled

- Wording of messages, tracing and the summary line at boot; JSON encoding and
  the fields of the payloads; the HTTP transport (`turbomcp`), but for its freedom
  to drop a call.
- `list_packages` and `get_python_info`: they run pip or Python and keep no state.
- The single rlimits of the worker (`_apply_resource_limits`): each only ends the process,
  which `Die` does at any time.
- Windows path prefixes and UNC paths in `workspace.rs`.
- A crash of the server process: sessions live in memory and start anew; the
  `TempDir`s of a killed process stay behind, and no code looks for them. For the
  file tools a crash is `Restart`.
- The Dockerfile and the nsjail configuration.
