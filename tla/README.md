# zeen in TLA+

This directory holds TLA+ models of the parts of zeen (a compiler, a language
server and a standard library for a language with moves and automatic drops)
whose correctness depends on an order of events: of control-flow paths, of
threads and processes, of lock operations, of an editor's notifications and of
the calls on a data structure. Every module is translated from the source; the
`map` of `PROJECT.json` names, for each definition, the lines it stands for.
TLC checks small instances; TLAPS proves the central results for every instance.

## The system

| Component | State it keeps | Operations | Talks to | What is hard | Correct when |
|---|---|---|---|---|---|
| lexer, parser, preprocessor, hir, typecheck, layout | trees, tables | one pass over a file | the next pass | size of the language | tests on data say so |
| resolve (`zeen-resolve`) | the include graph, scopes | load a module once, resolve names | parser, driver | include cycles, cached modules | every module is loaded once, cycles end |
| comptime | interpreter heap, step and depth counters | evaluate, emit code | typecheck | limits on runaway code | ends within its limits |
| mir (`zeen-mir/lowering.rs`) | blocks, current block, scopes, loop targets | lower each statement and expression | flow, codegen | blocks left open or closed early by break, continue, return | every reachable block has a terminator, every scope is closed |
| flow (`zeen-flow`) | block entry states, worklist, recorded states, errors | drop temporaries after their last use (`liveness.rs`), scan a block, join into successors, insert drops | mir before it, codegen behind it | joins, loops, partly moved structs, where to drop | no use after move, each owned value dropped exactly once |
| codegen (`zeen-codegen-llvm`) | LLVM module | emit statements and terminators | LLVM | drop glue | does what the MIR says |
| linker, driver, command line | none | run the phases, call tools | all | - | - |
| language server (`lsp/backend.rs`, `zora.rs`) | documents, packages, published files, symbol index, repair cache, each under a lock; debounced checks | open, change, close, watch, requests | editor, zora, the compiler's phases | handlers that await between reading and writing shared state | the last edit's text, analysis and diagnostics are what stays; requests are answered |
| std.sync | Mutex, RwLock, Arc over the operating system | lock, try, drop of guards, clone, drop | threads | interleavings, platform differences | see below |
| std.thread | packet and result slot of each thread | spawn, join, drop of a handle | Arc, Mutex | lifetime of cells shared by two threads | see below |
| std.process | pipes, process ids | spawn, wait, kill, output | operating system | descriptors inherited across fork, deadlock on pipes, an exec that fails in the child | spawn answers truly, calls return, a wait is about the own child |
| HashMap (`collections/map.zn`) | buckets of entries, length, capacity | insert, remove, get, grow, clear, clone | Hash and Eq of the key | collisions, growth, who owns a value | behaves as a function from keys to values |
| the other libraries | values | sequential calls | - | - | tests on data say so |

What a user relies on first is the ownership analysis ("data is released right
after usage", README.md:18), the threads and processes of the standard library,
its map, and an editor that shows the truth. They are modelled here. `PROJECT.json` lists all components with
their status and, under `hazards`, each place where an untested order could
break something, the ones not yet covered included.

## Modules

### The ownership analysis

| Module | Models |
|---|---|
| `Mir` | `zeen-mir/lib.rs`: what a function is: blocks of reads and writes of places, successors, kinds of terminator |
| `FlowState` | `zeen-flow/state.rs`: what is known of a local (whole, or field by field), reads, writes, moves and joins |
| `DataFlow` | `zeen-flow/analysis.rs` and `drop.rs`: the worklist, the effect of each statement, the diagnostics, the places where drops are inserted |
| `FlowExec` | what the emitted program then does to its values (`zeen-codegen-llvm/codegen.rs`), on any path the conditions may take |
| `PromptDrops` | `zeen-flow/liveness.rs`: where a temporary that owns something is dropped: live variables, dominators, what is derived from what |
| `Temporaries` | `FlowExec` on functions with those drops: which temporaries a pointer really points into, and the two properties about it |
| `MirLower` | `zeen-mir/lowering.rs`: from a statement tree to blocks, with scopes, branches, loops with their labels, update and else parts, break, continue, return, aborts, calls with their receivers, arguments and temporaries |
| `FlowProofs` | proofs |
| `MCFlow` | the families of programs that are checked |

One behaviour of `FlowExec` takes one MIR function, analyses it one statement
entry at a time, in the worklist order of the code, and when no error was
reported runs it. The locals of `Unnamed` are temporaries: a diagnostic needs a
name (`local_name_and_source`), so the analysis follows them like any other and
reports nothing of them (`Reported`). The state of the analysis (`blockIn`, `worklist`, `seen`) is
that of `analyze_function`; the state of the run (`env`, `dropped`, `lost`)
says what each slot truly holds. The properties relate the two: what the
analysis believed must be so on every path.

A place is a local and its first field projection: `first_field` looks at no
more. A statement is kept as the sequence of consume and write calls the
analysis makes for it; expressions, types and conditions are gone. The entry
that is read by a return is behind the drops placed there, as `insert_drops`
places them.

In `PromptDrops` a drop is written into the function as a consume of its
temporary, in a statement of its own, before `DataFlow` looks at it, as
`analyze_function` calls `insert_prompt_drops` first. Its worklists (liveness,
dominators, addresses) end in the extreme solutions of their equations, which
the model reaches in rounds. `Temporaries` says what is true of pointers
without the pass's tables: a call's result may point into whatever its arguments
may, however many hands that went through.

The functions of `lowering.rs` call each other down the tree. `MirLower` does
what they do one call at a time: `LowerStep` takes the next thing to do from
`todo`, and puts in front what it leaves to be done. So what comes after the
call for a subtree (close the scope, set the else branch going, meet at the
join, pass on to the next argument) is an item of its own, and a body of any
shape is lowered by a number of steps that `MaxSteps` bounds. `Trees` says which
sets of trees there are. `Panics` is `loop_target` without a loop to find, and
`Named` stops where `Temps` has no name left for a temporary; a body that stops
early is not `Complete`. Names of temporaries tell them apart in the model only:
`MCUnnamed` are all of them. A variable that is a receiver is the operand itself,
any other receiver is stored in a temporary first (`LowerRecv`, `Receive`).

`PromptDrops` uses recursive operators, so it is used by the TLC modules only,
where it and `MirLower` give `Functions` its value. `DataFlow` and `FlowExec`
depend on neither, and are proved for any set of well-formed functions;
`FlowProofs` then proves what `MirLower` lowers to be well-formed.

### std.sync and std.thread

| Module | Models |
|---|---|
| `ArcCell` | `Arc`: new, clone, hand-over to another thread, use_count and is_unique, drop in the three steps the threads can interleave with |
| `SharedOwnership` | abstract: a value alive until its last owner goes |
| `StdMutex` | `Mutex`, `MutexGuard`, over the three kinds of mutex the platforms give: one that waits, one that fails, one that nests |
| `StdRwLock` | `RwLock` and its two guards |
| `GuardedCell` | abstract: a value that only one writer changes, and readers see between changes |
| `StdThread` | `Thread.spawn`, the trampoline, `join`, the drop of a handle; the two heap cells a thread shares with its creator |
| `SharedCounter` | the four together, as `compiler/zeen/tests/test_cases/std/thread_basic.zn` uses them: instances of `ArcCell`, `StdMutex` and `StdThread` in one program |
| `ArcProofs`, `MutexProofs`, `RwLockProofs`, `CounterProofs` | proofs |
| `MCArc`, `MCMutex`, `MCRwLock`, `MCCounter` | instances |

The calls of a `JoinHandle` are taken a statement at a time: join waits and
reaps the thread, sets `done`, moves the result out, frees the slot, and, as it
took the handle by value, drops it on return. `DropOf` is that drop, and the drop of a
handle nobody joins: it tests `done`, and otherwise detaches the thread and frees
the slot. That both are freed once is `ReleasedOnce`, and it is the flag, set in
time, that makes it so (the mutant `SetDoneForgotten`).

Elsewhere an action is a stretch of code that no other thread can observe in parts: up
to a blocking call, from its return, one atomic instruction, one access to the
guarded value. `*g += 1` is a load and a store, in two steps, and a writer of
an RwLock changes the two parts of the value in two steps. The operating
system's locks are external: they are modelled by what the code relies on.
A blocked thread is a member of `waiting` that has no action.

In `SharedCounter` the clone for a worker is made, moved into the closure and
dropped as the closure returns; the main thread counts too, joins a worker or
drops its handle, and drops its own Arc at the end. The action of the whole is
the conjunction of the action of the part and of the condition the program
puts it under, so the parts' own guards stay what they are.

### The language server

| Module | Models |
|---|---|
| `LspDeps` | `zora.rs`: the dependency map of a project, cached with the modification times of its manifests |
| `LspDocuments` | `backend.rs`: did_open, did_change and its debounced task, did_close, did_change_watched_files, publish_event, between the documents, the registry of published files and what the editor shows |
| `LspLocks` | every handler as the guards it takes and drops, over tokio's fair RwLock |
| `LspProofs` | proofs |
| `MCLsp`, `MCLspLocks` | instances |

A notification of `LspDocuments` has a number, and the text it carries has the
same number: `documents`, `shown` and the results of checks are told apart by
it. A handler or task is a record in `tasks` that is advanced from one await to
the next, and the steps of all of them interleave: what a task read (`version`,
`text`, `kept`, `packages`) it keeps while the world goes on. `packages_for`
is its three awaits: a look at the cache, the blocking run of zora, and the
store. A watched-files notification is the code's loop: rounds, of a manifest
or of sources, each with its snapshot of the documents and a check for each.
`sent`, `last`, `raced` and `overlapped` are history the properties speak of.
Locks are atomic in this module (a guard held for one map operation); what they
do to each other is the subject of `LspLocks`, where a handler is a script of
requests and drops taken from its source line by line, on its longest path.
Requests that only read the documents under one guard have one script; the
assumption of `LspLocks` says that the kinds a run chooses stand for all of
them. tower-lsp's limit of four concurrent handlers is not reached.

All documents belong to one project. Its files are documents: one the editor
never opens is a file on disk others report on. The check of a document reports
on itself and on any of `Reports`; that a scanned module may report the checked
file once more is not told apart. A failing zora is left out: it would be
packages like any other.

### std.process

| Module | Models |
|---|---|
| `StdProcess` | `process.zn` where it forks: spawn with its pipes and every error path, the child's exec and its report, output with its draining threads, take_stdin, wait, kill, drop of Child |
| `ProcessProofs` | proofs |
| `MCProcess` | an instance |

Threads of one process run a command each. `has` is the set of pipe ends a
process has open, `flagged` those an exec closes: a fork copies both, so that a
child holds what other threads had open. Of a child's inherited ends only write
ends matter (to end of file), and only they are kept. `job` says which calls
the thread makes; "talk" is take_stdin, write_all, the drop of the writer, wait
and maybe kill. A try_wait that finds the child running changes nothing and is
no action. A process id may be used again once its process is reaped.

### HashMap

| Module | Models |
|---|---|
| `Dictionary` | abstract: a function from keys to values and calls that answer for it |
| `HashTable` | the table of `map.zn` as operators: bucket index, search, push, replace, remove, growth, clone |
| `HashMap` | the calls on one map, and who owns each value |
| `HashMapProofs` | proofs |
| `MCHashMap` | an instance |

The loops of `HashTable` are functions of the number of turns (`Doubled`,
`Popped`, `Copied`, `Cloned`), with no RECURSIVE operator. Growth is by new
buckets: an entry of one old bucket goes to one of two, so each new bucket is
what popping its old one pushes on it. The cached hash of an entry is `Hash` of its key. In `HashMap` a
value is in one caller's hands, in the map, or gone; the clone of a map is made
and dropped in one step, which is what a caller can see of it.

## What TLC checks

Run `tlc -config X.cfg M` for module `M` and configuration `X.cfg`.

| Run | Bounds | Shows |
|---|---|---|
| flow | 9,150 functions: one owned variable, each filling of the slots of a branch, a loop, a loop-local scope, a parameter, labelled nested loops with update and else parts, branches that abort; a struct of two owned fields, with and without a Drop implementation: each sequence of three or four whole and field operations, each branch of whole operations and field moves, bodies of `drop`; calls whose arguments and receivers own, temporaries or the variable itself: two in a row, two arguments, in branches, loops and with an argument that leaves | accepted programs never read moved or dropped values, never drop anything that is not live, release what is known to be owned; a call never gets a pointer into a temporary that was dropped, and temporaries are released; the pass ends, in a fixpoint; no path runs off a block |
| flow_rebuilt | a struct moved in a branch and written field by field behind it | a disagreement (below) |
| flow_chained | a view of a temporary passed through a second receiver, or bound by `let` | a disagreement (below) |
| arc | 3 threads, 4 handles | nothing is used after it is freed; `is_unique` stays true until its handle is used; both cells are freed once the last owner is gone; refinement of `SharedOwnership` |
| arc_windows | the same with the Windows decrement | a disagreement |
| mutex | 3 threads, 2 guards on top of each other, 3 increments, three kinds of mutex | exclusion, no lost increment, locked exactly while a guard exists, one guard at a time unless mutexes nest; refinement of `GuardedCell` |
| rwlock | 3 threads, 2 read guards each, 2 updates | a writer is alone, no torn read, no lost update; refinement of `GuardedCell` |
| counter | main thread and 2 workers, 2 increments each, workers joined or detached | the mutex outlives its guards and waiters; join waits and delivers what the closure returned; each slot is freed and each native thread reaped once; the total is the sum; the heap is empty at the end; the program ends, without deadlock |
| lsp_documents | 2 documents of one project, one of which reports on the other; 3 notifications, one of them of watched files; one save of the manifests; the second text does not parse | a version names its text, an analysis is never ahead of its text, no diagnostics are left behind, cached packages are those of the manifests, and a notification that comes when nothing else is under way puts everything right |
| lsp_locks | 3 handlers at once, each of any of the 11 scripts | requests hang in one way only |
| process | 2 threads in 7 pairings of status, output (with and without a piped stdin) and "talk"; pipes of 1, outputs of 2 | spawn answers truly, waits report the own child, calls return |
| map | 5 keys (two share a hash, others a bucket until the table has grown once or twice), 5 values | values are neither lost nor doubled, the table keeps its shape, answers are those of a function |

Why the bounds are enough to be of use. A flow fact travels along edges and
each join is binary: one branch, one loop and one nested scope give every kind
of join, back edge and early exit, and the slots before, inside and after each
hold every operation. Two fields are what it takes for one to be moved while
the other is not. Three threads are needed for two to contend while a third
enters; four handles let a count go up while it goes down; two guards of one
thread show nesting; two rounds let a thread come back to a mutex it has
released. Three notifications put two stale tasks behind a new one; a manifest
round is then with them on the same documents, and a reporting document beside
a reported one is what diagnostics can be forgotten between. Three handlers are
a reader, a writer behind it and a reader behind that; 11 scripts are all that
differ. Two threads fork into each other's pipes; a pipe of one and outputs of
two make a writer wait for its reader. The table starts with 2 buckets instead
of 8, so that five keys make it grow twice, and its collisions are of each
kind; values are interchangeable (symmetry). For the properties that are also
proved, the bounds do not matter.

`CHECK_DEADLOCK FALSE` is set in all but `counter` and `map`: a function that
has returned has no further step, a thread may block for ever on a lock it
holds itself (that is what the operating system does), a program ends, an
editor falls silent. In `counter` the end is an explicit stutter, `Done`, and
any other state without a step would be reported. In `lsp_locks` a hang is what
the invariant is about.

### Fairness

- `FlowExec`: weak fairness of the analysis only. It is a sequential loop; the
  program that runs afterwards may be stopped anywhere.
- `ArcCell`: of the two steps inside `drop`. Nothing makes an owner drop.
- `StdMutex`, `StdRwLock`: none. Nothing in the code promises that a waiting
  thread is served.
- `LspDocuments`: every task that can go on is polled again. The editor may
  fall silent at any moment, and must not: the property speaks of what is left
  after its last notification.
- `LspLocks`, `HashMap`: none; their properties are about every state reached.
- `StdProcess`: every thread and process is scheduled, and a program reads or
  writes on while it can. Nobody is obliged to kill.
- `SharedCounter`: each thread takes steps when it can. A mutex that is free
  may be given to anybody; termination follows because each thread wants it a
  bounded number of times.

## What the code does not keep

Three runs are of statements the documentation makes and TLC finds violated;
`findings` in `PROJECT.json` quotes the texts.

- **flow_rebuilt**: `let s; if c { consume(s) } s.f = new; read(s.g)` is
  accepted. A write to one field makes a local whole again whenever its state
  is not partial, also when it is maybe moved.
- **flow_chained**: `make().view().again()` and
  `let q = make().view(); show(q)` drop what `make()` returned before `again`
  and `show` are called. The pass knows that a call's result is derived from
  the temporary whose address it was given, but not what that result is
  assigned to or passed through.
- **arc_windows**: `arc_fetch_sub` returns the new count on Windows and the old
  one elsewhere, and `drop` compares both with 1.

Others were met on the way. No text of the repository promises their opposite
in so many words, or the property that shows them is one the passing runs do
not use, so they are no runs of their own. Each can be seen with a change of
one line in a configuration:

- `Functions <- BreakOutFunctions` and `INVARIANT AllReleased` in `MCFlow.cfg`:
  a variable of a loop body is not dropped when `break` or `continue` leaves
  from a nested block; the jump emits no StorageDead. With
  `GivenAwayFunctions`: a value moved on one branch only is never released by
  the other.
- `Functions <- DeadCodeFunctions` and `NoFallThrough`: a statement after
  `break` opens a new block, the function counts as diverged, and its last
  block keeps the placeholder terminator `unreachable` although it is reached.
- `Functions <- NestedFunctions` and `NoUseAfterMove`: `join_local` of two
  partial states keeps only the left one's opinion of fields that neither
  lists.
- `INVARIANT SlotNotUsedAfterFree` in `MCCounter.cfg`: dropping the handle of a
  running thread frees the slot in which the thread then stores its result.
- `Functions <- LoopedViewFunctions` and `TemporariesReleased`: the destination
  of a call is not among the definitions of its block, so around a loop what a
  call derived stays live over the back edge, and the temporary behind it is
  never dropped: one leak per iteration. An argument that leaves by `break`
  takes the only drop of its neighbour to the path that leaves, with the same
  effect.
- `OneGuard` in `MCMutex.cfg`, where `Platforms` has nesting mutexes: `try_lock` over
  a critical section gives its owner a second guard, where sync.zn:58 says
  "`None` when held".

Some properties name the case the code leaves open, so that what is left is
true and any other case would be found:

- `NoUseAfterDrop`: an operand returned by copy is read behind the drops of the
  return (`insert_drops` appends them to the block).
- `OneGuardUnlessNested`: where mutexes nest, `try_lock` as above.
- `CallsReturn`: a spawn, or a reader waiting for end of file, waits for the
  child of another thread that was forked between pipe and FD_CLOEXEC
  (`HeldElsewhere`); output with a piped stdin waits for a child that reads its
  input to the end (`StdinLeftOpen`).
- `WaitReportsOwn`: a Child used after its wait may meet another process of the
  same id.
- `HangsOnlyByNesting`: resolve_target_text reads the documents once more under
  the guard of goto_definition; with a writer queued in between neither goes on.
- `HitsAreFresh`: an edit of a manifest while zora runs is cached as seen
  (`raced`).
- `NothingForgotten`: two checks of one document that publish at once may leave
  diagnostics nobody clears (`overlapped`).
- `QuietEditHeals`: until a notification comes when nothing else is under way,
  a slow did_open or a check of before may have stored an older text over a
  newer one.

## What is proved

`tlapm X.tla` checks every proof of module `X`, for every value of the
constants that satisfies the assumptions named in the modules.

**The analysis** (`FlowProofs`).
`TypeCorrect`: the variables keep their types. `FixpointCorrect`: when the
worklist is empty, the entry state of each block covers what each of its
predecessors hands on, whatever the order of the scan. The rest is about
`WholeLocals`, the locals that a function moves and writes only as a whole; it
may read their fields, and do what it likes with its other locals. Each of
their drops finds a live value (`DropsOfWholeLocalsAreLive`); and one that is
known to be live at the end of its scope or at a return has been dropped there
(`WholeLocalsAreReleased`). That holds of temporaries, too. Of those that have a
name (`WholeNamed`) an accepted function never reads, by copy or by move, a moved
or uninitialized value, on any path (`WholeLocalsNotUsedAfterMove`), nor one that
was dropped (`WholeLocalsNotUsedAfterDrop`). Of a temporary that cannot be
proved from acceptance, which says nothing about it: that lowering
never makes a misuse of one is what the run checks (`NoUseAfterMove` and
`NoUseAfterDrop` there speak of all locals). When all locals are whole
(`MovesWholeLocals`), or all named ones (`MovesWholeNamed`), the four are
invariants of the run: `DropsAreLiveCorrect`, `OwnedIsReleasedCorrect`, and
for reads of named locals (`OfNamed`) `NoUseAfterMoveCorrect` and
`NoUseAfterDropCorrect`. The restriction cannot be lifted: a write to a field
(`flow_rebuilt`) and joins of two partly moved states (`NestedFunctions`) make the
analysis accept a read of a moved field.

The inductive invariant `SoundInv` has five parts. `TypeInv` is typing.
`FixInv` says that a block not on the worklist, and not the one being scanned,
was scanned from its present entry state and has joined its result into each
successor; of the block being scanned, it says so for the successors already
entered. `PassInv` says the recorded states of a block are each the effect of
an entry on the state before, and that a read of a named local which failed has
left an error.
`EntryInv` says that nothing but a parameter is known at the function's
entry. `RunInv` says that, while the accepted program runs, a local that the
state recorded at `pc` takes for initialized is initialized in `env`. The step
from one block to the next is where they meet: the state at the end of one is
covered by the entry state of the next (`FixInv`), and covering a real state is
kept by joins (`JoinLocal`: a join never claims more than either side).

For drops, `DropInv` is added. What is due is among the drops placed at `pc`;
of what is known to be initialized, only what a drop behind `pc` has released is
dropped (`DroppedOnce`); and each drop behind `pc` has released its leaves
(`DroppedAll`). It rests on what lies between the place of a drop and the end of
the scope it stands for: no statement there names the local (`HoistFacts`,
`Quiet`), so that no two drops of a local are under way at one point
(`OneScopeDrop`, `DropsDisjoint`), and after the drops of a return only reads
follow (`ReturnQuiet`). Two assumptions are named. `FunctionsAssumption`, that functions are
`WellFormed`, asks for `InStatementOrder`: the entries of a block follow its
statements, StorageDead is a statement of its own and a returning terminator only
reads. It is how `analyze_function` walks MIR, and it is proved of what lowering
makes (below). `DropAssumption` is the type of the constants.

**Lowering** (`FlowProofs`, for any set `Trees` of statement trees of any size
and depth, and any names of temporaries). `LowerInv` holds of the builder after
each step (`LoweringInv`), by one lemma for each kind of statement, expression
and item that may come next. It has three parts. `Built`: the blocks hold legal
entries, each statement numbered after the one before, jumps only go to blocks
that are there and that no abort has declared unreachable, and the items to do
name such blocks. `Opened`: a block that has no terminator yet is the current one, or is
awaited by an item still to do (`Pending`); so when nothing is left to do, the
current block alone may be open, and `ReturnAtEnd` closes it. `Depths`: of the
scopes to close there are no more than are open. Items in front of others are
done first and leave the others alone, which is why a lemma about one step
speaks of the items it adds (`Piece`, `InFront`) and not of those behind.
Steps are counted, not trees: `CountUp` takes the invariant from step to step
with no induction over data.
`LoweringWellFormed`: what is lowered is `WellFormed`. `LoweredMovesWhole`: what
no statement takes apart, lowering and prompt drops do not.
`NoFallThroughCorrect`: with every block closed, and jumps between closed blocks
only (`Terminated`), no execution runs off a block. The functions these speak of
are lowered ones with prompt drops in them (`OfTrees`): of the pass that puts them
there the proofs use no more than that it leaves the control flow alone and adds
drops of temporaries (`DropsAdded`), wherever it puts them. It is for bodies that are `Complete`: lowered to the end, with
no statement behind one that leaves, for with one the code is wrong
(`DeadCodeFunctions`, above). `CompiledSafe` puts both halves together: of
functions lowered from trees that use every value as a whole, an accepted one
reads no named local that is moved or dropped, drops nothing twice, releases what
it surely owns, and never runs off a block. When `MCFlow` starts, TLC checks that
each of its bodies is made of such trees and is `Complete`, that `PromptDrops`
did to it what `DropsAdded` says, and that the programs of one variable and of
calls move each local as a whole (`CasesAreCompiled`), so that the theorems speak of the functions of the run.

**Arc** (`ArcProofs`, assuming `~Windows`, which `arc_windows` shows is
needed). `ArcInv` says that the count is the number of handles in use and that
the cells go through their phases together: nobody frees while a handle is in
use, one thread at most frees, and each cell is live until it is freed. From it
follow `ArcNeverDangles`, `ArcUniqueCorrect` and `ArcRefinesSharing`.

**Mutex** (`MutexProofs`). `MutexInv`: the owner holds as many guards as the
mutex is deep, only the owner has loaded, what it loaded is the value, and a
mutex that does not nest is at most one deep. `RoomToWait`, that a waiting
thread has room for a guard, is needed for the type. From it follow
`MutexExcludes`, `MutexLosesNothing`, `MutexLockedByGuards`, `MutexOneGuard`
and, with `GuardedCell`'s step, `MutexRefinesCell`.

**RwLock** (`RwLockProofs`). `RwInv`: shares and guards agree per thread, a
writer excludes shares, and the two parts differ only inside an update. From it
follow `RwWriterAlone`, `RwNoTornRead`, `RwLosesNothing`, `RwLockedByGuards`,
`RwLockRefinesCell`.

**Arc, Mutex and threads in one program** (`CounterProofs`, under
`CounterAssumption`: finitely many workers). Each step of the program is a step
of the Arc or leaves it alone (`ArcPart`), and likewise for the mutex
(`MutexPart`), so `ArcInv` and `MutexInv` hold of the program by the theorems of
`ArcProofs` and `MutexProofs`, taken through instances. Four more parts tie them
together. `UseInv`: who uses the mutex owns its Arc, has rounds left and holds
one guard at most. `ThreadInv`: the handle, slot and packet of a worker; a
handle that was joined has seen its thread end. `RoundInv`: the value is the
number of rounds whose increment was made, which is a cardinality, so that the
sum of all rounds at the end needs no induction. `FreeInv` is `LastDropFrees` of
`ArcProofs`: without owners, somebody is freeing or both cells are freed. From
them follow `CounterMutexOutlives`, `CounterTotalIsSum`, `CounterJoinDelivers`,
`CounterReleasedOnce` and `CounterEverythingFreed`. For `CounterReleasedOnce`,
`ThreadInv` follows the handle through join: what was freed and reaped, and
whether `done` is set, at each of its points.

**The language server's documents** (`LspProofs`). `LspInv`: a task that holds a
text holds the uri and version it was sent with (`TaskOK`, `HasText`), so do the
items a watch handler has yet to check; the analysis a debounced task keeps is
not younger than its text; a task about to publish on other files has them
registered, or another publication came between; packages about to be cached
are those on disk, or a save came between; and stored times are never ahead of
the manifests. These are facts about tasks, none of which the four properties
mention and without which none of them is inductive: `LspVersionNamesText`,
`LspAnalysisNeverAhead`, `LspNothingForgotten`, `LspHitsAreFresh`.

**The language server's locks** (`LspProofs`, which extends `LspLocks` too).
Scripts are disciplined (`ScriptsDisciplined`): a handler that asks for a guard
holds read guards of the documents at most. `LocksInv` ties the locks to the
scripts: the guards a lock counts are those its handlers' scripts have taken
(`GuardsHeld`), and a request in a queue is the next step of its handler, which
makes it once (`QueuesFollow`, `AskedOnce`). So when nothing can move, only the
documents are contended, the head of their queue is a writer, and a holder waits
behind it for a nested read: `HangsOnlyByNestingCorrect`, for any number of
handlers in any order, where the run has three.

**HashMap** (`HashMapProofs`, under `HashTableAssumption`: keys have a hash in
Nat, `None` is no value, the initial capacity is positive). Keys may be
infinitely many, and collide at will. A lemma for each operation says what it
does to a bucket (`AppendedBucket`, `ReplacedBucket`, `ShortenedBucket`), and
from it what to every `Lookup` of the table (`PushCorrect`, `ReplaceCorrect`,
`RemoveCorrect`). `GrowCorrect` is the arithmetic of the rehash: a remainder by
twice the capacity leaves the remainder by the capacity (`HalfRemainder`), so
the bucket of a key before the growth is where the entries of its bucket after
it come from. Growing once is enough (`PushCorrect`): three quarters of the old
capacity and one entry more fit in three quarters of twice it, even for
capacity 1. Loops are functions of the number of turns: `Iterate` shows such a
function exists, as sets of numbers instead of induction over a predicate, and
`CountUp` proves what holds after each turn (`PoppedCorrect` for the pop and
push of a bucket, `CopiedCorrect` and `CloneCorrect` for the two loops of
clone). The state's invariant `MapInv`: the table is good and not overfull, and
a value is under one key, or with the caller, or gone. It gives
`HashMapWellFormed` and `HashMapConserves`, and each step's effect on `Lookup`
is the refinement `HashMapIsMap`.

**Processes** (`ProcessProofs`). `ProcInv` has three parts. `ChildOK`: a child
that has neither run its program nor failed to still has the write end of the
report pipe, so that the end of that pipe means something. `CallOK`: how far
spawn came says which ends are open. `IdsOK`: children that are not reaped have
different ids, and a child reaped by another than its own first wait was so
after somebody used a `Child` again. From them follow `ProcessSpawnAnswers` and
`ProcessWaitReportsOwn`.

Only model-checked: liveness (`AnalysisEnds`, `LastOwnerFrees`,
`Terminates`, `CallsReturn`, `QuietEditHeals`), which is out of this prover's
reach; and where temporaries are dropped (`NoDanglingArgument`,
`TemporariesReleased`): `PromptDrops` computes dominators and derived sets by
recursive operators, and both properties hold of the families in the run but
not of every function (`flow_chained`, `LoopedViewFunctions`). For the same reason
that temporaries are not misused is checked and not proved. That a body is
lowered in `MaxSteps` steps is checked for each body (`CasesAreCompiled`), not proved. The type
invariants (`TypeOK`) hold at the bounds of the runs; they are not listed there
because they say nothing else, and those of the analysis, of Mutex, RwLock and
Arc are proved.

## What is not modelled

- In the analysis: pointers and what they alias (taint, `AliasedDrop`, freed
  locals, escaping borrows), enum payloads, indexing, unused and unreachable
  warnings. A drop that is moved ahead of an access through a pointer is
  therefore not seen.
- In lowering: match, for, closures, generics, operators, a block's trailing
  value, calls that never return. A store over a live value does not drop it, in the
  code as in the model: `AllReleased` and not `OwnedIsReleased` would count it.
- In std.sync: `into_inner` and the drop of a lock, which need a lock nobody
  else can reach; guards sent to another thread; the move of a lock after
  its initialisation.
- In std.process: Windows, `Stdio.Null`, arguments and environment, signals
  (an interrupted read of the report pipe, SIGPIPE), descriptors 0 to 2 handed
  out by pipe when a standard stream is closed, failing reads.
- In the language server: what checks and requests compute from a text, the
  symbol index, the content of the repair cache, several projects, a failing
  zora, running programs.
- HashSet (the table of HashMap with keys alone), List and the iterators;
  pointers that get and get_mut return, which later calls leave dangling.
- Failing allocations and failing thread creation, which panic.
- Pure passes (lexer to typecheck, layout, comptime) and wrappers of system
  calls, whose bugs are found on data.

## Plan

1. Done: the ownership analysis and the run of its result with its drops,
   lowering, threads and locks, the language server's documents and locks,
   std.process and HashMap, with the theorems above.
2. Next in lowering: match and for; next in proofs: `PromptDrops` with its
   rounds as functions, and the functions of which `NoDanglingArgument` is true.
3. The symbol index of the language server, aliases and taint on top of
   `FlowExec`, the include graph of resolve.
