# Verification of openshmem_rs

`openshmem_rs` gives Rust programs the OpenSHMEM API: a set of processing elements (PEs),
usually one process each, that share memory by having *symmetric* heaps. An object lives at
the same address on every PE; collective calls create and destroy it on all of them, and a
PE reads, writes and updates the copies of the others one-sidedly.

The crate is thin, and what it promises lies in the order of things: what a constructor does
before and after the library's barrier, when a drop makes a collective call, who still has an
operation in flight. That is what these TLA+ modules are about. The OpenSHMEM library itself
is C code outside the repository; it is modelled by what the crate relies on and marked
`external` in `PROJECT.json`.

## The system

| Part | State | Operations | Interacts with |
|---|---|---|---|
| Context (`src/lib.rs`) | a `Once` flag, the library's state | `init`, drop/`finalize`, queries | everything borrows it, so that it is dropped last |
| Symmetric heap (`src/shmalloc.rs`) | a heap per PE, the addresses in the `Shbox`es | `shbox`, `array*`, drop | each construction and drop is a collective call with a barrier |
| Collectives (`src/lib.rs`) | who has reached which barrier | `barrier_all`, `finalize` | completes the caller's remote operations |
| Atomics (`src/atomics.rs`, `src/macros.rs`) | remote integers | `atomic_*` | uses the PE's own address of a box on another PE |
| RMA (`src/lib.rs`, `src/shmalloc.rs`) | views with a buffer, puts on their way | `write`, view drop, `write_from`, `read`, `read_into` | ranges through `apply_range_bounds` |
| Non-blocking reads (`src/nbi.rs`) | pending buffers | `read_nbi`, `get_single_nbi`, `quiet`, drop | `shmem_quiet` |
| Locks (`src/shmutex.rs`) | a lock word in a `Shbox` | `new`, `lock`, guard drop | symmetric heap |
| Reductions (`src/reduce.rs`, `src/macros.rs`, `src/lib.rs`) | a box as source and target | `reduce_*`, `collect` | symmetric heap, puts into the box |
| Waits (`src/wait.rs`, `src/macros.rs`) | none | `wait_until*` | boxes that other PEs update, `quiet` |

What is hard about it, and hard to test on the usual two PEs of one machine:

* *Interleaving.* `shbox` stores the first value after the allocator's barrier, when other PEs
  may already be updating the copy.
* *Ordering.* Updates and puts return before they arrive; only a barrier (or quiet) of their
  sender completes them, and a chunk may be reused meanwhile.
* *Symmetry.* Nothing checks that an address means the same on another PE. It does if all PEs
  make the same calls, in the same order, with heaps in the same state.
* *Exhaustion.* The heap has no room: `shmem_align` returns null and `Box::new_in` aborts.
* *In place.* A reduction has the same box as source and target, and PEs leave it at different
  times.
* *Partial failure.* A PE that returns early through `?` drops its boxes, each with a
  collective call that the others take for theirs.
* *Boundaries.* Half-open ranges become inclusive ones and counts again.
* *Check, then act.* `init` looks at a flag and sets it later.

`PROJECT.json` lists each hazard at its line with the properties that cover it.

## The modules

**`SymmetricHeap`** is the core. Each PE runs the same `script` of collective calls;
`at` is its place in it and `pc` the stage it has reached in the current call:

    run --Enter*--> quiet --Arrive--> barrier --Leave--> init --StoreInitial--> run
                                                     \-> free --Release-------> run
                                                     \-> run | end | aborted

* `EnterAlloc` is the call of the allocator by `shbox` and the array constructors. It takes a
  slot that is `Place` of the PE's heap: the model does not say which one, only that the
  allocator is a function of the heap. The chunk keeps its old contents (`shmem_align`) or is
  zeroed (`shmem_calloc`). `StoreInitial` is the rest of the constructor behind the barrier.
* `EnterFree` and `Release` are the two halves of `deallocate`, before and after the barrier of
  `shmem_free`. `EnterBarrierAll` and `EnterFinalize` are `barrier_all` and the context's drop.
* `Arrive` waits until the PE's own updates are complete, and `Leave` until all PEs have
  arrived; `Return` is what each call does then, the null check of `allocate` included.
* `AtomicInc` issues an update with the issuer's address of the box, between two collective
  calls; `Deliver` applies it at that address of the target, in any order.
* `mem` counts updates: the first value is 0, and a value is all there is to say about a box.
  `applied` is a history variable with the number of updates that reached each copy.
* `Programs` is the set of scripts. `WellFormed` says what Rust's ownership rules leave of them: a box
  is constructed before it is dropped, once. `Fenced` restricts updates to boxes that have been
  followed by one more collective call of the issuer (`Published`), as in `examples/atomic.rs`.

**`ObjectStore`** is the abstract specification: copies of objects without addresses, chunks,
messages or barriers. **`HeapImplementsStore`** has the refinement mapping: a copy's value is
what lies behind the address its PE has, from the store of its first value to its release.

**`EarlyExit`** adds to `SymmetricHeap` a PE that leaves `main`, between two calls (`ExitEarly`) or
because the closure of `array_gen` panics (`PanicInGen`): the rest of its script becomes the drops
of its live boxes in reverse order, and the context's.

**`RangeBounds`** has `apply_range_bounds` and what a Rust range denotes. **`ArrayView`** uses it
in the remote accesses to an array: `Write` makes a view, `Store` is an assignment through
`DerefMut`, `Drop` puts the buffer with the range applied a second time, `WriteFrom` and `Read`
are the slice operations, and the `*Panics` actions their panics. Cells past the array belong
to the next object of the heap. Puts travel one element at a time.

**`CtxLifecycle`** has `init` in its atomic steps (check, `shmem_init`, `call_once`), the use of
the library through a shared context, and the drop, for the threads of one process.

**`Shmlock`** follows a lock from its collective construction to its collective drop:

    new -> align -> store [-> fence] -> idle -> wait -> held -> read -> written -> idle
                                         \-> free -> done

* `New`, `Aligned` and `StoreZero` are `Shmlock::new`: the 0 is stored behind the barrier of
  `shmem_align`, in a chunk with whatever value it had. `Fence` is a `barrier_all`, present if
  `Fenced`, as in `examples/lock.rs`. `DropLock` and `Freed` are the drop of the `Shmlock`, after
  which the word may take any value.
* `Lock` and `Acquire` are the call and the return of `lock`, `DropGuard` the drop of the guard
  (`shmem_clear_lock`, which completes puts first).
* `Read`, `WriteFrom` and `Deliver` are an update of remote data under the guard.

**`Mutex`** is the abstract specification of it: who waits and who holds.

**`Nbi`** has the non-blocking reads. `ReadNbi` and `GetSingleNbi` make a handle with an empty
buffer and put elements on their way; `Deliver` brings one; `Change` changes the source.
`EnterQuiet` takes any set of handles and `ReturnQuiet` unwraps them. `DropHandle` panics, frees
the buffer, and aborts if unwinding meets a second handle; `ReadPanics` does the same from a
range or index out of bounds.

**`Collectives`** has the seven reductions over elements of `Width` bits (`ArithmeticInto`,
`BooleanInto`, `CompareInto`), for a single value or an array (`Size`). All PEs run one `script` of
reductions, assignments, puts and barriers:

    fill --Fill--> run --EnterReduce, EnterBarrier--> in --Leave--> run
                   run --Assign, WriteFrom--> run

* `EnterReduce` hands in the array, `Leave` stores the result over it: between the two lies all
  that other PEs do. A barrier waits for the caller's puts, a reduction does not.
* `Separated` is what a program must do to mix puts and reductions: a barrier on either side of
  each put. Without it the crate (and OpenSHMEM) promises nothing.
* `InLockStep` is the reference: the arrays as a function of the number of calls alone.

**`Collect`** is `ShmemCtx::collect`, call by call: the allocation and store of the length, the
reduction, `shmem_collectmem` with the size the code passes, the drop.

**`Signals`** has the remote atomics and the waits. Senders update a word on the home PE in
one of three ways (`kind`): they count (`AtomicAdd`, `AtomicFetchAdd`), claim it
(`AtomicCompareSwap`, `AtomicSet`, swap), or keep a bit each (`AtomicBit`). An atomic that fetches is applied
when it returns (`Fetch`), one that does not is on its way (`Post`, `DeliverUpdate`).

After a `Quiet` a sender puts flags with the number of its round (`Raise`). `write_from` replaces the
first elements of an array, so that senders cannot share one: each has an array of its own, of which
`Slice[r]` elements are replaced in round `r`, and they arrive one by one (`Put`, `DeliverFlag`). A single
value, which `wait_until` takes, cannot be written by `write_from`; a sender stores to it through the pointer
of `try_ptr` (`Mark`). The home calls one of the waits on what a sender writes (`EnterWait`), which
returns with `WaitUntil` (the single value), `WaitUntilAll`, `WaitUntilSome` or `WaitUntilAny` (the array).

**`Words`** has what `Collectives` and `Signals` share: powers of two, the bits of a number, the
number with given bits, and products. They are recursive functions and folds, so that they can be
proved about.

The `*_proofs` modules hold the theorems. The `MC*` modules give instances for TLC and the programs of
the examples. A definition called a *mutant* in its comment is no part of a specification: it is the
named action with a plausible mistake, kept to show that a property notices it.

## The runs

| Run | Checks | Shows |
|---|---|---|
| `heap` | `TypeOK`, `SymmetricBox`, `NoStrayUpdate`, `NoLostUpdate`, `BarrierFlushes`, `UnanimousOutOfMemory`, `NeverStuck`, `ImplementsStore`, `Termination` | 2 PEs, all programs of up to 5 calls over 3 boxes, 2 slots, 1 update per PE |
| `heap_unfenced` | `NoLostUpdate` | *violated*: the program of `examples/estimate-pi.rs` |
| `early_exit` | `MatchedCollectives` | *violated*: `examples/mandlebrot.rs` when its file cannot be created |
| `view` | `TypeOK`, `Settled`, `ReadsWhatWasWritten` | 2 PEs, 3 elements, bounded ranges that start at 0 or 1, ranges that panic |
| `view_drop` | `DropCopiesBack` | *violated*: the view over `4..8` of `examples/hello_world.rs`, scaled to `2..4` |
| `ctx` | `OnlyContext`, `ContextMeansLive`, `InitOnce` | 4 threads, started after the first `init` |
| `ctx_race` | `OnlyContext` | *violated*: two threads call `init` at the same time |
| `lock` | `TypeOK`, `MutualExclusion`, `NoLostUpdate`, `WordOutlivesUse`, `NeverStuck`, `ImplementsMutex`, `EveryLockReturns` | 3 PEs, two locks each, a stale word |
| `nbi` | `TypeOK`, `ReadsInWindow`, `TargetsExist`, `NoReadForgotten`, `QuietReturns` | 1 reader, 2 sources, 2 elements, 2 reads |
| `collectives` | `TypeOK`, `AsIfInLockStep`, `NoPutMeetsReduction`, `NeverStuck`, `Termination` | 3 PEs, 2 elements of 2 bits, every two reductions in a row, all programs of up to 5 calls with sums |
| `collect` | `CollectsEverything` | *violated*: 2 PEs with 2 elements each |
| `signals` | `TypeOK`, `WokenMeansUpdates`, `TicketsUnique`, `Counted`, `OneClaim`, `OwnBitKept`, `LatestFlag`, `WaitReturns` | 2 senders, a word of 2 bits, 2 atomics of one and 1 of the other, 2 slices each, arrays of 2 flags, a wait of each variant |

*Bounds.* Two PEs have an issuer, a target, and one that is ahead of the other; the proofs below cover
every number of them. Three boxes in two slots make all interesting cases of the heap happen: a box
that gets the slot of an earlier one, a full heap, and a heap that is full only in some programs; five
calls are enough to construct, drop, construct again, pass a barrier and finalize. An array of three
elements has a first, an inner and a last one, and ranges that touch either end or neither
(`SafeRanges`). Symmetry reduction over PEs is used in `view` only, which checks no liveness; no
definition there tells PEs apart. In `ArrayView` a PE makes one write and one read; the `room` of a
`read_into` goes from none to one more than the array. In `Shmlock`, Home is one of three PEs, so that
two others contend while it is ahead or behind, and the second lock of a PE meets the put of its
first. In `Nbi` the reads of different PEs share only their source, so one reader is enough; two reads
make quiet take one, both or none, and one change per element makes old and new values differ. In
`Collectives` three PEs let one be a reduction ahead of the slowest while a third is between them (a
PE cannot be two ahead), two bits make sums and products overflow, and five calls have room for a put
with its two barriers and reductions around it. In `Signals` a word of two bits wraps around within
the three increments, of 1 or 2 each, that the two senders can issue, and has a bit or a
number for each of them (`Fits`); the sender with two atomics can give back what it has claimed while
the other claims. Two rounds make an old flag and a new one differ; the
slice of the first has one element and that of the second both, so that an array is seen half
replaced, with flags of two rounds in it.

*Deadlock* is checked except in the runs of `ArrayView` and in `collect`: a PE that panicked leaves
the others at the barrier, one that has read has nothing left to do, and `collect` stops where the
call returns. In `SymmetricHeap` and `Collectives`, `Done` lets PEs that have all stopped stutter, so
that a PE that waits for ever is found. For `SymmetricHeap`, `Shmlock` and `Collectives`, `NeverStuck`
says the same as an invariant, so that it can be proved for every number of PEs: before the program is
over, something is on its way or the guard of a PE's next step is true (`CanGo`). In `Signals` the
home can call a wait whenever it is in none, so that a deadlock is a wait that cannot return.

*Fairness* (`heap`) is weak fairness of each PE's calls and of the delivery of its updates: the PEs
are processes of an operating system that schedules all of them, and the library makes progress on
what has been issued. No fairness is assumed of `AtomicInc`, which is the program's choice. The same
holds of `Shmlock` (`lock`), where `Lock` is the choice, and of `Nbi` (`nbi`), where only the
library's deliveries and the return of quiet are fair. In `Collectives` each PE goes on with its
script and puts are delivered. In `Signals` each sender goes on with its program, which ends with a
slice as long as the array (`SliceAssumption`) and its store to the single value; deliveries go on, and a
wait looks at its flags again: `WaitReturns` is about conditions that the last round satisfies
(`WaitsAssumption`). A condition that holds for a while only,
in between, may be missed, and nothing is claimed of it. A lock is granted to any of the waiting PEs:
that every call returns rests on the bound `Rounds`, since the others stop asking, not on an order
among them.

## What the runs found

* `examples/estimate-pi.rs` counts hits on PE 0 with no barrier between `shbox` and the first
  `atomic_inc`. The barrier inside `shmem_align` is too early: PE 0 stores the first value behind
  it and can overwrite hits. `examples/atomic.rs` has the barrier. `NoLostUpdate` holds for every
  program that has one more collective call in between (`Fenced`), and the proof shows that it
  is enough.
* A PE that leaves `main` through `?` does not stop the others: its drops answer their barriers.
* `apply_range_bounds` is exact for ranges with an end inside the array, one too long without
  an end (and `0..len + 1` passes its check), and its second application in the drop of a view
  panics unless the range starts at 0 or 1.
* `collect` passes the sum of all lengths as the length of each PE's own part
  (`src/src/lib.rs:432`). With two PEs of two elements each, four elements are taken from each, the
  last two from behind its part, and eight are stored in a buffer of four.
* `Shmlock` has the race of `estimate-pi` too: a PE can take the lock on a stale 0, and a second one after
  Home's late store. The mutant `StoreUnfenced` of the run `lock`, which leaves the barrier out, shows it.
  `examples/lock.rs` has barriers before the first `lock`, and `LockIsMutex` shows that one is enough.
* The drop of a pending read frees its buffer while elements are on their way to it. `TargetsExist`
  bounds the damage where a panic ends the PE: then the PE is unwinding. A panic that is caught, or that ends
  a test thread only, would leave the PE running with such a buffer; that is not modelled.
* `init` can succeed twice when two threads call it together.

Observations from reading the code, which no run is about:

* `read` over `..` (`src/examples/mandlebrot.rs:75`, `src/src/test.rs:65`) returns an element of the
  next object of the heap; `UnboundedEndOverruns` proves it of every length.
* The buffer of a new view is uninitialized memory (`src/src/lib.rs:532`), while the doc (lines 511-512)
  says that it is a copy of the local array and `src/src/test.rs:66` reads it.
* `team_n_pes` (`src/src/lib.rs:348`) calls `shmem_team_my_pe`.
* `pe` narrows its index to the type of `PE` before it checks it (`src/src/lib.rs:387`).
* The boolean and compare `*_into_many` (`src/src/macros.rs:69-86, 113-124`) lack the assertion of `n`
  that the arithmetic ones have (lines 24, 31); the safe wrappers pass `len()`.
* `write_from` has no offset: senders that put flags into one array overwrite each other's first
  element. The other way to single elements, a view over `s..=s`, panics in its drop from `s = 2` on
  (`src/src/shmalloc.rs:244`, the run `view_drop`).
* `try_ptr` (`src/src/lib.rs:232`) returns `Ok` for the null pointer that `shmem_ptr` gives of a PE whose
  memory cannot be reached.
* `Waitable` has no safe wrappers although its doc refers to them (`src/src/wait.rs:27`), and
  it is implemented for integers, not for the `Atomic` that `Signals` would like to wait for.
* The target of `shmem_collectmem` is a `Box` of the process, outside the symmetric heap
  (`src/src/lib.rs:423-430`).

## What is proved

`SymmetricHeap_proofs` proves for all finite or infinite sets of PEs, boxes and slots, all
allocators that are functions of the heap, and all well-formed programs: `TypeOK`,
`SymmetricBox`, `NoStrayUpdate`, `BarrierFlushes`, `UnanimousOutOfMemory`, `NeverStuck`, and, for `Fenced`
programs, `NoLostUpdate`. The assumptions are the four named ones of the module.

The inductive invariant `IInv` is a conjunction of

* `TypeOK`, `SameProgram` (all PEs have the same script of `Programs`), `Stages` (a stage only
  occurs in the calls that have it);
* `InStep`: no PE has left a barrier that another has not reached. It gives `BarrierFlushes`
  together with `Messages`, and it is why two PEs are never two barriers apart;
* `Handles`: the boxes a PE owns, and their addresses, are what its calls so far have made of
  them;
* `Messages`: an update on its way was issued in the current interval of its issuer, at the
  address that the issuer still has in a box it still holds;
* `Log`: there is ONE sequence of heap states, computed from the script alone, such that the
  heap of every PE is the element of the sequence at the number of its executed heap
  operations, and its addresses are the ones of the sequence.

`Log` is the heart. `SymmetricBox` is not inductive: it says nothing of a PE that has not
allocated yet, or whose heap is another one than its neighbour's. Heaps of two PEs do differ
while one is ahead; that they go through the same states in the same order, and that a box
is held only while every PE is between its allocation and its release (`HeldIsInUse`, by
`InStep`), is what makes an address good elsewhere. The log is built step by step under an
existential quantifier, because what the allocator does is known of the calls that have been made
only: a PE that executes an operation as the first extends it (`LogExtends`), and every later one finds
its heap in the state the first found and so gets the same slot (`LogFollowed`).

`UpdatesCounted` adds `Counted`: a copy that is not constructed has received nothing, and an
owned one holds what it received. `Published` and `InStep` make every target have constructed
its copy when an update arrives; `SymmetricBox` keeps the store of a first value away from
other boxes.

`NoDeadlock` (`NeverStuck`) rests on `InStep` and `UnanimousOutOfMemory`. If a PE waits at a barrier
that another has not reached, that other can go on: it has neither ended nor been aborted, and if it
waits too, then at the barrier before, which everybody has reached. The attempt to prove it showed
that `WellFormed` was too weak: a program could drop a box that it never constructed, and be stuck
there. The condition stood in the instance for TLC only; it is now where it belongs.

`HeapIsStore`, in the same module, says for `Fenced` programs that `SymmetricHeap` implements
`ObjectStore`: `StoreInitial` constructs a copy, `Deliver` updates the one that the updater means,
`EnterFree` drops a PE's hold of the box, the release of the chunk retires the copy when nobody holds the box
any more, and all other steps stutter. On top of `IInv` it needs `Kept`: a PE that has made a box and
not freed it has its copy, so that an update finds one on every PE.

`ArrayView_proofs` proves for arrays of every length that bounded ranges inside the array are exact,
that ranges without an end overrun, and which views can be dropped. With `ExactRanges` (each range
that is accepted has a bounded end in the array) it proves `TypeOK`, `Settled` and
`ReadsWhatWasWritten` of `ArrayView`: `Stored` says that each cell has its first value, one that was
asked for, or one on its way, `Asked` that each put on its way was asked for, `Over` that once a PE
reads nothing is on its way and nobody writes.

`Collectives_proofs` proves `NoPutMeetsReduction` for every number of PEs and every `Separated`
program: the source of a put is between its two barriers (`PutsPlaced`), and nobody is past a
collective call that another has not reached (`Together`), so that everybody else is between them too.

It proves `TypeOK` for every width: sums and products by their modulus, the boolean reductions because
the number with a set of bits below `Width` is below `2^Width`, the largest and smallest element
because every PE's set of elements is finite and not empty (`Extremum`).

`AsIfInLockStep` needs the invariant `StepInv`. A PE's array is what `InLockStep` says when nothing
that others do to it can be under way, which is when the PE is not next to a put (`Certain`,
`Follows`). What it has handed to a reduction is what it hands over in lock step (`Given`), so that
the result is. Next to a put, an element is either on its way or has its final value (`Putting`,
`Open`), and what is on its way carries the value of its source in lock step (`Carried`). Each time a
PE leaves the barrier behind a put, nothing of the put is on its way any more, and its array is
certain again.

`NoDeadlock` (`NeverStuck`) follows from `Together` in the same way as that of the heap from `InStep`.

`CombinedInAnyOrder` is about the definitions of the seven reductions: the model reduces the elements
of all PEs at once, and takes sums and products modulo `2^Width` at the end, while a library combines
two at a time (`Combine`), in an order and grouping of its own, and wraps around each time. It comes
to the same (`SplitReduction`): a reduction over some PEs is the combination of those over any two
parts of them.

`Signals_proofs` proves all invariants of `Signals`, for every number of senders, rounds and atomics, and
every width; each has an invariant of its own:

* `WokenMeansUpdates`: no update is older than a flag of its sender, in the array, on its way or in the single
  value (`Behind`), since `quiet` stands between the two (`Known`) and updates on their way are of their
  sender's current round (`Current`); what the last wait told of is among them (`Told`).
* `LatestFlag`: `quiet` also stands between two slices of a sender, so that only elements of its last one are
  on their way. An element that is not has the number of the last round whose slice reached it (`Latest`,
  `LastReplaced`), whatever the lengths.
* `OneClaim`: the word is claimed by a holder or by a `set` on its way, never by two (`Claimed`).
* `TypeOK`: additions wrap around, a mask is a number of `Width` bits, and a claim one that the word
  can hold (`Fits`).
* `Counted` and `TicketsUnique`: what was given is what has landed in the word and what is on its way
  (`Landed`, `Due`); the word is what has landed modulo `2^Width`, and all tickets are below it as long as
  it has not wrapped around (`Accounted`).
* `OwnBitKept`: an update with the mask of a sender changes its bit and no other (`MaskEffect`), and a sender
  has one on its way at most (`OwnBits`).

`Words_proofs` has what these proofs and those of `Collectives` need of numbers: that a set of numbers
with 0 and the successor of each of its members has all of them, and a set of sets with the empty one
and each one extended by an element has all finite ones (`NaturalsInduct`, `SubsetsInduct`); that a
recursive function on the numbers is what it is defined to be (`Recursion`); and, from these, how sums
and products over a finite set split (`SumFolds`, `SumUnion`, `ProductFolds`, `ProductUnion`), modular
arithmetic, powers of two, and that `Bit` gives the bits that `Number` was made of (`NumberBits`,
`BitsNumber`). Induction is over a set, which every prover can be given, instead of over a predicate.

`Nbi_proofs` proves `TypeOK`, `ReadsInWindow`, `TargetsExist` and `NoReadForgotten`: what has
arrived in a buffer is a version from between the read and now (`Windows`), elements are on
their way for pending reads only, unless their PE unwinds (`Aimed`), and a read has a result,
is pending, or its PE has panicked (`Remembered`).

`CtxLifecycle_proofs` proves `OnlyContext`, `ContextMeansLive` and `InitOnce` for every set of
threads, if the others start after the first `init` has returned: before the flag is set only
the first thread exists, and after it nobody passes the check.

`Shmlock_proofs` proves, for every set of PEs, every number of locks and `Fenced` programs, `TypeOK`,
`MutualExclusion`, `NoLostUpdate`, `WordOutlivesUse`, `NeverStuck`, and that the lock implements
`Mutex` (`ImplementsMutex`). Its invariant has `Barriers` (nobody is past a barrier that another has
not reached), `Owner` (the PE with the guard is the one in the word) and `Counted` (what the PE in its
section knows of the counter). The first makes the late store of the 0, and the release of the chunk,
harmless to the second. `NeverStuck` needs `Answered` besides: between Home's store of the 0 and its
release of the chunk, a word that is taken names a PE in its section, and that PE can go on. It does
not say that a certain PE gets the lock: that is `EveryLockReturns`.

*Model-checked only:* `Termination` (of `SymmetricHeap` and `Collectives`), `EveryLockReturns`,
`QuietReturns` and `WaitReturns`, since liveness and ENABLED are out of the prover's reach. Every
other property of a passing run is proved. `NeverStuck` is the safety half of `Termination` and of
`EveryLockReturns`, `LatestFlag` that of `WaitReturns`. That `CanGo` is what enables a PE's step is
read from the definitions, and checked by TLC, which finds no deadlock in a state that satisfies it.

## What is not modelled

Queries without state, teams, `get_direct` (with the feature `rma` it does not type-check: `PE(self.pe)`
at `src/src/lib.rs:483` wraps a `PE`), `Allocator::grow` and `shrink`
(nothing calls them), formatting, the generated bindings, and the book's programs, which do not
use the crate. Weak memory order within a PE is the library's: updates are atomic and puts are
applied element by element. `abort` of one PE ends it alone in the model; a launcher may kill
the others.

## Plan

1. Several test threads in one PE whose collective calls interleave (`src/src/test.rs`), once the
   test runner's order is fixed by the repository; a second call of `lock` by its holder.
2. `ForceAtomicFetch` as a cast on the words of `Signals`, and `Allocator::grow` when something calls it.
3. Proofs: that a barrier is needed for `OneGuard` and for `UpdatesCounted`, as theorems about every number of
   PEs; `NeverStuck` for `Nbi` and `ArrayView`.
