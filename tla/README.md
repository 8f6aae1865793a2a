# Verification of rtcBase

rtcBase is a trimmed copy of WebRTC's `rtc_base`: a thread with a message
queue (`rtc::Thread`), the pieces below it (events, platform threads, critical
sections, checkers) and small data structures used by media code. It has no
tests. This directory holds TLA+ models of the parts where the order of steps
matters, TLC instances of them, and TLAPS proofs. All paths are relative to
`src/`.

## The system

| component | state | operations |
| --- | --- | --- |
| message queue of a thread (`thread.cc`, `thread_message.h`) | `messages_`, `delayed_messages_`, `delayed_next_num_` under `crit_`; `fPeekKeep_`, `msgPeek_` (no lock on the owner's side); `stop_` (atomic) | `Post`, `PostDelayed`, `PostAt`, `Dispose`, `Clear`, `Quit`, `Restart` from any thread; `Get`, `Peek`, `Dispatch`, `ProcessMessages` by the owner |
| socket server (`null_socket_server.cc`) and `Event` (`event.cc`) | one auto-reset flag | `WakeUp`/`Set`, `Wait` with or without a time-out |
| `Send` (`thread.cc:768-1015`) | `ready`, `waited` and `done_event` of the caller; `send_graph_` of `ThreadManager` (debug builds) | `Send`, the answer of `QueuedTaskHandler`, `RegisterSendAndCheckForCycles` |
| life cycle (`thread.cc`, `platform_thread.cc`) | `thread_ref_`, `owned_`, `stop_`, the handle and the checkers of `PlatformThread`, the thread-specific current thread | constructor, `Start`, `Quit`, `Stop`, `Join`, destructor, `WrapCurrent`, `UnwrapCurrent` |
| `ThreadManager` (`thread.cc:38-152`) | `message_queues_`, `processing_`, a recursive `crit_` | `Add`, `Remove`, `Clear`, re-entered from destructors of payloads |
| `SwapQueue` (`swap_queue.h`) | slots, two indices, `num_elements_` (atomic) | `Insert` (producer), `Remove`, `Clear`, `SizeAtLeast` (consumer) |
| `RateStatistics` (`rate_statistics.cc`) | ring of buckets, accumulator, window | `Update`, `Rate`, `SetWindowSize`, `Reset` |
| `Event` (`event.cc`) | `event_status_`, manual or automatic reset, a mutex and a condition variable | `Set`, `Reset`, `Wait` with a time to give up and a time to warn |
| `CriticalSection`, `GlobalLock` (`critical_section.cc`) | a recursive mutex, its owner and depth again in debug builds; one word | `Enter`, `TryEnter`, `Leave`; `Lock`, `Unlock` |
| `RaceChecker`, `SequenceChecker` | access count and last thread, no lock; attached thread | `Acquire`, `Release`; `IsCurrent`, `Detach` |
| reference counts (`ref_counter.h`, `scoped_refptr.h`) | an atomic count per object, a pointer per `scoped_refptr` | construct, copy, move, assign, `swap`, `release`, destroy |
| C11 threads (`features/thread_c_inl.h`) | the block that is handed to a new thread, handles, priorities | `thrd_create`, `thrd_join`, `thrd_detach`, `thrd_exit`, `thrd_set_priority` |
| trace (`trace_impl_c.c`) | streams, filters, row counts and wrap offsets, no lock | `WebRtcTrace_Add`, `WebRtcTrace_SetOStream`, `WebRtcTrace_set_level_filter` |
| `BitBuffer`, `BitBufferWriter` | bytes, a byte and a bit offset | reads, peeks, seeks and writes of bits, integers and Golomb codes |
| `BufferT`, `Optional`, `FileWrapper`, `aligned_alloc` | a block and its size; a value that lives or not; an open file; a header before a block | construct, copy, move, assign, swap, grow, release |
| numerics, time, random | none, or one word | casts, comparisons, clamp; calendar and `timespec` arithmetic; draws |
| checks, locations, macros | none of interest | |

How they interact: any thread puts a message into a queue under `crit_` and
then sets the event of its socket server; the owner takes messages under
`crit_`, calls the handler without it, and sleeps on the event when it found
nothing. A handler may call every one of these operations, on its own thread or
on others. `Send` is a `Post` of a `_SendMessage` to the target, followed by a
wait on the caller's *own* event, so that one flag announces both messages and
answers. `ThreadManager` knows all threads and, in debug builds, who ever sent
to whom.

What is hard here: the owner looks at the queue and sleeps in two steps, and so
do posts publish and wake; `stop_` and the peeked message are touched without
the lock; `ready` is written under one lock and read under another; payloads
are raw pointers that change hands on every path; timers, wake-ups and time-outs
race; the ring's slots, the race checker's count and the trace's rows are plain
memory that threads share; the data types manage blocks, files and lives by
hand, at the limits of their integers. `PROJECT.json` lists each hazard at its
line with the properties that cover it.

What makes the components correct:

* queue: every payload has one owner and is deleted at most once; nothing is
  slept through; posts of the same kind and due time are delivered in order;
  timers are not early; after Quit ready messages are delivered first; the loop
  ends;
* Send: the handler has run when it returns; no answer and no post is slept
  through; it returns; no circle of waiting threads;
* SwapQueue: exclusive slots, no item lost or copied, bounded FIFO;
* life cycle: at most one OS thread per `Thread`, `Join` returns after `Run`,
  a stopped object has no thread, nobody points to a deleted object, `Stop`
  returns and `Quit` is obeyed;
* ThreadManager: Clear leaves no message for the handler anywhere, the list does
  not change meanwhile, payloads are deleted once though they call back, and calls
  return (they need not: see `MCManagerClearOrder`);
* RateStatistics: the rate is that of the samples in the window, whatever was
  asked before;
* Event: no waiter sleeps over a signal, a signal of an automatic event releases
  one waiter, and Wait gives up at its time, whatever the warning;
* locks exclude and know their owner; checkers give no false alarm and confirm
  one thread; a counted object lives as long as a reference to it; the block of
  a new thread is freed once;
* trace: the first lines of a stream stay, the others are the newest;
* data: what is written is read back, a block, a file or a value has one owner
  and is released once, and integer arithmetic gives the number it should.

## Modules

| module | models |
| --- | --- |
| `MessageQueue` | one `rtc::Thread` as a queue: `thread.cc:251-564, 1028-1055`, with `DelayedMessage`, `Message::Match`, the event and the clock |
| `Mailbox` | the abstract specification of the queue: an ordered inbox and a set of timers |
| `ThreadSend` | several threads that `Send`, `Post` and `Quit` each other: `thread.cc:119-137, 290-301, 359-433, 768-1015` |
| `SwapQueue` | `swap_queue.h`, one step per access of shared memory |
| `Fifo` | the abstract specification of `SwapQueue`: a bounded FIFO queue |
| `ThreadLife` | the life of several `Thread` objects and of the threads they spawn: `thread.cc:154-305, 649-766, 1057-1098`, `platform_thread.cc:63-136`, `sequence_checker.cc` |
| `ManagerClear` | `ThreadManager::Clear` with everything it calls and everything that calls it back: `thread.cc:38-152, 251-284, 502-549, 1028-1033`, `critical_section.cc:20-86` |
| `RateStatistics` | `rate_statistics.cc` |
| `Event` | `event.cc:60-177`, the pthread build |
| `Signal` | the abstract specification of `Event`: a flag, deadlines and a clock |
| `CriticalSection` | `critical_section.cc`, on the recursive mutex of `thread_c_inl.h` |
| `Checkers` | `race_checker.cc` and `synchronization/sequence_checker.cc` |
| `RefCount` | `ref_counter.h`, `ref_counted_object.h`, `scoped_refptr.h` |
| `ThreadNames` | the names of threads and objects that `ThreadLife` is about |
| `Threads` | `features/thread_c_inl.h:27-124, 239-285` and `ThrdEqual`, with what `PlatformThread::Run` does first |
| `Trace` | `trace_impl_c.c`, the POSIX build |
| `BitBuffer` | `bit_buffer.cc` |
| `Buffer` | `buffer.h` |
| `OptionalValue` | `features/optional.h` |
| `FileWrapper` | the ownership in `system/file_wrapper.cc` |
| `AlignedMemory` | `aligned_alloc` and `aligned_free` (`features/align_c_inl.h`), `memory/aligned_malloc.cc` |
| `TimeUtils` | `TmToTime`, `TimespecAfter` (`time_utils.cc`), `features/time_c_inl.h:4-26` |
| `Numerics` | `numerics/safe_conversions_impl.h`, `safe_conversions.h`, `safe_compare.h`, `safe_minmax.h` |
| `Random` | `random.h:38-73`, `random.cc:19-66` |
| `Sync` | composition of the small components that threads share: the ring, the event, locks, checkers, references, spawned threads, trace streams |
| `Storage` | composition of the components that own storage for one thread: `Buffer`, `OptionalValue`, `FileWrapper`, `AlignedMemory` |
| `MCMessageQueue`, `MCThreadSend`, `MCThreadSendBuilds`, `MCManagerClear`, `MCSync`, `MCData`, `MCTrace` | values of the constants for TLC |
| `MCLifeAndClear` | `ThreadLife` and `ManagerClear` side by side, for TLC |
| `Data` | composition of `Storage` and the other components that one thread owns: `RateStatistics`, `BitBuffer`, `TimeUtils`, `Numerics`, `Random` |
| `Powers` | powers of two as a recursive function, for the shifts and widths of `BitBuffer`, `Numerics` and `Random` |
| `MessageQueueProofs`, `ThreadSendProofs`, `ThreadLifeProofs`, `ManagerClearProofs`, `SyncProofs`, `StorageProofs`, `BitBufferProofs`, `DataProofs` (the rest of `Data`) | theorems and proofs |

The modules are projections of one program: `MessageQueue` is one object seen
from inside, `ThreadSend` several of them with a coarser queue, `ThreadLife` the
objects without their queues, `ManagerClear` the queues without posts. What one
takes for granted another one checks: `MessageQueue` relies on at most one owner
at a time (`StoppedIsStill`, `LifeOneCurrent`), `ThreadLife` on a loop that ends
after Quit (`QuitEndsLoop`), both on an event that loses no signal
(`ImplementsSignal`), and all of them on locks that exclude (`LocksExclude`).

`Sync`, `Storage` and `Data` put small components side by side: `subject` names, for a
whole behaviour, the one that moves, and the others stay in an initial state.
They do not interact there; where they do, the interaction is in the larger
modules (the event and the locks of `MessageQueue`, `ThreadSend` and
`ManagerClear`, the checkers and the start of threads of `ThreadLife`).

A definition with the comment "Mutant" is a variant of the one below it with a
plausible mistake, which makes one of the properties false; no specification
uses it.

### MessageQueue

Variables carry the names of the members. `crit_` is the thread inside a
section that takes several steps, `event` the flag of the socket server's
event, `call[t]` the call a thread is in (a post before its critical section,
a post or Quit before its `WakeUp`, a Clear in its loops), `wpc` where the owner
is: `get` (entry of Get), `takepeek`, `scan` (before `crit_`), `fire` (the loop
over due timers), `pull`, `got` (a message in hand), `quitcheck`, `wait`,
`false` (Get returns false), `dispatch` (inside OnMessage), `exited`,
`destroyed`. `get` and `loop` are the locals of Get and ProcessMessages.

A call is split wherever another thread can act: Post is the test of `stop_`
(`Post`), the section (`Enqueue`) and `WakeUp`; ClearInternal is one step per
message it removes, under `crit_`; Get is split at the unlocked read and
write of the peek, the section of the scan, the test of `stop_`, and the wait.
`PostBegin` serves Post, PostDelayed and PostAt; a `Dispose` is a post for
`NoHandler`. `posted`, `deletes`, `removed`, `delivered` and `log` are history.

What the callers are assumed to do, because the code asks it of them: only the
owner calls Get, Peek and ProcessMessages; nobody calls a queue that is being
destroyed; a handler is destroyed on the owner's thread, after Clear when
`ClearFirst`, and never while a post for it is in progress; `ProcessMessages`
gets 0 or `kForever` (`thread.cc:1039`).

Left out: `posted_from`, message contents, `dispatch_warning_ms_`, and
`GetDelay`, `size`, `empty`, which read only. Handler and id are one value.
The 64-bit times do not overflow; the cast to `int` in Get does (`IntMod`).

### ThreadSend

Threads that all run `ProcessMessages(kForever)` and make their calls from
handlers, and outsiders, which wait on an `Event`. Each member of `Calls` is one
call that may be made once, with its kind, caller and target. `pc` is where an
actor is, `making` the call it makes, `serving` the message it has in hand. The
handler's answer locks the *caller's* `crit_` over two steps (`AckReady`,
`AckWake`), while the caller polls `ready` under the *target's*
(`ReadyCheck`). `Checked` distinguishes debug builds, where Send aborts on a
quitting target or a cycle (the step is then not taken), from release builds,
where it drops the call. The C++ program races on the plain `bool ready`; the
model lets a read see either the old or the new value, as it happens between two
steps. Timers, peek and Clear are not repeated here.

### SwapQueue

`Insert` is the load of `num_elements_`, the two halves of the swap, the
`fetch_add` and the move of the index; `Remove` likewise; `Clear` is the
exchange and the move. The acquire and release orders justify taking these in
program order; the relaxed exchange in Clear touches no slot. Bottles are
tokens, `content` says what each was last filled with.

### ThreadLife

`Workers` are the operating system threads that objects spawn, one per start;
`Programs` those of the program. Any of them makes calls, a worker from its
handlers, so that objects can be built, stopped and deleted from handlers of
others. `step[p]`, `on[p]` and `deleting[p]` are the call p is in: `create` and
`created` around `PlatformThread::Start`, `stop`, `join`, `wait` and `joined`
inside Stop and Join, `destroy` before DoDestroy. `worker[w]` follows
`PlatformThread::Run` and `Thread::PreRun`. Start, Stop and the destructor are
called by the builder of the object (`thread_checker_`) and not on the object
the caller runs on; Quit may come from anywhere while the object is not being
deleted. Join's call of `Current()` wraps the main thread when nobody has. The
message loop is the one condition of `RunEnd`: it ends when `stop_` is set and
no handler runs.

Left out: priorities and names, the socket server, and PlatformThread's loop
without a run function, which Thread never uses. The checkers, and thus
`CheckerFits`, are those of debug builds.

### ManagerClear

A thread is a stack of calls, because deleting a payload may call
`ThreadManager::Clear` in the middle of the loop that deletes it. One step is
one section, one element of a loop, one `delete`. The two kinds of critical
section are recursive locks with owner and count. The contents of the queues
are given; nobody posts. `Reenters` says which handler a payload's destructor
clears.

### RateStatistics

A record holds the members, each method is an operator on it, and the state is
one object, a twin that is never asked for its rate, and the samples as they
were given. `IntMax` is the width of `int64_t`; the float division is exact and
the scale a whole number, so that rounding is `\div`.

### Event, CriticalSection, Checkers, RefCount, Threads

`Event`: what a thread does under `event_mutex_` is one step; inside
`pthread_cond_wait` it is `asleep`, and returns for a broadcast, at its deadline
or spuriously. The two calls of the lambda `wait` are the stages `warn` and
`give_up`. A waiter that has passed its deadline may be overtaken by a `Set`:
the first stage then looks again, the second returns false although the event
is signaled, as the code does.

`CriticalSection`: the mutex and the copy of owner and depth that debug builds
keep are changed in separate steps, in the order of the code. Scopes are left
as often as they are entered, which `CritScope` guarantees.

`Checkers`: `RaceChecker` is racy by design, so its increment and decrement are
a load and a store each. `overlapped` and `intruded` are history: that two
threads were inside at once, and who came as the first to others that stayed.

`RefCount`: the counter is atomic; a `scoped_refptr` belongs to one thread and is
handed to another by a move. An assignment is three steps (count up, count
down, store) between which other threads act. A pointer whose call has given
its object up and not yet stored no longer counts as a reference.

`Threads`: `thrd_create` allocates the block, makes the thread, and gets the
handle, which may be after the new thread has run; the block is freed by the
wrapper in the new thread, or by the creator when there is none. `thrd_equal`
answers 1 for *different* threads, against the comment above it
(`thread_c_inl.h:52`), and `ThrdEqual` negates it: `SpawnIsSound` states what
the two give together. `thrd_set_priority` fails where the policy has no range,
as `SCHED_OTHER` on Linux, and `pthread_setschedparam` may fail as well;
`PlatformThread::Run` does not look at the result. `prioritized` has the
handles for which a priority was asked of the system, and the property is that
these are threads that know their own handle; that one is granted is not
claimed.

### Trace

Files are sequences of lines of one length; a line is its number among those for
the file. Every read and write of `row_count_text`, `wrap_offset` and
`handle_number` is a step, since nothing locks them, and each call of stdio is
one, since stdio locks itself. The lengths of the parts of a line are computed,
so that `StreamsShowNewest` can say that a line fits its buffer whatever the
message. Streams have different files and are registered before they are full.
`SetOStream` looks for room once, before it copies: when another thread takes
the last slot in between, the copy goes behind the array, undefined in C. The
model has one more slot there, which nobody else uses; no run gets so far.

### BitBuffer, Buffer, OptionalValue, FileWrapper, AlignedMemory

Each method is an operator on a record of the members, and an action gives it
any of the arguments. `BitBuffer` has bytes of `ByteBits` and words of
`WordBits`, so that every boundary is met with few bits; the reference reads the
whole buffer as a sequence of bits. A non-symmetric code of 2^31 values, the
most the DCHECKs allow, has 32 bits, and `uint32_t{1} << 32`
(`bit_buffer.cc:166, 312, 324`) is undefined in C++: `Overshift` is the value a
build has for it, 0 or 1, which are both right once the words of 31 bits are
taken. A code of one value passes the DCHECKs too, but reads no bits, and a
debug build stops in `PeekBits`: `NumValues` leaves it out. Of the two
comments on the exponential Golomb code the code follows `bit_buffer.h:67-69`,
which gives the code of 0 as the single bit 1; the last lines of that comment,
`bit_buffer.h:70-71`, would increment where `bit_buffer.cc:213` subtracts 1. `Buffer` marks cells that `new T[n]` leaves
uninitialized and remembers what was in the blocks it gave back.
`OptionalValue` follows the value of each object through construction,
destruction and assignment and notes any that is done on the wrong side.
`FileWrapper` leaves out what is read and written. `AlignedMemory` puts blocks
and headers into a small heap.

### TimeUtils, Numerics, Random

Pure operators with a state that steps through inputs: days of the calendar one
by one, from 1970 to `LastYear`, counted as they pass; every pair of integer
types, signs and values of up to three units; every seed and every draw of a
generator of narrow words, whose state is the set of the positions of its one
bits: `^` is the symmetric difference, a shift moves the positions. The references are the count of days, the integers
themselves, and the share of the range that a draw stands for.

## Runs

| run | question | result |
| --- | --- | --- |
| `MCMessageQueue` | two clients post, post with delay, clear and quit; the owner blocks, fires timers, dispatches and posts to itself | types, `OneOwner`, `NoLostWakeup`, and the queue implements `Mailbox`, which has the order and the due times in it |
| `MCMessageQueueOwner` | the owner polls, peeks, disposes, clears, quits, destroys handlers, exits, is destroyed or restarted | `OneOwner`, `QuitDrains` (Quit comes from the owner here), `DispatchToLive` |
| `MCMessageQueueLive` | fairness | every accepted message is served, every Quit ends the loop |
| `MCMessageQueuePeek` | Clear from another thread while the owner peeks | `OneOwner` is violated, see below |
| `MCThreadSendBuilds` | handlers of three threads send in a ring in a debug build, one is told to quit; Send, Post and Quit in a release build | `NoCircularWait`, `SendIsSynchronous`, `NoSleepThrough` in the debug build; in the release build a Send returns unless its target was told to quit (`EverySendReturns`) |
| `MCThreadSendQuit` | the target is told to quit | `SendReturns` is violated, see below |
| `MCLifeAndClear` | the program and spawned threads build, start, stop, wrap and delete two objects; or three threads clear, add and destroy queues whose payloads call back | a stopped object is still and its checker detached (`StoppedIsClean`), no dangling pointer, `StopReturns`, `QuitIsObeyed`; locks counted right, payloads deleted once, the loops undisturbed (`LoopsUndisturbed`), everything cleared, every call returns unless two threads took their locks in opposite orders (`CallsReturnOrReverse`) |
| `MCManagerClearTimers` | the payload of a timer calls back | `DeletedOnce` is violated, see below |
| `MCManagerClearOrder` | `Thread::Clear` and `ThreadManager::Clear` meet | `CallsReturn` is violated, see below |
| `MCSync` | the components that threads share | the ring has exclusive slots, is a FIFO queue, and every inserted item is taken; `Event` implements `Signal`; locks exclude; checkers tell; counts are references; spawning is sound; a stream written by one thread shows the first and the newest lines |
| `MCData` | the components that one thread owns | rates are those of the window and asking leaves no trace; bits are read back; buffers keep their elements and leave none behind; values, files and blocks are owned once; times agree with the calendar, conversions are exact, draws fill their range |
| `MCTrace` | two threads write to one stream | `KeepsFirstLines` is violated, see below |

### What the violations show

* `MCThreadSendQuit`: the target finds its list empty and releases `crit_`; a
  Send enters its message, then another call sets `stop_`; the target reads
  `stop_` (`thread.cc:378`), Get returns false with the message in the queue,
  and the sender waits for `ready` for ever. `thread.h:176-181` promises that
  pending Sends and ready posts are delivered first; a plain post is left behind
  in the same way. When the owner itself calls Quit the promise holds
  (`QuitDrains` in `MCMessageQueueOwner`).
* `MCManagerClearTimers`: three timers, the first and the last for the handler
  that is cleared. Its payloads are deleted one by one while the container is
  compacted (`thread.cc:533-545`); the last one's destructor calls
  `ThreadManager::Clear` for another handler, and the inner call works on the
  half-compacted container, which still has elements that were moved or deleted.
  A payload is deleted twice. The comment at `thread.cc:145-147` allows the
  call, thinking of the list of queues only. Messages in `messages_` are erased
  one by one and stand it, as long as the inner call is for another handler
  (`MCLifeAndClear`); a payload whose destructor clears its own handler would
  be met again before it is erased.
* `MCManagerClearOrder`: one thread in `Thread::Clear` holds `crit_` of its
  queue and deletes a payload whose destructor enters the `ThreadManager`;
  another in `ThreadManager::Clear` holds the manager's section and waits for
  that queue. Each waits for the other. The comment at `thread.cc:145-147`
  calls such re-entrant calls allowed. `CallsReturnOrReverse` says that this
  circle of two is the only way in which a call does not return: with calls of
  both kinds at work in `MCLifeAndClear`, each returns or two threads hold one
  of these locks and want the other (`OrderReversed`).
* `MCMessageQueuePeek`: `thread.cc:323` tests `fPeekKeep_` and copies
  `msgPeek_` without `crit_`; Clear on another thread deletes the payload in
  between, and Get returns it all the same. The comment at `thread.cc:340`
  requires the lock. Without the combination (Clear by the owner, or no Peek)
  payloads have one owner.
* `MCTrace`: both threads find `row_count_text` below or at
  `wrap_line_number`, and both count; the row passes the one value at which
  `wrap_offset` is taken (`trace_impl_c.c:530`), or is at it when the file is
  already further. When the rows are full, the file is set back to a
  `wrap_offset` that is too small, and the lines before `wrap_line_number`,
  which the comment at `trace_impl_c.c:524-528` excludes from the wrap, are
  written over. With one thread they stay (`FirstLinesStay`).

### Where comments and code differ

The runs above refute a comment each. These were met as well, and the
properties and theorems state what the code does:

* `TmToTime` multiplies by `kNumMillisecsPerSec` before it returns
  (`time_utils.cc:117`) and so answers milliseconds, where `time_utils.h:114-117`
  promises seconds. Nothing in the sources calls it. `TimesAgree` and
  `DaysAreCounted` speak of the milliseconds.
* `thrd_equal` is non-zero for *different* threads (`thread_c_inl.h:54-57`),
  where `thread_c_inl.h:52` says non-zero for the same. `ThrdEqual`, its only
  caller, negates it.
* The comment on `ReadExponentialGolomb` ends in "increment the result by 1"
  (`bit_buffer.h:70-71`); the code subtracts 1 (`bit_buffer.cc:213`), as the
  encoding in the same comment (`bit_buffer.h:67-69`) and `BitsRoundTrip` need.
* `safe_compare.h:20-27` promises comparisons "adhere to the true mathematical
  definitions" for all integers; the overloads that do are under `#if 0`
  (`safe_compare.h:49-178`). `ConversionsAgree` speaks of arguments that the
  usual conversions of C++ keep.
* `rate_statistics.h:53-58` says that `Rate` makes no change that other methods
  show; a window that is enlarged afterwards shows one. `RateLeavesNoTrace`
  leaves that case out.

### Bounds

* `Messages`: two (three for the owner's run). Ordering, ownership and lost
  wake-ups concern at most two messages and the state of the owner; a third
  lets one be disposed of between two others.
* `MaxTime` 2 (1) with delays 0 and 1: a timer can be due at once, later, equal
  to another, and pass while the owner is at any step. The horizon caps the
  clock and, through it, every time in the state. At the horizon all finite
  waits may end.
* `IntMod` 64, `NumMod` 16: wide enough that neither wraps within the horizon
  (`TimesFit`), as 2^32 does within weeks of running time. What the cast to
  `int` in Get does to a delay of 2^31 ms or more is thus not looked at; the
  proof names the condition.
* one handler; two clients, interchangeable, one of which clears and the other
  quits.
* `MCLifeAndClear`, life: one thread of the program, two objects, two starts each: a
  restart, an object that wraps the program's thread while the other one runs,
  a worker that stops or deletes another object. With a second thread of the
  program the invariants hold as well; the proof covers any number.
* `MCLifeAndClear`, clear: three threads, each queue with two messages and a
  timer; two payloads re-enter, each for the other handler, also the one that
  `one1`, a `Thread::Clear`, deletes under the lock of its queue.
* three threads close a ring of Sends with a call that is not a direct answer;
  two threads and an outsider reach every step of Send.
* `MCSync`: the ring has two slots and five fills, so that it is full and empty
  at each position; its bottles are told apart by number, and all starts are
  alike but for renaming, so one is taken. Two waiters with deadlines of one
  and two ticks and a warning before, at and after them; three threads in two
  nested scopes; two threads with three scopes of the race checker, nested or
  not; two threads, two pointers each, two objects; two spawned threads, of
  which either may fail to start or outrun its creator; a stream of three rows
  that keeps none, one or all, five lines, and a second stream.
* `MCData`: a ring of three buckets that wraps twice within the horizon of five
  milliseconds, three samples between resets, an accumulator of up to seven
  that two samples of four overflow; four bytes of two bits and words of two
  bytes; two buffers, three optionals, three wrappers over two files; a heap
  of 18 cells with headers of two; days until 2101, which has the leap years,
  2000, which is one, and 2100, which is not; integers of one to three bits,
  of which two make an `int`; a generator with words of three bits.

Deadlock is not checked: calls are bounded in number, and a thread that nobody
calls sleeps for ever, as in the program.

### Fairness

`FairSpec` of `MessageQueue` assumes weak fairness of the owner's own steps, of
the remaining steps of a call that has begun, and of the clock: the operating
system runs a thread that can run, a mutex is granted, a handler returns. Nobody
has to make a call. `ThreadSend` assumes the same. In `SwapQueue` an Insert that
found room completes, and the consumer goes on calling Remove; neither is
stopped half-way. In `ThreadLife` a call that has begun and a spawned thread go
on, and a loop whose `stop_` is set comes to its end: strong fairness, because
handlers that make calls of their own disable that step time and again, which a
loop with finitely many messages does finitely often. In `ManagerClear` every
thread that can take a lock goes on.

## Proofs

Proved for all values of the constants that satisfy the named assumptions of
the module:

* `TypeCorrect`: `MessageQueue`'s `TypeOK`, which includes that the owner has a
  message in hand exactly between taking it and passing it on, and that
  `crit_` is held exactly by the thread inside a section. Inductive as it
  stands.
* `WakeupsKept` (assuming `TimesFit`): `NoLostWakeup`. It talks about a sleeping
  owner only, and is not inductive: what the owner saw before it went to sleep
  is lost. `SleepInv` carries the claim back to the place where the owner
  looked: from `quitcheck` on the list is empty unless a wake-up is pending,
  and from the end of the loop over timers on, a remaining timer is noted in
  `cmsDelayNext`. `DueTimes` and `GetTimes` bound what Get computes, so that
  the cast to int changes nothing (`ToIntExact`) and a noted timer gives a
  finite wait.
* `PayloadsHaveOneOwner` (assuming `PeekAlone`): `OneOwner`. `OwnerInv` says
  that a posted message is in exactly one of eight places (`InOnePlace`) and is
  there once (`ListOnce`, `TimersOnce`, ...), so that the sum in `OneOwner` is 1.
  `PeekAlone` is the assumption the code needs: Peek is not used, or nobody but
  the owner clears. Then a message in `msgPeek_` stays there until the owner
  comes back for it (`PeekKept`). Without it the property is false, as
  `MCMessageQueuePeek` shows.
* `DeadAreNotCalled` (assuming `ClearFirst` and `PeekAlone`): `DispatchToLive`.
  A message in the queue is for a live handler, and for none that was cleared
  (`HandlersLive`); a message in hand is among them, so that nothing that was
  taken before `Clear` is dispatched after the handler is gone.
* `ReadyGoFirst` (assuming that only the owner calls Quit, and `PeekAlone`):
  `QuitDrains`. It says something about the moment of Get's return only.
  `QuitInv` carries back what the owner saw: the list was empty when `stop_` was
  already set (`ListLate`), and no timer was due (`TimersLate`), so that what
  there is now entered after Quit or is not due. The history `log` is tied to
  the timers by `TimersLogged` and has every message once (`LogOnce`).
* `QueueIsMailbox` (assuming `PeekAlone` and `NumbersLast`): the refinement
  `ImplementsMailbox`. Every step of the queue is a step of `Mailbox` or a
  stutter: an Enqueue accepts, a fired timer becomes ready, a Pull or the use of
  `msgPeek_` hands over the first message, a Clear drops its messages one by
  one. The abstract list is `msgPeek_`, if kept, before `messages_`
  (`DropFirst`, `DropBehind`). Timers with one time are ordered by
  `delayed_next_num_`, which counts fewer posts than there are past messages
  (`NumInv`), so that with fewer messages than the counter has values
  (`NumbersLast`) a later post always has the greater number.
* `SlotsExclusive`, `NoBottleLost`: from `RingInv`, which relates the two
  indices and `num_elements_` with the moves that are under way (an index lags
  behind the count between `fetch_add` and its increment, and so does Clear's).
* `QueueIsFifo`: the refinement `ImplementsFifo`. The abstract queue is what
  lies from `Front` on, `Inside` many slots of it; the slots the producer fills
  or the consumer has emptied are not among them (`InsideLies`), so that a swap
  out of the queue changes nothing in it, and it changes at the one step that
  publishes the new count.
* `NoThreadWaitsInCircle`: every Send in progress is in `send_graph_`
  (`Registered`), and `send_graph_` stays without a knot, because an edge is
  added only when its source cannot be reached from its target
  (`EdgeAddsNoKnot`).
* `SendsAnswered`: `SendIsSynchronous` for any threads, calls and build. What
  the caller's `ready` says was handled before it was written, and who takes
  the way out of its wait has seen it (`Answered`).
* `NobodySleepsThrough`: `NoSleepThrough`, from `WakeUpsCome`: a wake-up is on
  its way not only when a thread sleeps, but from its last look at the list on
  (a post may come between that look and the sleep), and the answer to a call
  can only be for the actor that made it.

* `EventIsSignal` (assuming that times are not negative): `Event` implements
  `Signal`, for any waiters, deadlines and warnings. Every step is a step of
  `Signal` or a stutter: the end of a Wait is `Take` or `GiveUp`. That GiveUp
  comes when the time is over needs `DeadlinesMeant`: a waiter that has passed
  its last deadline had one. `SignalWakes` is `NoSleepOverSignal` from the same
  `EventInv`: Set wakes every sleeper in the step that signals.
* `LocksAreExclusive`: `LocksExclude` for any number of threads and depth, from
  `LockInv`: the holder of the mutex has as many entries as the mutex counts
  (`MutexCounts`), the copy agrees with it whenever an assertion looks
  (`CopyAgrees`), and the word of `GlobalLock` is 1 exactly while somebody is
  inside (`WordCounts`).
* `SpawnsAreSound`: `SpawnIsSound` for any number of threads and any range of
  priorities, from `BlocksHaveOneOwner`: a block is its creator's until there
  is a thread, and then the thread's. It says for which handles a priority is
  asked, not that it is granted.
* `CheckersAreRight`: `CheckersTell`, which has two halves. The race checker
  complains about no thread that is alone, and about each that comes in while
  another one stays. `RaceInv` says what the counter is while it is busy
  (`CountsOne`), and that a thread on its way in over one that stays cannot
  find the count at 0 (`KeptFrom`). The sequence checker has attached only the
  thread it confirmed (`OneIsCurrent`).
* `ReferencesCounted`: `CountIsReferences`. The references are places
  (`Places`): every pointer, and in every call the reference that is to be
  released and the one that is to be stored. The count of an object is the
  cardinality of the places that hold it (`CountsAgree`); each step fills or
  empties one place or swaps two. An object lives while it has references or is
  being deleted, by one thread (`LifeFollows`, `CallsMeant`).
* `TypeCorrect` of `ManagerClear`: `TypeOK`, from `StackInv`
  (`StacksAreSound`), which says of each call of a stack who can have made it
  (`CalledBy`, `OfCall`), so that a call inside the manager's section or a
  queue's is counted by the lock's owner and nobody else (`Counted`), and who
  is still to come into the list or has left it (`Listing`). It needs that a
  queue is constructed once and destroyed once (`CallsOnce`), which `DoInit` and
  `DoDestroy` see to with their flags. `AssertionsHold` shows from it that the
  guards `processing_ = 0`, assertions of debug builds, never fail: the lock
  alone keeps the list from changing under a Clear.
* `PayloadsDeletedOnce`, `LoopsGoOn`: `DeletedOnce` and `LoopsUndisturbed`, from
  `LoopInv` (`LoopsAreSound`). Every loop, also one that waits below others on a
  stack, has its iterator in the list and has passed nothing that matches
  (`LoopOK`); two loops on one queue belong to one thread (`Excluded`). Such a
  loop is not disturbed by the ones above it because handlers have ranks: a
  destructor only clears handlers below its own (`Falls`, for some `rank`), so
  that what a loop above erases is never the element a loop below stands on
  (`Chain`), and a payload whose deletion has begun is met by nobody before it
  is erased (`Places`, `BeingErased`). Timers are different: between two of them
  the container has copies of some and holes for others. `Live` are the places
  that count, and the theorem assumes that no timer's payload re-enters
  (`TimersPlain`). That is the very condition the violation of
  `MCManagerClearTimers` shows the code to need; its instance meets all the
  other assumptions and the other two instances meet all of them, and
  `MCManagerClear` has TLC evaluate that.
* `ClearsEverything` (assuming also that nothing is in a queue before it comes
  into the list, `UnlistedEmpty`): `ClearsAll`. `CleanInv` says how far a
  `ThreadManager::Clear` is: the queues before its iterator are clean, but for
  the one that a call above it is working on (`Waiting`). Contents only shrink
  (`Shrinks`), and the list changes only while nobody is inside
  (`NobodyInManager`).
* `NewestAreShown` and `FirstLinesStay`: `StreamsShowNewest`, and that the
  first lines stay, when one thread traces. With two the second is false, as
  `MCTrace` shows, so that one thread is what the code needs. From `TraceInv`:
  at rest the file's position is the header and the row count, which is the
  number of lines until the file is full and then a row of the ring that the
  number of lines fits (`Even`); `wrap_offset` is the ring's first row as soon
  as the count is past it. `Follows` says the same at every step of
  `WriteToFile`, where counter, offset, position and file take turns in being
  ahead. That the line overwritten is the oldest of the ring is `RowShowsNext`
  and `WritesRow`, which rest on two rows of one ring never having the same
  remainder (`MultiplesApart`). Streams do not disturb each other since they
  have different files, and a file without a stream is empty (`FilesBlank`).
* `TypesKept`: `SyncTypeOK`, the type invariants of all these components.
* `LifeStoppedIsStill`, `LifeNoDangling`, `LifeOneCurrent`, `LifeCheckerFits`
  and `LifeTypeCorrect`: from `LifeInv`, for any threads, objects and number of
  starts. None of the properties is inductive: that Join cannot miss a thread
  depends on who may be inside Start (`ObjectInv`: a handle without
  `thread_ref_` belongs to a Start in progress), that on the caller being the
  builder of the object and the object being live (`CallInv`), and that no
  destructor takes the object away from under a thread on who wrapped it
  (`ProgramInv`) and on the handle of a live worker (`WorkerInv`).

* `BuffersHoldAndClean`: `BuffersKeep`, from `BuffersInv`. What a buffer holds
  is the reference content up to cells that nobody wrote (`Holds`), or it has
  been moved from (`WasMoved`); with `ZeroOnFree` no element lies beyond
  `size_` (`Clean`), because every method that shrinks or leaves a block zeroes
  what it leaves, and nothing that was released has one (`NothingLeft`). A
  method that calls others is proved through theirs: AppendData through
  EnsureCapacity and the callback's write, which lie in room that was made.
* `OwnersReleaseOnce`: `OwnedOnce`, of three components with an invariant each.
  `OptionalsInv`: an optional's value is constructed exactly while
  `has_value_` says so, on every path of every method (`MethodsAreSound`).
  `FilesInv`: two wrappers never own one file, and what is open is owned
  (`OwnersDiffer`, `OwnedIsOpen`). `MemoryInv`: the blocks of malloc are apart,
  each has one pointer given for it, and between its first cell and the aligned
  pointer there is always room for the header. That the pointer stays
  inside the block is `AlignUpGoesUp`, for every alignment and address; that
  `GetRightAlign` finds the same pointer again is `AlignUpKeeps`. `NULL` is no
  block, since malloc never starts one at 0.

* `AnswersAreWindowed`: `RateIsWindowed`, `AskingChangesNoAnswer`:
  `RateLeavesNoTrace`, and `RingIsBounded`: `AssertionsHold`, from `IInv`. Until
  a sum does not fit, the ring has in order the samples of the history from
  `oldest_time_` on, nothing in the other buckets, and the history's sums
  (`Tracks`); an object without samples is a new one (`Unused`). The twin has
  the same in the window, and perhaps more in front that the next call of
  either drops: `Apart` says when the two windows still meet, which is why the
  clock may not go back and a window not be enlarged. EraseOld's loop and the
  sums over a history are recursive. Induction on them is done over sets: a set
  of numbers that has 0, and `i` with `i - 1`, has all up to `k` (`UpTo`, from a
  least element of the rest, which the library's theorem that inclusion of
  finite sets is well-founded gives). The functions that the definitions choose
  are shown to exist first (`SumExists`, `RoundsExist`). `EraseRoundsTracks`
  then follows every round of the loop, `AddSampleTracks` the index arithmetic
  of Update, where a bucket's `int64_t` does not overflow because it is at most
  the running sum; `TrueRateOf` equates the sum over the window with the sum of
  what is left of the history.

* `FieldsKeepTypes`: `TypeOK` of `RateStatistics`. That `num_samples_` is
  never negative is easy until a sum does not fit, when it is the number of the
  history's samples; after that the ring and the history part, and it follows
  from `Counted`: the buckets never have more samples than `num_samples_` says,
  through every round of EraseOld.
* `DaysAreCounted` and `MillisecondsAreKept`: `TimesAgree`. The closed form of
  the days is related to the walk through the calendar by `LeapDaysGrow` and
  `MonthsAdd`; division in C, towards zero, is `QuotientRest` and
  `UnitsCancel`.
* `NumbersAreExact`: `ConversionsAreExact` and `MinMaxAreMath`. `RangeCheckIs`
  goes through the combinations of sizes and signs that select a
  specialisation of the range check, and shows that each answers whether the
  destination holds the value and which limit it passed; it rests on the order
  of the limits of two types (`SizesOrder`, `LimitsAround`).
* `DrawsAreInRange`: `DrawsFillTheirRange`. The state is never zero because a
  shift to the right leaves the highest one bit, and a shift to the left the
  lowest (`RightKeeps`, `LeftKeeps`), for any shifts by at least one. That
  every number of a range can be drawn is `ScaledReaches`: the first word whose
  product reaches the number's multiple of a word is scaled to it.
* `BitsAreKept` (in `BitBufferProofs`): `TypeOK`, `ReadsWhatIsSpelled` and
  `WrittenIsRead`, for buffers of any length, bytes and words of any widths and
  any ranges of non-symmetric values, assuming what `BitBufferAssumption` says
  of these (a word has at least two bytes, `Overshift` is 0 or 1, a code has two
  values or more). The invariant
  is only that the cursor is in the buffer; the two properties speak of all
  reads and writes from every state. `Number` is what a run of bits spells.
  `PeekIs` shows that the bits masked from the first byte, the whole bytes that
  are shifted in one by one and the bits of the last one spell the run, and
  that no shift loses a bit of a `uint32_t`; `ReadBitsIs` and the four codes
  (`BitsAnswer`, `GolombAnswers`, `SignedAnswers`, `NonSymmetricAnswers`)
  follow, with the uniqueness of a Golomb word (`GolombIs`). For WriteBits
  `LayoutIs` says where the first bits, the whole bytes and the last bits go,
  `FirstByte`, `WholeByte`, `LastByte` and `OtherByte` what each byte becomes,
  `WrittenSpells` that the run spells the value and `BitsKept` that all other
  bits stay; `EveryWrite` puts reading after writing. Powers of two,
  remainders and recursive functions are treated first, for any number
  (`Recursion`, `PowersExist`, `PowSum`, `DivMod`).
* `BitsReadBack`, `TimesAreRight`, `ConversionsAreRight` and `DrawsAreRight`:
  `BitsRoundTrip`, `TimesAgree`, `ConversionsAgree` and `DrawsFillTheirRange` of
  `Data`, from the theorems above. An instance with a name is a copy of its
  definitions; `SameBits` shows that the bit buffer of `Data` is the one that
  `BitBufferProofs` is about, and `SamePowers` the same of the powers of two.

The theorems of `SyncProofs`, `StorageProofs` and `DataProofs` are about
`SyncSpec`, `StorageSpec`, `DataSpec` and the specifications of their
components, for all values of every component's constants: `ComponentsRun` and
`DataRuns` take each component's own specification out of the composition.

Only model-checked: liveness, which is out of the prover's reach
(`MCMessageQueueLive`, `EverySendReturns`, `StopReturns`, `QuitIsObeyed`,
`CallsReturnOrReverse`, `InsertedIsTaken`). Every invariant and every refinement
of a passing run is proved; `StoppedIsClean` and `NoDangling`, which
`MCLifeAndClear` takes from `ThreadLife`, by `LifeStoppedIsStill`,
`LifeCheckerFits` and `LifeNoDangling`.

## Not modelled

* The Win32 branches of every file: TLC and the proofs speak of the POSIX build.
* Checks, locations, macros: formatting, or nothing at run time.
* `view.h`, `aligned_array.h`: pointer arithmetic without state. Reading them
  shows two checks that do not fit: `subview` with a size of zero makes a view
  that asserts its pointer is null (`view.h:74-78`), and `RTC_CHECK_LE(row,
  rows_)` lets the row past the last one pass (`aligned_array.h:47, 52, 57`).
* The loop of `PlatformThread` without a run function: its constructor asserts
  one. `Stop` would fail there, since `AtomicOps::Increment` returns the old
  value and `platform_thread.cc:99` checks for 1.
* Floating point: rates are whole numbers, draws of floats and Gaussian draws
  and conversions of floats are left out.
* After an overflow of the accumulator the assertion at `rate_statistics.cc:131`
  fails when the bucket is erased: `RingIsBounded` speaks of the time before it.
* `IsOwned()` in a handler that runs before `Start` has set `thread_ref_`
  (`thread.cc:681`), and `delayed_next_num_` beyond 2^32 posts: no run reaches
  them, and neither does a delay that the cast of `thread.cc:394` changes.
* A `Buffer` appended to itself, a non-symmetric code with one value, and a
  payload whose destructor clears its own handler: callers that the code does
  not stand, and that are excluded from the runs.
* Reading and writing of files, the text of a trace line, condition variables
  and `call_once` of the C11 layer.
* Negative milliseconds: `timespec_from_millisec` leaves a negative `tv_nsec`
  then (`TimeUtils` shows that they still come back whole).
