# Titrate: TLA+ specifications, model checks and proofs

This project specifies the core of the Titrate repository: the drop-threshold
control of a shared-buffer switch, as it runs in the testbed (an XDP program
plus a Go daemon) and in the ns-3 simulator (a queue disc over a shared buffer), and
the two pieces of tooling that the published figures depend on: the batch runner
of the simulations with the script that reads their logs, and the video client
of the testbed. TLC checks the specifications on small instances; TLAPS proves,
for all parameters, every safety property that a passing run checks (three of
them under a stated bound on pauses, section 5) and both
refinements: the packet handler implements a queue drained at every tick, and the
daemon's ring buffer the filtered mean of the last N observations. Only the one
liveness property is left to TLC.

Paths below are relative to `src/`; `xdp_titrate.c` and `main.go` without a
path are those of `detailed_ae/testbed/switch/titrate/`.

## 1. Inventory

| Component | State | Operations | Interacts with |
|---|---|---|---|
| **titrate kernel program** `bpf/xdp_titrate.c` | five one-entry array maps: parameters, `buffer_state`, `window_state`, `avg_queue_state`, `throughput_stats`; the hash `allowed_interfaces` | one handler, run per packet on the CPU it arrives on: deplete the virtual buffer, credit idle time, adjust the threshold when a window has expired, drop or pass | the daemon through the maps; itself on other CPUs |
| **titrate user daemon** `main.go` | interfaces attached, ring buffer of samples, shared averages under a mutex, done channels | startup; sampler goroutine (lookup, average, publish); statistics goroutine; shutdown on a signal | maps; Go runtime |
| **static kernel program / daemon** `switch/static/` | the same without windows | a fixed threshold; drop only if both the buffer and the average exceed it | as above |
| **ns-3 SharedMemoryBuffer** `ns-3.34/src/traffic-control/model/shared-memory.*` | occupied and remaining bytes, per-queue allocation, saturation levels | reserve, release, allocate | GenQueueDisc |
| **ns-3 GenQueueDisc** `gen-queue-disc.*` | per-queue thresholds, drop windows, zero-queue timestamps, round-robin position | enqueue (admission by one of several buffer-management algorithms), dequeue, window start and end as scheduled events | SharedMemoryBuffer, child queues, simulator events |
| custom ns-3 queue discs (DWRR, WFQ, ECN#, ...) | scheduler state | enqueue, dequeue | ns-3 |
| `bitrate-ctrl`, tcp-bbr/copa, homa header | sender control loops | floating-point control laws | ns-3 |
| **experiment programs** `ns-3.34/scratch/star-buffer-mp.cc` | a log `tor.tr` per run, `flowmonitor.xml` at the end | build a topology, run, sample every millisecond | the scripts through files |
| **experiment scripts** `run_ns3.py`, `detailed_ae/*/process_data.py` | a pool of workers; log directories; lists of samples | start a simulation per line of a conf file, wait; read the logs, average, write the data of a figure | each other through directories shared by all batches |
| **video client** `detailed_ae/testbed/client/` | in the page `dash.html`: arrays of stall events and fragments; in `video.py`: stall periods, time of the last row | page: append on player callbacks; poller: read, empty, print | two processes, script calls |
| upstream ns-3.34 | - | third party | - |

What makes the testbed switch hard to test:

* **lazy time**: nothing happens between packets. The handler reconstructs from
  timestamps what a queue drained at `rate_bps` would have done, including how
  much of an interval that may start before and end after a window was idle;
* **unsigned arithmetic**: all of it in `__u64`, with subtractions whose
  operands come from different packets;
* **concurrency**: the handler runs on several CPUs over unlocked maps, userspace
  writes the same maps, and the program is attached before they are written;
* **stale inputs**: the average that takes part in admission is computed by a
  goroutine from samples of the past;
* **shutdown** over unbuffered channels and a mutex.

And the simulated switch, where one event runs at a time:

* **deferred evaluation**: a window's end is an event scheduled by a drop half a
  second earlier, over statistics that enqueues, dequeues, other window starts
  and threshold changes reset in between;
* **narrow arithmetic**: requests travel from `double` through `uint32_t` to
  `int32_t`; times are kept in nanoseconds and in microseconds;
* **partial failure**: bytes are reserved before the child queue may refuse.

And the tooling around both:

* **check, then act** on directories shared by workers, batches and simulations
  that outlive them, with nobody looking at an exit status;
* **files read while written**, whose truncation and holes are told from
  complete logs by their length alone;
* **read, then empty** across two processes: what comes in between is lost, and
  the rest must still make sense.

`PROJECT.json` lists every such hazard with its line and the properties that
would catch it.

Properties that make the components correct: the virtual buffer is that of a
link of the configured rate (no more passes, no less than a bit per packet is
lost); it never exceeds the maximum threshold; thresholds stay in range; idle
time is credited to at most the time it happened in; the published average is
the filtered mean of the last N observations; startup fails closed; shutdown
terminates and nothing is used after it is closed; data of a figure written
without a warning are of the samples they stand for, as far as that can be told;
a recorded stall was one.

## 2. Modules

| Module | Models | Correspondence |
|---|---|---|
| `TitrateOps` | the arithmetic of both XDP programs | pure operators; `p`, `s`, `w` are the C structs `params`, `state`, `window`; `U64` reduces modulo `WordMod` wherever `__u64` may wrap, and division by zero yields 0 as BPF defines it |
| `XdpTitrate` | the handler of `xdp_titrate.c`, one packet = one step | `Drop`, `Accept`: a data packet; `PassUnaccounted`: runts and SSH; `DropUnlisted`: interface not allowed; environment: `PublishAvg` (userspace writes any average), `Tick` |
| `TitrateLink` | what the handler promises, without timestamps | a backlog drained by every `LTick`, windows that count down, idle ticks counted as they pass |
| `XdpTitrateLink` | refinement mapping `XdpTitrate` => `TitrateLink` | `QueueNow`, `IdleNow`, `WindowNow` extrapolate the maps to the present |
| `TitrateMeter` | the handler with a meter at its output | history variables `passed_bits`, `packets`; says what the rate limit means for traffic |
| `XdpTitrateSmp` | the handler split at its accesses to shared maps, on several CPUs | `cpu[c]` is the program counter and the registers of one run |
| `XdpStatic` | the handler of `xdp_static.c` with its sampler goroutine | as above |
| `TitrateDaemon` | `main.go` from line 264: three goroutines, mutex, tickers, channels | one action per statement that another goroutine can observe |
| `SampleWindow` | what the sampler promises: the filtered mean of the last N observations | refined by `TitrateDaemon` |
| `SwitchStartup` | `main.go` 155-262 against arriving packets | one action per map write or attachment; the maps start as zeros, as array maps do |
| `SharedMemory` | `SharedMemoryBuffer`: occupied and remaining bytes, `allocateBufferSpaceSimple` | pure operators on the two counters and on the thresholds |
| `GenQueueDisc` | Titrate's `GenQueueDisc` (`MyBM`, design v2) over `SharedMemory` and FIFO children | `DoEnqueue`: `DropAtAdmission`, `DropInChild`, `Enqueue`; `DoDequeue`; a scheduled `endWindowAfterDrop` is an element of `events` and ends as `GrowThreshold`, `MonitorAgain`, `ShrinkThreshold` or `KeepThreshold`; `SmoothMonitoring`; environment: `Tick` |
| `ExperimentBatch` | `run_ns3.py`'s pool, the simulations, `process_data.py` | `RunThread`: `run_thread` at its file system calls; `Simulate`, `Crash`: one simulation and what it leaves in `tor` and `xml`; `Process`: the reader; environment: `StartBatch`, `KillBatch` |
| `VideoClient` | `dash.html` against the loop of `video.py` | one action per callback and per script call, since the page runs between them; `column` sums the column that is printed |
| `TitrateOps_proofs` | lemmas about the operators of `TitrateOps` | section 5 |
| `SumTheorems` | lemmas about sums over finite sets and over sequences | section 5 |
| `XdpTitrate_proofs` | theorems about `XdpTitrate`, `TitrateMeter` and `XdpTitrateLink` | section 5 |
| `XdpTitrateSmp_proofs`, `XdpStatic_proofs`, `SwitchStartup_proofs`, `GenQueueDisc_proofs` | theorems about the module named | section 5 |
| `Userspace_proofs` | theorems about `TitrateDaemon`, `ExperimentBatch` and `VideoClient`, whose definitions it has side by side: those of the batches and of the video client are named `BatchInit`, `VideoInit` and so on | section 5 |

`MC_*` modules give the sets their values; their `.cfg` files give the numbers.
Operators whose comment begins "As ..." are mutants: variants of the definition
that follows them, with one plausible slip. No specification uses them; each
shows that a property can fail.

### Abstractions

* Times are integers; `NsPerSec`, `MsPerSec`, `MtuBits` and `FixedPoint` are
  constants (10^9, 1000, 12000, 10^6 in the code), so that small values keep
  every rounding step of the code.
* A packet is its interface, its size and whether the handler accounts for it.
  The size includes the Ethernet header while a threshold counts 1500-byte MTUs,
  so a full frame is larger than a threshold of one; packets larger than an MTU
  are in the bounds (`PacketBits = {2, 4}` with `MtuBits = 3`).
* Lookups of key 0 in the one-entry array maps cannot fail, so the branches for
  a missing entry (lines 143-161, 364-368) are not modelled.
* `now` is the kernel's clock. `main.go` measures with `UnixNano`; only the
  difference between two readings is used, and `SwitchStartup` takes both clocks
  to run at the same speed.
* `main.go` 259 writes an average of 0 over the initial 0 before the sampler
  exists: not a step of its own.
* `GenQueueDisc` keeps four history variables that the code does not have:
  `served` and `idleTime`, which count how long a queue that has held a packet is
  empty during its window, `emptyAtDrop`, the queues that were empty at the drop
  that opened their window, and `inRange`, whether every growth asked for so far was
  an `int32_t` after an idle time shorter than the window, and every step down was
  no larger than the threshold it was taken from. `MTU` is 1500 and `IncreaseRatio` is in
  tenths, as in the code. A queue's idle time before its first packet is not
  counted by the code, nor by `idleTime`.
* A `double` is exact in the range used; its conversion to `uint32_t` is what
  x86-64 compilers emit (the low word of a 64-bit conversion, 0 for an infinity),
  undefined in C++ from 2^32 on.
* `pawMode` is `paw` (`filtered`) or `pa`; headroom
  is unused in the experiments, so no prober is in it.
* Userspace reads and writes an entry in one step. In the kernel a copy of an
  array entry may be torn; the words are independent for the sampler, which uses
  one of them. `UpdateBufferState` against a handler in progress on another CPU
  is a listed hazard without a property.
* `ExperimentBatch`: a line of a log is its position, for runs of a job have one
  seed; a file is the set of positions written in it. A simulation of a killed
  batch has the file open at its own offset, so that what it writes after another
  has truncated the file lies behind a hole, which reads as NULs. `crashed`,
  `disturbed`, `contested` and the reader's `contested` and `inexact` are history:
  a log is contested from when a simulation cuts it off under another one that is
  writing it until the one that cut it off has run the full experiment to its end,
  and what the reader takes from it is inexact unless it is the samples of the
  first `Needed` milliseconds, each at its place. `waf`'s build is left out;
  the logs are those of one scheme, the others are read in the same way.
* `VideoClient`: time is in ticks, and the two processes read the clock of one host.
  `stalledAt` and `gapAt` are history: ticks at which a stream was stalled, and
  ticks at which the array was read but not yet emptied. A script call is one step.

## 3. Runs and bounds

| Run | Question | Result |
|---|---|---|
| `handler` | do the invariants of the handler hold, does its traffic conform to the rate, and is its lazy bookkeeping that of a queue drained tick by tick? slow start on, two-round windows, an unlisted interface, 11 ticks, 7 packets | pass |
| `handler_overflow` | what happens when `elapsed_ns * rate_bps` wraps? (`WordMod = 64`) | violation: finding 1 |
| `smp` | does the buffer cap survive races between two CPUs? are rate and threshold range kept while no two handlers overlap? | pass |
| `smp_range` | does the threshold range survive the races? | violation: finding 2 |
| `static` | rate, stale averages and overshoot of the static variant | pass |
| `daemon` | consistency, refinement of the sample window, no use after close; does a signal end the program? | pass |
| `startup` | is the switch safe while it is being configured? | pass |
| `genqueue` | in the simulator: do the shared buffer's counters survive every refusal path, is idle time credited to the right window, does each window end once, when may a threshold move? | pass |
| `genqueue_request` | do the thresholds fit the buffer without the proviso that what is asked for is in range? | violation: finding 4 |
| `startup_initial` | is the threshold the configured one until a packet is dropped? | violation: finding 3 |
| `batch` | do batches over the same directories lose jobs to races, end with incomplete logs, or lead to data of other samples than those they stand for without a warning? | pass; logs that two simulations write are excepted, below |
| `video` | are recorded stalls real, and is no stall time counted twice? | pass |

Bounds. A window lasts 4 ticks in `handler`, so 11
ticks hold a drop, a first round, a second round, its evaluation and a further
packet; the rate of 1.5 bits per tick makes both roundings (tokens and time to
empty) inexact; the threshold can take every value of its range, and the average
is below or above all of them; with 7 packets the fractions that rounding loses
add up to more than one bit.
`smp` runs two CPUs and four packets, enough for one complete window with
handlers overlapping at its opening and at its end. `daemon` has three samples of two values: full, partly filled and
wrapped rings, and sets in which the outlier filter keeps all, some and none.
`startup` has two interfaces, so that packets arrive on the first before the
second is attached. `genqueue` has one port with a data and a control queue; windows
of 2 ticks and 8 ticks of time hold growth and two-interval shrinking, above and
below the slow-start threshold; 3 ticks once a control packet has come, enough
for the data queue to run empty, be refused because others fill the buffer, and
open a window in the middle of an idle time. Control packets are larger than
data packets there only to fill a buffer of 9 units; a microsecond is 2 ticks, so
a window's start is cut off. `genqueue_request` scales 2^32 to 64. `batch` has two
jobs, two workers and two batches, the smallest instance in which workers race,
a killed batch's simulation meets its successor's, and the reader mixes logs of
both. A full log has three samples more than are needed, as the code's have about
a hundred, so that one with a hole may be long enough to pass; a quick one has
too few. Simulations of different jobs share no file, so only those of one job run
at a time (the constraint `OneJobAtATime`); the workers and the reader are free. `video` has two streams and six
events: the end of startup and a stall of each stream that overlap. Deadlock is not checked where the clock bound or the
end of the program stops the behaviour: that is every run.

What `batch` does not claim. `process_data.py` tells a complete log by the
number of its lines. If a batch is killed and its simulation lives on, the next
batch's simulation cuts off the log under it, and the old one goes on at its own
place. What it writes there lies behind a hole, and where the new one has not got
to yet, samples are missing; if no more are missing than the full log has to
spare, nothing warns, and what follows is averaged at a shifted time. Without its
premise on contested logs TLC finds `SilentDataIsExact` violated in this way.
No text of the repository says that such logs are noticed, so it is a hazard
with a note and not a finding. The property says that there is no other way: a
log of a simulation that crashed or was killed, of a quick run, one that is still
growing, or one that was contested and has been written whole since, is either
warned about or exact.

When a threshold may grow (`ThresholdMoves`). The code counts idle time from the
start of the microsecond in which a drop has opened the window
(`gen-queue-disc.cc:4296-4298`), so a queue that was empty at that drop may be credited
up to a microsecond from before it, and grow without having been idle in its
window. The property allows this for exactly those windows (`emptyAtDrop`, opened
inside a microsecond); for one opened while the queue held packets, growth
takes idle time in the window. `inRange` leaves out the two steps whose
arithmetic wraps: the growth is finding 4, the step down a hazard with a note.

`smp`'s granularity. `bpf2go` compiles with -O2: between two helper calls
`current_buffer_bits` is loaded once (228, 376) and stored once (256/261, 392).
The updates of statistics and windows are kept as one step each, so the runs
with a passing result say nothing about finer interleavings of those; the buffer
cap does not depend on them.

Fairness (`daemon` only). Weak fairness of each goroutine's steps: the Go
scheduler runs every runnable goroutine. Strong fairness of the two `Lock`
steps: `sync.Mutex` switches to starvation mode and hands itself to a goroutine
that has waited for a millisecond, so one that keeps being able to lock does.
The tickers and the signal are under no fairness: they need not happen.

## 4. Findings

1. *The product `elapsed_ns * rate_bps` wraps* (`xdp_titrate.c:225`) after
   2^64/`rate_bps` ns, 184.5 s at 100 Mbps. After a pause just above a multiple
   of that, a drained buffer is taken for a full one.
2. *Stale clock and double credit* (`xdp_titrate.c:223`): concurrent handlers
   credit the same idle interval twice, or a negative one; the increase factor
   of line 295 falls below one, and the threshold below its minimum, from where
   line 335 wraps it to a huge value. (The same races lose updates of the buffer
   length at line 392, which is why `smp` claims the rate only for handlers that
   do not overlap.)
3. *`window_state` is not reset at startup* (`main.go:233`): a window opened by a
   drop of the unconfigured program expires on the configured one and moves the
   initial threshold.
4. *A growth request leaves `int32_t`* (`gen-queue-disc.cc:4342`): after a window in
   which the queue was idle except for a fraction of a millisecond, the request
   is at least 2^31, is taken for a negative one, skips the cap at the buffer's
   size, and leaves a threshold larger than the buffer. `InRangeThresholdsFit`
   shows that, but for one case, nothing else does: a threshold less than a packet
   above a slow-start threshold of 0 is stepped down by more than itself, and the
   check of line 4354 wraps with it (beyond this run's bounds; TLC reaches it
   with two ports and a `targetBW` of 0). A queue idle for exactly the window divides by
   zero, and because the window's start is cut off to microseconds
   (`gen-queue-disc.cc:4297`) the idle time may exceed the window; both give
   requests that are not growth. The bytes that `DequeueBuffer` keeps when the
   buffer empties (`shared-memory.cc:152`) are lost once, one packet's worth
   (`BufferAccounting`, `LeaksOnce`).

Not a finding of its own: the comment at `xdp_titrate.c:145` says that packets
pass while there is no configuration. The lookup it guards cannot fail, and
`FailsClosed` (run `startup`, theorem `StartupFailsClosed`) states what happens
instead: they are dropped.

## 5. Proofs

What is proved holds for every value of the constants within the assumptions.
None of the invariants is inductive alone; each module below names its
strengthening, and has the facts `Init => Inv`, `Inv /\ [Next]_vars => Inv'` (one
step per action) and `Inv => P`.

| Module | Theorem | Property | Inductive invariant, and why it is needed |
|---|---|---|---|
| `XdpTitrate_proofs` | `TypeCorrect`, `BufferStaysBounded`, `ThresholdStaysInRange`, `ClocksStayOrdered`, `IdleTimeFitsWindow`, `IdleTimeFitsUptime` | the handler's invariants | `IInv`, their conjunction: `IdleWithinWindow` needs that a window's end lies at most one duration after the last update (`ClocksAndRounds`); the threshold's range needs `IdleWithinWindow`, for the increase factor is at least one only if the denominator of line 288 does not exceed the duration; the type of the threshold needs its range, for the product of line 296 must not wrap |
| | `TrafficConforms` | `ConformsToRate` | `MeterInv`: `IInv` and the property; `U64(x) <= x` bounds what is released even when line 225 wraps |
| | `LosesLittle` | `LosesLessThanABitPerPacket` | `MeteredLosesLittle`: each packet adds at most what rounding in lines 225-237 loses, if line 225 does not wrap (`[]PauseFits`) |
| `XdpStatic_proofs` | `StaticConforms` | `ConformsToRate` | `StaticInv`: the buffer, which nothing caps, holds only bits of the packets handled, so lines 178-186 compute with words |
| | `StaleAverageIsHarmless` | `StaleAverageDropsNothing` | the same; a drop needs the depleted buffer at the threshold, and depletion is exact to a bit if line 178 does not wrap (`[]PauseFits`) |
| | `StaticTypeCorrect`, `ExcessIsBounded` | `TypeOK`, `SteadyExcessStopsGrowth` | `SamplerInv`: `StaticInv`, and what the ring buffer holds, hence every mean of it, is a length the buffer can have had; a mean of samples all at the threshold is at the threshold |
| `XdpTitrate_proofs` | `HandlerImplementsLink` | `LinkSpec` | `LinkInv`: `IInv`, an empty buffer and no window before the first packet, and no packet finds its predecessor past a window's end |
| `XdpTitrateSmp_proofs` | `SmpTypeCorrect`, `SmpBufferStaysBounded` | `TypeOK`, `BufferBounded` | `SmpInv`: what a handler has in its registers was once in the map, and a packet to be passed fits on top of the length that was tested, whatever has become of the map since |
| | `SerialHandlersAreSound` | `SoundWhileSerial` | `SerialInv`: while no two handlers have overlapped, at most one is under way, and `HandlerSound` says for each of its program counters what `IInv` has become half way through: which clock reading the maps are at, what its registers share with them, how much may have been sent |
| `SwitchStartup_proofs` | `StartTypeCorrect`, `NoPacketUnlisted`, `StartupFailsClosed`, `ThroughputStaysNonNegative` | the startup properties | `StartInv`: an attached interface is listed; once main has reset the buffer state its timestamp is zero or not before the start time, so that no idle time counted from then on is older |
| | `SoundFromConfiguration` | `SoundOnceConfigured` | `SoundInv`: also, a window's idle time fits in it, for a window begun under zero parameters (duration 0, no idle time) as well as for one of the configuration; so an expired window raises a threshold and never lowers it below the minimum |
| `GenQueueDisc_proofs` | `GenQueueTypeCorrect`, `BufferIsAccounted`, `BufferLeaksOnce`, `IdleTimeCounted`, `WindowsEndOnce`, `ThresholdsFit`, `ThresholdsMoveForAReason` | as named | `GenQueueInv`: a window has one end, `count` intervals after its start to a microsecond (`WindowInv`); a queue is marked empty exactly when it has run empty, and for no longer than its window (`IdleInv`); what is counted beyond its idle time is what the start's cut-off adds, and nothing if the queue held packets when the window opened (`ExcessInv`); a window's minimum is at most what the queue holds (`MinInv`), so that a queue with a minimum to spare has not been empty |
| `Userspace_proofs` | `DaemonTypeCorrect`, `PrintedAveragesAgree`, `LinksClosedAfterUse` | `TypeOK`, `PrintedAveragesMatch`, `ClosedAfterUse` | `DaemonInv`: who holds the mutex where (`MutexInv`); both averages of a goroutine or of the shared record are of one sample, so that dropping the samples above twice the mean cannot have raised it (`SamplerInv`, `SharedInv`, `ReportInv`); the order of the shutdown (`ShutdownInv`) |
| | `DaemonImplementsWindow` | `WindowSpec` | `DaemonInv`; the slots of the ring, read from the oldest, are the window's sequence, by a bijection under which sums and cardinalities are equal |
| | `BatchTypeCorrect`, `NoJobIsLost`, `JoinIsComplete` | `BatchTypeOK`, `NoJobLostToRaces`, `JoinMeansComplete` | `BatchInv`: a job's directory is made by its own worker only (`Unmade`); the simulation of a task is where the task says; an undisturbed, running simulation has in its log what it has written |
| | `SilentDataExact` | `SilentDataIsExact` | `LogInv`: a log that is not contested is whole, or has the lines up to where its only writer is; in a contested one everything is there that the simulation that cut it off has written, so that it is whole when that one ends (`Settled`). The lines up to some place, enough of them after the last is left out, begin with those that are averaged (`LongIsExact`); what the reader has noted follows (`ReaderInv`) |
| | `StallsAreReal` | `RecordedStallsAreReal` | `VideoInv`: `Bracketed`, the events read and those still in the array alternate with time that is covered by a stall or by a gap |
| | `VideoTypeCorrect`, `ColumnNeverOverstates` | `VideoTypeOK`, `NeverOverstated` | `ColumnInv`: periods and pending events are in the order in which they happened, so that closed periods share no tick; the column is at most what was covered before the last row's time stamp, except between the row and its stamp. A row then adds disjoint pieces of what is covered since (`VideoInv`) |

Assumptions. `OpsAssumption`; `ParamsAssumption` (the flag values that `main.go`
56-78 documents as required: nonzero minimum, multiplier at least 1, initial
between minimum and maximum; plus a decrease constant no larger than the
minimum, below which line 335 could wrap); `EnvironmentAssumption`; and
`RangeAssumption`: the products named there fit a word (with the defaults of
`main.go` the largest is 2e16). `SwitchStartup` and `XdpTitrateSmp` take a whole
parameter record and assume of it what they need: `Usable(Config)` is the same
for a record; `SmpAssumption` needs only the sum of line 376 to fit a word, and
`SerialHandlersAreSound` alone also uses `FlagsAssumption`, the flag values and
the products of the other two. `GenQueueDisc` assumes finitely many ports, a window
of whole microseconds (it is given in milliseconds), and a growth ratio of at
least one (`IncreaseRatio` is in tenths). The
product of line 225 is deliberately in none of them: the invariants, `TrafficConforms`
and `StaticConforms` hold although it wraps, since they bound what a wrong number of
released tokens can do. `StaticRangeAssumption` bounds the bits of all packets
handled, since the static buffer has no cap. `PauseFits`, under which `LosesLittle` and
`StaleAverageIsHarmless` are proved, is the condition `NoLongPause` below.

The refinement does need that product. `HandlerImplementsLink` proves
`Spec /\ []NoLongPause => LinkSpec`: while no pause reaches 2^64/`rate_bps` ns,
184.5 s at 100 Mbps, every step of the handler is a step of the link or a
stutter; finding 1 is what happens without. It also assumes `AveragesFit`, that
userspace publishes averages of lengths the buffer can have, since a larger one
makes the sum of line 376 wrap. The proof rests on `TitrateOps_proofs` (what
`U64`, division, depletion, credit, raise and lower return and bound, for any
parameter record) and on one lemma per stage: the backlog extrapolated to now is
what the handler computes on arrival, and so are the idle time and the window.

Sums and means. The averages of the daemon and of the static sampler, the bytes
of a queue, the thresholds of all queues and a row of the video client's column
are sums over a finite set, which the community modules define by a fold. The
induction theorems of the library take an operator as a parameter and cannot be
used by the provers here; `SumTheorems` argues by a smallest counterexample
instead (`SmallestSubset`, from the library's `WFMin`, which takes a set): the fold
exists, does not depend on the order of its elements, adds an element, is
monotone, splits over a union, is invariant under a bijection, bounds the
cardinality of disjoint pieces, and a mean lies between its elements.

Model-checked only: liveness, `SignalEndsProgram`, which needs fairness and is
out of the prover's reach; and the runs that find violations, which are of small
instances by nature.

## 6. Plan

1. *(done)* The testbed switch: modules above, proofs of the handler, its meter,
   its refinement, its startup and its races.
2. *(done)* The core of the simulated Titrate: `SharedMemory`, `GenQueueDisc`.
   Next there: several data queues and ports (which share `ssthreshBuffer` and the
   buffer), designs v0 and v1, strict priority, CoDel children, and the thresholds
   of DT, ABM, FAB and IB.
3. *(done)* The tooling: `ExperimentBatch`, `VideoClient`.
4. *(done)* Proofs of every safety property the passing runs check.
5. Composition of a split handler with userspace's map writes; that the handlers
   of one CPU implement `XdpTitrate`'s atomic one.

## 7. Not modelled

* Parsing of flags, headers and configuration files beyond the outcome, wording of
  reports, plotting.
* The floating-point control laws of the ns-3 senders (`bitrate-ctrl`, BBR, Copa)
  and the schedulers and AQMs that Titrate is compared with, most of them ported.
* Upstream ns-3. Nearly all Python files of the repository are its generated
  bindings and build scripts (`modulegen__gcc_*.py`), which hold no behaviour of
  this system; the code that does is C, C++, Go and some hundred lines of Python,
  so a share of Python lines says nothing of what is covered. The Python of the
  project's own that has state and steps, `run_ns3.py`, `process_data.py` and
  `video.py`, is modelled; the `process_data.py` of the other experiments differ from
  that of `burst` in paths and formulas.
* Liveness of a batch: nothing bounds a simulation's duration, and a batch that is
  killed never ends.
