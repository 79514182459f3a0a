---------------------------- MODULE TitrateDaemon ---------------------------
(***************************************************************************)
(* The userspace half of the titrate switch after startup (main.go of      *)
(* detailed_ae/testbed/switch/titrate): the goroutine that samples the     *)
(* queue and publishes its average, the goroutine that reports statistics, *)
(* and the main goroutine, which on a signal stops both and closes the     *)
(* links.  A failed sampler lookup logs and goes on: a stuttering step.    *)
(***************************************************************************)
EXTENDS Integers, FiniteSetsExt

CONSTANTS
  queueSamples,   (* length of the sample ring buffer                      *)
  QueueBits       (* lengths of the virtual buffer a lookup may find       *)

ASSUME DaemonAssumption ==
  queueSamples \in Nat \ {0} /\ QueueBits \subseteq Nat /\ 0 \in QueueBits

VARIABLES
  avg_queue_bits, (* the avg_queue_state map's entry                       *)
  samples, sampleHead, sampleCount,   (* the ring buffer                   *)
  sampler,        (* the sampling goroutine: [pc, simple, filtered]        *)
  stats,          (* the reporting goroutine: [pc, simple, filtered]       *)
  sharedStats,    (* [simple, filtered]: the averages they share           *)
  mu,             (* the goroutine holding sharedStats.mu, or "none"       *)
  ticks,          (* the tickers with a tick waiting in their channel      *)
  main,           (* where the main goroutine is                           *)
  printed         (* the averages of the last line printed                 *)

ring == <<samples, sampleHead, sampleCount>>
dvars == <<avg_queue_bits, samples, sampleHead, sampleCount,
           sampler, stats, sharedStats, mu, ticks, main, printed>>

NoAverages == [simple |-> 0, filtered |-> 0]
AtSelect == [pc |-> "select", simple |-> 0, filtered |-> 0]

Init ==
  /\ avg_queue_bits = 0
  /\ samples = [i \in 0 .. queueSamples - 1 |-> 0]
  /\ sampleHead = 0 /\ sampleCount = 0
  /\ sampler = AtSelect /\ stats = AtSelect
  /\ sharedStats = NoAverages /\ printed = NoAverages
  /\ mu = "none"
  /\ ticks = {}
  /\ main = "wait"

Running == main # "exited"

-----------------------------------------------------------------------------
(* The sampler's arithmetic over the ring buffer buf, after head and count *)
(* have been advanced.                                                     *)

Slots(head, count) ==
  { (head - i - 1 + queueSamples) % queueSamples : i \in 0 .. count - 1 }

SimpleAvg(buf, head, count) ==
  SumFunctionOnSet(buf, Slots(head, count)) \div count

(* As FilteredAvg, with <= in line 304.                                    *)
FilteredUpTo(buf, head, count) ==
  LET kept == { i \in Slots(head, count) :
                  buf[i] <= 2 * SimpleAvg(buf, head, count) }
  IN  SumFunctionOnSet(buf, kept) \div Cardinality(kept)

FilteredAvg(buf, head, count) ==
  LET outlierThresh == 2 * SimpleAvg(buf, head, count)
      kept == { i \in Slots(head, count) : buf[i] < outlierThresh }
      filteredCount == IF kept = {} THEN 1 ELSE Cardinality(kept)
  IN  SumFunctionOnSet(buf, kept) \div filteredCount

-----------------------------------------------------------------------------
(* The sampling goroutine.                                                 *)

(* As Sample, if the head did not wrap.                                    *)
SampleUnwrapped(bits) ==
  /\ Running /\ sampler.pc = "select" /\ "sample" \in ticks
  /\ ticks' = ticks \ {"sample"}
  /\ samples' = [samples EXCEPT ![sampleHead] = bits]
  /\ sampleHead' = sampleHead + 1
  /\ sampleCount' = IF sampleCount < queueSamples
                    THEN sampleCount + 1 ELSE sampleCount
  /\ sampler' = [pc |-> "lock",
                 simple   |-> SimpleAvg(samples', sampleHead', sampleCount'),
                 filtered |-> FilteredAvg(samples', sampleHead', sampleCount')]
  /\ UNCHANGED <<avg_queue_bits, stats, sharedStats, mu, main, printed>>

(* A tick: the lookup finds a buffer of bits, whatever the handler left.   *)
Sample(bits) ==
  /\ Running /\ sampler.pc = "select" /\ "sample" \in ticks
  /\ ticks' = ticks \ {"sample"}
  /\ samples' = [samples EXCEPT ![sampleHead] = bits]
  /\ sampleHead' = (sampleHead + 1) % queueSamples
  /\ sampleCount' = IF sampleCount < queueSamples
                    THEN sampleCount + 1 ELSE sampleCount
  /\ sampler' = [pc |-> "lock",
                 simple   |-> SimpleAvg(samples', sampleHead', sampleCount'),
                 filtered |-> FilteredAvg(samples', sampleHead', sampleCount')]
  /\ UNCHANGED <<avg_queue_bits, stats, sharedStats, mu, main, printed>>

SamplerLock ==
  /\ Running /\ sampler.pc = "lock" /\ mu = "none"
  /\ mu' = "sampler"
  /\ sampler' = [sampler EXCEPT !.pc = "write"]
  /\ UNCHANGED <<avg_queue_bits, ring, stats, sharedStats, ticks,
                 main, printed>>

WriteSimple ==
  /\ Running /\ sampler.pc = "write"
  /\ sharedStats' = [sharedStats EXCEPT !.simple = sampler.simple]
  /\ sampler' = [sampler EXCEPT !.pc = "unlock"]
  /\ UNCHANGED <<avg_queue_bits, ring, stats, mu, ticks, main,
                 printed>>

WriteFiltered ==
  /\ Running /\ sampler.pc = "unlock"
  /\ sharedStats' = [sharedStats EXCEPT !.filtered = sampler.filtered]
  /\ mu' = "none"
  /\ sampler' = [sampler EXCEPT !.pc = "update"]
  /\ UNCHANGED <<avg_queue_bits, ring, stats, ticks, main, printed>>

(* AvgQueueState.Update, which may fail: the handler keeps the old average. *)
PublishAvg ==
  /\ Running /\ sampler.pc = "update"
  /\ avg_queue_bits' \in {sampler.filtered, avg_queue_bits}
  /\ sampler' = AtSelect
  /\ UNCHANGED <<ring, stats, sharedStats, mu, ticks, main,
                 printed>>

-----------------------------------------------------------------------------
(* The reporting goroutine.                                                *)

StatsTick ==
  /\ Running /\ stats.pc = "select" /\ "stats" \in ticks
  /\ ticks' = ticks \ {"stats"}
  /\ stats' = [stats EXCEPT !.pc = "lock"]
  /\ UNCHANGED <<avg_queue_bits, ring, sampler, sharedStats, mu,
                 main, printed>>

(* A failed lookup of the buffer state or the statistics: log.Fatalf exits. *)
StatsFatal ==
  /\ Running /\ stats.pc = "select" /\ "stats" \in ticks
  /\ ticks' = ticks \ {"stats"}
  /\ main' = "exited"
  /\ stats' = [stats EXCEPT !.pc = "fatal"]
  /\ UNCHANGED <<avg_queue_bits, ring, sampler, sharedStats, mu,
                 printed>>

(* As StatsLock, if reading did not take the mutex.                        *)
StatsNoLock ==
  /\ Running /\ stats.pc = "lock"
  /\ stats' = [stats EXCEPT !.pc = "read"]
  /\ UNCHANGED <<avg_queue_bits, ring, sampler, sharedStats, mu,
                 ticks, main, printed>>

StatsLock ==
  /\ Running /\ stats.pc = "lock" /\ mu = "none"
  /\ mu' = "stats"
  /\ stats' = [stats EXCEPT !.pc = "read"]
  /\ UNCHANGED <<avg_queue_bits, ring, sampler, sharedStats,
                 ticks, main, printed>>

ReadFiltered ==
  /\ Running /\ stats.pc = "read"
  /\ stats' = [stats EXCEPT !.pc = "unlock", !.filtered = sharedStats.filtered]
  /\ UNCHANGED <<avg_queue_bits, ring, sampler, sharedStats, mu,
                 ticks, main, printed>>

(* As ReadSimple, with the Unlock forgotten.                               *)
ReadSimpleNoUnlock ==
  /\ Running /\ stats.pc = "unlock"
  /\ stats' = [stats EXCEPT !.pc = "print", !.simple = sharedStats.simple]
  /\ UNCHANGED <<avg_queue_bits, ring, sampler, sharedStats, mu,
                 ticks, main, printed>>

ReadSimple ==
  /\ Running /\ stats.pc = "unlock"
  /\ mu' = "none"
  /\ stats' = [stats EXCEPT !.pc = "print", !.simple = sharedStats.simple]
  /\ UNCHANGED <<avg_queue_bits, ring, sampler, sharedStats,
                 ticks, main, printed>>

PrintLine ==
  /\ Running /\ stats.pc = "print"
  /\ printed' = [simple |-> stats.simple, filtered |-> stats.filtered]
  /\ stats' = AtSelect
  /\ UNCHANGED <<avg_queue_bits, ring, sampler, sharedStats, mu,
                 ticks, main>>

-----------------------------------------------------------------------------
(* Shutdown.  The done channels are unbuffered: a send waits until the     *)
(* goroutine is at its select statement and takes it.                      *)

(* The signal arrives; statsTicker is stopped.                             *)
Signal ==
  /\ main = "wait"
  /\ main' = "statsDone"
  /\ UNCHANGED <<avg_queue_bits, ring, sampler, stats,
                 sharedStats, mu, ticks, printed>>

(* The statistics goroutine returns; sampleTicker is stopped.              *)
SendStatsDone ==
  /\ main = "statsDone" /\ stats.pc = "select"
  /\ stats' = [stats EXCEPT !.pc = "done"]
  /\ main' = "sampleDone"
  /\ UNCHANGED <<avg_queue_bits, ring, sampler, sharedStats, mu,
                 ticks, printed>>

(* As SendSampleDone, with a done channel that buffers the value.          *)
SendSampleDoneAsync ==
  /\ main = "sampleDone"
  /\ main' = "close"
  /\ UNCHANGED <<avg_queue_bits, ring, sampler, stats, sharedStats, mu,
                 ticks, printed>>

SendSampleDone ==
  /\ main = "sampleDone" /\ sampler.pc = "select"
  /\ sampler' = [sampler EXCEPT !.pc = "done"]
  /\ main' = "close"
  /\ UNCHANGED <<avg_queue_bits, ring, stats, sharedStats, mu,
                 ticks, printed>>

(* The deferred calls close the links and the maps, and main returns.      *)
CloseLinks ==
  /\ main = "close"
  /\ main' = "exited"
  /\ UNCHANGED <<avg_queue_bits, ring, sampler, stats,
                 sharedStats, mu, ticks, printed>>

-----------------------------------------------------------------------------
(* The tickers.  A ticker's channel holds one tick; a stopped one sends     *)
(* none.                                                                    *)

Fire(t) ==
  /\ t = "stats" => main = "wait"
  /\ t = "sample" => main \in {"wait", "statsDone"}
  /\ ticks' = ticks \cup {t}
  /\ UNCHANGED <<avg_queue_bits, ring, sampler, stats,
                 sharedStats, mu, main, printed>>

SamplerStep ==
  \/ \E bits \in QueueBits : Sample(bits)
  \/ SamplerLock \/ WriteSimple \/ WriteFiltered \/ PublishAvg

StatsStep ==
  StatsTick \/ StatsFatal \/ StatsLock \/ ReadFiltered \/ ReadSimple \/ PrintLine

MainStep == SendStatsDone \/ SendSampleDone \/ CloseLinks

Next ==
  \/ SamplerStep
  \/ StatsStep
  \/ MainStep
  \/ Signal
  \/ \E t \in {"stats", "sample"} : Fire(t)

(* The Go scheduler runs every goroutine that can run, and sync.Mutex is    *)
(* starvation free: a goroutine blocked in Lock gets the mutex even if the  *)
(* other one keeps releasing and locking it again.                          *)
Fairness ==
  /\ WF_dvars(SamplerStep) /\ WF_dvars(StatsStep) /\ WF_dvars(MainStep)
  /\ SF_dvars(SamplerLock) /\ SF_dvars(StatsLock)

Spec == Init /\ [][Next]_dvars

FairSpec == Spec /\ Fairness

-----------------------------------------------------------------------------
Averages == [simple : Nat, filtered : Nat]

TypeOK ==
  /\ avg_queue_bits \in Nat
  /\ samples \in [0 .. queueSamples - 1 -> QueueBits]
  /\ sampleHead \in 0 .. queueSamples - 1
  /\ sampleCount \in 0 .. queueSamples
  /\ sampler \in [pc : {"select", "lock", "write", "unlock", "update", "done"},
                  simple : Nat, filtered : Nat]
  /\ stats \in [pc : {"select", "lock", "read", "unlock", "print", "done",
                      "fatal"},
                simple : Nat, filtered : Nat]
  /\ sharedStats \in Averages /\ printed \in Averages
  /\ mu \in {"none", "sampler", "stats"}
  /\ ticks \subseteq {"stats", "sample"}
  /\ main \in {"wait", "statsDone", "sampleDone", "close", "exited"}

(* A printed line never shows a filtered average above the simple average   *)
(* of the same samples: filtering removes only lengths above the mean, in   *)
(* integer arithmetic too (294-312), and the two numbers are those of one   *)
(* sample round although they are stored and read one by one (315-318,      *)
(* 372-375).                                                                *)
PrintedAveragesMatch == printed.filtered <= printed.simple

(* When main closes the links and the maps, no goroutine is left that could *)
(* use them, unless a fatal error ended the process (399-402).              *)
ClosedAfterUse ==
  main \in {"close", "exited"} /\ stats.pc # "fatal" =>
    sampler.pc = "done" /\ stats.pc = "done"

(* The observations in the ring buffer, oldest first.                       *)
Recent ==
  [i \in 1 .. sampleCount |->
     samples[(sampleHead - sampleCount + i - 1 + queueSamples) % queueSamples]]

Window == INSTANCE SampleWindow WITH
  N <- queueSamples, Observations <- QueueBits,
  recent <- Recent, average <- avg_queue_bits

(* The ring buffer with its head and count implements the window of the     *)
(* last queueSamples observations, and what reaches the handler is its      *)
(* filtered mean (85-98, 290-327).                                          *)
WindowSpec == Window!WSpec

(* A signal ends the program: neither done channel is waited on forever,    *)
(* whatever the goroutines were doing and even with a tick left over.       *)
SignalEndsProgram == main = "statsDone" ~> main = "exited"
=============================================================================
