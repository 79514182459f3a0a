---------------------------- MODULE GenQueueDisc -----------------------------
(***************************************************************************)
(* Titrate in the simulator: GenQueueDisc, one per port, with MyBM and the *)
(* drop windows of design v2 (ns-3.34/src/traffic-control/model/           *)
(* gen-queue-disc.cc), over the switch's SharedMemory and FIFO children.   *)
(* The simulator runs one event at a time, so an event is one step.  Time  *)
(* is in nanoseconds; packets come and links fall idle at any time, but    *)
(* the scheduled events run when they are due.  A packet is its size.      *)
(***************************************************************************)
EXTENDS SharedMemory, Sequences

CONSTANTS
  Ports,
  nPrior,         (* classes of a port; class 0 is for control packets     *)
  DataSizes, ControlSizes,
  ChildLimit,     (* packets a child queue disc holds                      *)
  MaxControl,     (* bounds the control packets of a port                  *)
  burstReserve, startProbeBuffer,
  targetBW,       (* the first ssthreshBuffer                              *)
  filtered,       (* pawMode: averages are of the samples up to the mean   *)
  Window,         (* monitorlongms                                         *)
  NsPerUs,
  smoothQlenCollection, smoothWindow,   (* samples: their period, number   *)
  MTU, ExploreThres,
  IncreaseRatio,  (* in tenths                                             *)
  DecreaseRatio,
  Horizon,        (* bounds time,                                          *)
  ControlHorizon  (* once a control packet has come                        *)

SAFE_THRES == 2
COUNT_THRES == 2

ASSUME GenQueueDiscAssumption ==
  /\ IsFiniteSet(Ports) /\ nPrior \in Nat \ {0, 1} /\ ChildLimit \in Nat \ {0}
  /\ DataSizes \subseteq 1 .. TotalBuffer /\ ControlSizes \subseteq 1 .. TotalBuffer
  /\ burstReserve \in 0 .. TotalBuffer /\ startProbeBuffer \in 0 .. WordMod \div 2 - 1
  /\ targetBW \in 0 .. WordMod - 1 /\ filtered \in BOOLEAN
  /\ {Window, NsPerUs, smoothQlenCollection, smoothWindow} \subseteq Nat \ {0}
  /\ Window % NsPerUs = 0
  /\ MTU \in Nat \ {0} /\ ExploreThres \in 1 .. 255
  /\ IncreaseRatio \in Nat /\ IncreaseRatio >= 10 /\ DecreaseRatio \in 1 .. 2
  /\ Horizon \in Nat /\ ControlHorizon \in 0 .. Horizon

VARIABLES
  now,
  sm,             (* OccupiedBuffer, RemainingBuffer                       *)
  currMaxSizeAllowed,     (* per queue (prober): its threshold             *)
  queue,          (* per queue: the packets in its child                   *)
  dequeueIndex,   (* per port                                              *)
  ssthreshBuffer, (* per port                                              *)
  proberStarted,  (* the queues that have got their first allocation       *)
  isWindowOn,     (* the queues with a window open                         *)
  probeMinMinBufferUsed,
  designZeroStart,        (* per queue: when it emptied, or -1             *)
  designZeroWindowSum,
  designZeroWindowStart,  (* in microseconds                               *)
  events,         (* the endWindowAfterDrop events: [at, queue, count]     *)
  smoothQlenRecord, nextSample,
  served,         (* history: the queues that have held a packet           *)
  idleTime,       (* history: how long, in its window, a queue was empty   *)
  emptyAtDrop,    (* history: the queues that were empty at the drop that  *)
                  (* opened their window                                   *)
  inRange         (* history: every growth asked for was an int32_t, and   *)
                  (* no step down more than the threshold                  *)

vars == <<now, sm, currMaxSizeAllowed, queue, dequeueIndex, ssthreshBuffer,
          proberStarted, isWindowOn, probeMinMinBufferUsed, designZeroStart,
          designZeroWindowSum, designZeroWindowStart, events,
          smoothQlenRecord, nextSample, served, idleTime, emptyAtDrop, inRange>>
windowVars == <<isWindowOn, designZeroWindowSum, designZeroWindowStart, events,
                emptyAtDrop>>
thresholdVars == <<currMaxSizeAllowed, proberStarted>>
sampleVars == <<smoothQlenRecord, nextSample>>

Classes == 0 .. nPrior - 1
Queues == Ports \X Classes
Probers == Ports \X (Classes \ {0})     (* the queues with samples         *)
NoMin == 1000000000

NBytes(packets) == SumFunction(packets)

Init ==
  /\ now = 0
  /\ sm = EmptyBuffer
  /\ currMaxSizeAllowed = [p \in Queues |-> 0]
  /\ queue = [p \in Queues |-> <<>>]
  /\ dequeueIndex = [port \in Ports |-> 0]
  /\ ssthreshBuffer = [port \in Ports |-> targetBW]
  /\ proberStarted = {}
  /\ isWindowOn = {}
  /\ probeMinMinBufferUsed = [p \in Queues |-> NoMin]
  /\ designZeroStart = [p \in Queues |-> -1]
  /\ designZeroWindowSum = [p \in Queues |-> 0]
  /\ designZeroWindowStart = [p \in Queues |-> 0]
  /\ events = {}
  /\ smoothQlenRecord = [p \in Probers |-> <<0>>]
  /\ nextSample = [port \in Ports |-> smoothQlenCollection]
  /\ served = {}
  /\ idleTime = [p \in Probers |-> 0]
  /\ emptyAtDrop = {}
  /\ inRange = TRUE

-----------------------------------------------------------------------------
(* Admission                                                               *)

Mean(samples) == NBytes(samples) \div Len(samples)
Rounded(sum, count) == (2 * sum + count) \div (2 * count)

(* smoothGetAverageQlen, rounded: a sample is at most the mean, a fraction,*)
(* exactly when it is at most the mean rounded down.                       *)
SmoothGetAverageQlen(samples) ==
  LET low == SelectSeq(samples, LAMBDA x : x <= Mean(samples))
      kept == IF filtered THEN low ELSE samples
  IN  Rounded(NBytes(kept), Len(kept))

(* The thresholds once MyBM has seen a packet for p: a queue gets its      *)
(* first one with its first packet.                                        *)
ThresholdsFor(p) ==
  IF p \in Probers /\ p \notin proberStarted
  THEN AllocateBufferSpaceSimple(currMaxSizeAllowed, p, startProbeBuffer)
  ELSE currMaxSizeAllowed

(* MyBM, pawMode "paw" or "pa", no prober in the headroom.                 *)
MyBM(p, size) ==
  IF p \notin Probers
  THEN sm.RemainingBuffer >= size
  ELSE LET maxSize == ThresholdsFor(p)[p]
       IN  /\ sm.RemainingBuffer - burstReserve >= size
           /\ \/ NBytes(queue[p]) + size <= maxSize
              \/ SmoothGetAverageQlen(smoothQlenRecord[p]) <= maxSize

(* checkChangeInCurrMaxSizeAllowed: a new threshold, new statistics.       *)
MinAfterChange(p, cmsa) ==
  IF cmsa[p] = currMaxSizeAllowed[p] THEN probeMinMinBufferUsed[p] ELSE NoMin

MyBMAllocates(p) ==
  /\ currMaxSizeAllowed' = ThresholdsFor(p)
  /\ proberStarted' = proberStarted \cup ({p} \cap Probers)

(* The end of every path of DoEnqueue and DoDequeue: the statistics see    *)
(* what the queue holds now, low being the minimum until then.             *)
RecordsMin(p, low) ==
  probeMinMinBufferUsed' =
    [probeMinMinBufferUsed EXCEPT ![p] = Min({low, NBytes(queue'[p])})]

-----------------------------------------------------------------------------
(* DoEnqueue                                                               *)

StartWindowAfterDrop(p) ==
  IF p \in isWindowOn
  THEN UNCHANGED windowVars
  ELSE /\ isWindowOn' = isWindowOn \cup {p}
       /\ designZeroWindowSum' = [designZeroWindowSum EXCEPT ![p] = 0]
       /\ designZeroWindowStart' =
            [designZeroWindowStart EXCEPT ![p] = now \div NsPerUs]
       /\ events' = events \cup {[at |-> now + Window, queue |-> p, count |-> 1]}
       /\ emptyAtDrop' =
            IF queue[p] = <<>> THEN emptyAtDrop \cup {p} ELSE emptyAtDrop

(* A drop, on whichever of its three paths: not admitted, no room in the   *)
(* shared buffer, or (smAfter, the bytes given back) refused by the child. *)
Drops(p, smAfter) ==
  /\ StartWindowAfterDrop(p)
  /\ MyBMAllocates(p)
  /\ sm' = smAfter
  /\ UNCHANGED <<queue, designZeroStart, served>>
  /\ RecordsMin(p, IF p \in isWindowOn
                   THEN MinAfterChange(p, currMaxSizeAllowed') ELSE NoMin)

unsentVars == <<now, dequeueIndex, ssthreshBuffer, idleTime, inRange, sampleVars>>

DropAtAdmission(p, size) ==
  /\ ~MyBM(p, size) \/ ~CanEnqueue(sm, size)
  /\ Drops(p, sm)
  /\ UNCHANGED unsentVars

Fits(p, size) == MyBM(p, size) /\ CanEnqueue(sm, size)

(* As DropInChild, without giving back the bytes.                          *)
DropInChildAndKeep(p, size) ==
  /\ Fits(p, size)
  /\ Len(queue[p]) = ChildLimit
  /\ Drops(p, EnqueueBuffer(sm, size))
  /\ UNCHANGED unsentVars

DropInChild(p, size) ==
  /\ Fits(p, size)
  /\ Len(queue[p]) = ChildLimit
  /\ Drops(p, DequeueBuffer(EnqueueBuffer(sm, size), size))
  /\ UNCHANGED unsentVars

(* As IdleInWindow, with the time before the window.                       *)
WholeIdleTime(p) == now - designZeroStart[p]

(* The idle time that ends now, as far as it lies in the window.           *)
IdleInWindow(p) ==
  now - Max({designZeroStart[p], designZeroWindowStart[p] * NsPerUs})

Enqueue(p, size) ==
  /\ Fits(p, size)
  /\ Len(queue[p]) < ChildLimit
  /\ MyBMAllocates(p)
  /\ sm' = EnqueueBuffer(sm, size)
  /\ queue' = [queue EXCEPT ![p] = Append(@, size)]
  /\ IF designZeroStart[p] # -1
     THEN /\ designZeroWindowSum' =
               [designZeroWindowSum EXCEPT ![p] = @ + IdleInWindow(p)]
          /\ designZeroStart' = [designZeroStart EXCEPT ![p] = -1]
     ELSE UNCHANGED <<designZeroWindowSum, designZeroStart>>
  /\ RecordsMin(p, MinAfterChange(p, currMaxSizeAllowed'))
  /\ served' = served \cup ({p} \cap Probers)
  /\ UNCHANGED <<isWindowOn, designZeroWindowStart, events, emptyAtDrop, unsentVars>>

SizesOf(p) == IF p \in Probers THEN DataSizes ELSE ControlSizes

DoEnqueue ==
  \E p \in Queues : \E size \in SizesOf(p) :
    /\ p \in Probers \/ Len(queue[p]) < MaxControl
    /\ DropAtAdmission(p, size) \/ DropInChild(p, size) \/ Enqueue(p, size)

-----------------------------------------------------------------------------
(* DoDequeue, round robin over the classes, staticBuffer = 0               *)

(* i places after the class whose turn it is.                              *)
ClassAfter(port, i) == (dequeueIndex[port] + i) % nPrior

DoDequeue(port) ==
  \E i \in Classes :
    LET p == <<port, ClassAfter(port, i)>> IN
    /\ queue[p] # <<>>
    /\ \A j \in 0 .. i - 1 : queue[<<port, ClassAfter(port, j)>>] = <<>>
    /\ queue' = [queue EXCEPT ![p] = Tail(@)]
    /\ sm' = DequeueBuffer(sm, Head(queue[p]))
    /\ dequeueIndex' = [dequeueIndex EXCEPT ![port] = ClassAfter(port, i + 1)]
    /\ designZeroStart' =
         IF designZeroStart[p] = -1 /\ Len(queue[p]) = 1
         THEN [designZeroStart EXCEPT ![p] = now] ELSE designZeroStart
    /\ RecordsMin(p, probeMinMinBufferUsed[p])
    /\ UNCHANGED <<now, ssthreshBuffer, thresholdVars, windowVars, sampleVars,
                   served, idleTime, inRange>>

-----------------------------------------------------------------------------
(* endWindowAfterDrop                                                      *)

(* IncreaseRatio/10 * window / (window - zeroqueueduration) * cmsa - cmsa, *)
(* a double cut off to 64 bits and the lower word of that taken, as x86-64 *)
(* does; an infinity or a NaN, at a division by zero, gives 0.             *)
GrowthAsked(cmsa, idle) ==
  LET rest == 10 * (Window - idle)
      numerator == cmsa * (IncreaseRatio * Window - rest)
  IN  CASE rest > 0 -> numerator \div rest
        [] rest = 0 -> 0
        [] OTHER -> -(numerator \div (-rest))

(* Half the way down to ssthreshBuffer, in packets of MTU bytes.           *)
HalfwayDown(cmsa, ssthresh) ==
  LET change == (2 * cmsa - U32(cmsa + ssthresh)) \div 2
  IN  U32(((U32(change - 1) + MTU) \div MTU) * MTU)

(* As ThresholdsSteppedDown, without the check that something safe is left.*)
ThresholdsSteppedDownUnchecked(p, count) ==
  LET cmsa == currMaxSizeAllowed[p]
      step == IF cmsa > ssthreshBuffer[p[1]] THEN HalfwayDown(cmsa, ssthreshBuffer[p[1]])
              ELSE DecreaseRatio * MTU * count
  IN  AllocateBufferSpaceSimple(currMaxSizeAllowed, p, Int32(-step))

(* The next step down is within the threshold it is taken from.            *)
StepDownFits(p) ==
  currMaxSizeAllowed[p] > ssthreshBuffer[p[1]] =>
    HalfwayDown(currMaxSizeAllowed[p], ssthreshBuffer[p[1]]) <= currMaxSizeAllowed[p]

(* The thresholds after a second interval without the queue running empty. *)
ThresholdsSteppedDown(p, count) ==
  LET cmsa == currMaxSizeAllowed[p]
      change == HalfwayDown(cmsa, ssthreshBuffer[p[1]])
      safe == SAFE_THRES * MTU
  IN  IF cmsa > ssthreshBuffer[p[1]]
      THEN IF U32(cmsa - change) > safe
           THEN AllocateBufferSpaceSimple(currMaxSizeAllowed, p, Int32(-change))
           ELSE currMaxSizeAllowed
      ELSE IF cmsa - MTU * count > safe
           THEN AllocateBufferSpaceSimple(currMaxSizeAllowed, p,
                                          -(DecreaseRatio * MTU * count))
           ELSE currMaxSizeAllowed

(* New thresholds for p, and with a new one new statistics.                *)
SetsThresholds(p, cmsa) ==
  /\ currMaxSizeAllowed' = cmsa
  /\ probeMinMinBufferUsed' =
       [probeMinMinBufferUsed EXCEPT ![p] = MinAfterChange(p, cmsa)]

Closes(e) ==
  /\ isWindowOn' = isWindowOn \ {e.queue}
  /\ events' = events \ {e}
  /\ idleTime' = [p \in Probers |-> IF p = e.queue THEN 0 ELSE idleTime[p]]
  /\ emptyAtDrop' = emptyAtDrop \ {e.queue}

unwindowedVars == <<now, sm, queue, dequeueIndex, proberStarted, designZeroStart,
                    designZeroWindowSum, designZeroWindowStart, sampleVars, served>>

WasIdle(p) == designZeroWindowSum[p] > 0
WasBusy(p) == ~WasIdle(p) /\ probeMinMinBufferUsed[p] > SAFE_THRES * MTU

GrowThreshold(e) ==
  LET p == e.queue
      cmsa == currMaxSizeAllowed[p]
      asked == GrowthAsked(cmsa, designZeroWindowSum[p])
  IN  /\ WasIdle(p)
      /\ ssthreshBuffer' = [ssthreshBuffer EXCEPT ![p[1]] = U32(cmsa * ExploreThres)]
      /\ SetsThresholds(p, AllocateBufferSpaceSimple(currMaxSizeAllowed, p, Int32(asked)))
      /\ inRange' = (inRange /\ designZeroWindowSum[p] < Window /\ asked = Int32(asked))
      /\ Closes(e)
      /\ UNCHANGED unwindowedVars

(* As MonitorAgain, without the return: it goes on to clear isWindowOn.    *)
MonitorAgainAndClose(e) ==
  /\ WasBusy(e.queue) /\ e.count < COUNT_THRES
  /\ events' = (events \ {e}) \cup
                 {[at |-> now + Window, queue |-> e.queue, count |-> e.count + 1]}
  /\ isWindowOn' = isWindowOn \ {e.queue}
  /\ UNCHANGED <<currMaxSizeAllowed, probeMinMinBufferUsed,
                 ssthreshBuffer, idleTime, emptyAtDrop, inRange, unwindowedVars>>

MonitorAgain(e) ==
  /\ WasBusy(e.queue) /\ e.count < COUNT_THRES
  /\ events' = (events \ {e}) \cup
                 {[at |-> now + Window, queue |-> e.queue, count |-> e.count + 1]}
  /\ UNCHANGED <<isWindowOn, currMaxSizeAllowed, probeMinMinBufferUsed,
                 ssthreshBuffer, idleTime, emptyAtDrop, inRange, unwindowedVars>>

ShrinkThreshold(e) ==
  /\ WasBusy(e.queue) /\ e.count >= COUNT_THRES
  /\ SetsThresholds(e.queue, ThresholdsSteppedDown(e.queue, e.count))
  /\ inRange' = (inRange /\ StepDownFits(e.queue))
  /\ Closes(e)
  /\ UNCHANGED <<ssthreshBuffer, unwindowedVars>>

KeepThreshold(e) ==
  /\ ~WasIdle(e.queue) /\ ~WasBusy(e.queue)
  /\ Closes(e)
  /\ UNCHANGED <<currMaxSizeAllowed, probeMinMinBufferUsed, ssthreshBuffer,
                 inRange, unwindowedVars>>

EndWindowAfterDrop ==
  \E e \in events :
    /\ e.at = now
    /\ GrowThreshold(e) \/ MonitorAgain(e) \/ ShrinkThreshold(e) \/ KeepThreshold(e)

-----------------------------------------------------------------------------
(* smoothStartMonitoring                                                   *)

(* As LatestSamples, one sample late.                                      *)
LatestSamplesLate(samples) ==
  IF Len(samples) > smoothWindow + 1 THEN Tail(samples) ELSE samples

LatestSamples(samples) ==
  IF Len(samples) > smoothWindow THEN Tail(samples) ELSE samples

SmoothMonitoring(port) ==
  /\ nextSample[port] = now
  /\ nextSample' = [nextSample EXCEPT ![port] = now + smoothQlenCollection]
  /\ smoothQlenRecord' =
       [p \in Probers |->
          IF p[1] = port
          THEN LatestSamples(Append(smoothQlenRecord[p], NBytes(queue[p])))
          ELSE smoothQlenRecord[p]]
  /\ UNCHANGED <<now, sm, queue, dequeueIndex, ssthreshBuffer, thresholdVars,
                 windowVars, probeMinMinBufferUsed, designZeroStart,
                 served, idleTime, inRange>>

ControlSeen == \E p \in Queues \ Probers : probeMinMinBufferUsed[p] # NoMin

(* Time does not pass an event that is due.                                *)
Tick ==
  /\ now < IF ControlSeen THEN ControlHorizon ELSE Horizon
  /\ \A e \in events : e.at > now
  /\ \A port \in Ports : nextSample[port] > now
  /\ now' = now + 1
  /\ idleTime' =
       [p \in Probers |->
          IF p \in isWindowOn \cap served /\ queue[p] = <<>>
          THEN idleTime[p] + 1 ELSE idleTime[p]]
  /\ UNCHANGED <<sm, queue, dequeueIndex, ssthreshBuffer, thresholdVars, windowVars,
                 probeMinMinBufferUsed, designZeroStart, sampleVars, served, inRange>>

Next ==
  \/ DoEnqueue
  \/ \E port \in Ports : DoDequeue(port) \/ SmoothMonitoring(port)
  \/ EndWindowAfterDrop
  \/ Tick

Spec == Init /\ [][Next]_vars

-----------------------------------------------------------------------------
(* Properties                                                              *)

(* The state has the shape that the C++ declarations give it.              *)
TypeOK ==
  /\ now \in 0 .. Horizon
  /\ sm \in [OccupiedBuffer : 0 .. TotalBuffer, RemainingBuffer : 0 .. TotalBuffer]
  /\ currMaxSizeAllowed \in [Queues -> 0 .. WordMod - 1]
  /\ queue \in [Queues -> Seq(DataSizes \cup ControlSizes)]
  /\ \A p \in Queues : queue[p] \in Seq(SizesOf(p)) /\ Len(queue[p]) <= ChildLimit
  /\ dequeueIndex \in [Ports -> Classes]
  /\ ssthreshBuffer \in [Ports -> 0 .. WordMod - 1]
  /\ proberStarted \subseteq Probers /\ isWindowOn \subseteq Queues
  /\ probeMinMinBufferUsed \in [Queues -> 0 .. NoMin]
  /\ designZeroStart \in [Queues -> -1 .. now]
  /\ designZeroWindowSum \in [Queues -> 0 .. now]
  /\ designZeroWindowStart \in [Queues -> 0 .. now \div NsPerUs]
  /\ events \subseteq [at : Nat, queue : Queues, count : 1 .. COUNT_THRES]
  /\ smoothQlenRecord \in [Probers -> Seq(Nat)]
  /\ \A p \in Probers : Len(smoothQlenRecord[p]) \in 1 .. smoothWindow
  /\ nextSample \in [Ports -> now .. now + smoothQlenCollection]
  /\ served \subseteq Probers /\ inRange \in BOOLEAN
  /\ idleTime \in [Probers -> 0 .. now]
  /\ emptyAtDrop \subseteq Queues

Held == SumFunction([p \in Queues |-> NBytes(queue[p])])
Leaked == sm.OccupiedBuffer - Held

(* The shared buffer's counters agree with each other and with the queues, *)
(* up to the bytes of one packet that was alone when it left: none of the  *)
(* refusals, which give bytes back that were just taken, loses any.  The   *)
(* last byte is never handed out (shared-memory.cc 140-156).               *)
BufferAccounting ==
  /\ sm.OccupiedBuffer + sm.RemainingBuffer = TotalBuffer
  /\ sm.RemainingBuffer > 0
  /\ Leaked \in {0} \cup DataSizes \cup ControlSizes

(* That happens once, when the last packet leaves the buffer, and on no    *)
(* other path; as many bytes stay occupied ever after                      *)
(* (shared-memory.cc 152, gen-queue-disc.cc 820-846).                      *)
LeaksOnce == [][Leaked' # Leaked => Leaked = 0 /\ Held > 0 /\ Held' = 0]_vars

(* What endWindowAfterDrop will read as zeroqueueduration, with the idle   *)
(* time that has not ended, is how long the queue was empty within its     *)
(* window, however often it emptied, and wherever the idle times start and *)
(* end; it is short of the part before the window's start, cut off to a    *)
(* microsecond (gen-queue-disc.cc 874-882, 4296-4298).                     *)
IdleTimeIsCounted ==
  \A p \in isWindowOn \cap Probers :
    LET start == designZeroWindowStart[p] * NsPerUs
        pending == IF designZeroStart[p] = -1 THEN 0
                   ELSE now - Max({designZeroStart[p], start})
    IN  (designZeroWindowSum[p] + pending) - idleTime[p] \in 0 .. NsPerUs - 1

(* An open window has one scheduled end, and it ends after two intervals   *)
(* at the latest; a queue without one has none, so none is left that would *)
(* end a later window early (gen-queue-disc.cc 4288-4304, 4345-4348).      *)
OneEndPerWindow ==
  /\ \A p \in Queues :
       Cardinality({ e \in events : e.queue = p }) = IF p \in isWindowOn THEN 1 ELSE 0
  /\ \A e \in events :
       /\ e.at >= now
       /\ e.at - (designZeroWindowStart[e.queue] + 1) * NsPerUs < COUNT_THRES * Window

(* The thresholds never promise more than the buffer has                   *)
(* (shared-memory.cc 959-980).                                             *)
ThresholdsFitBuffer == Allocated(currMaxSizeAllowed) <= TotalBuffer

(* They keep within it as long as every growth that a window asked for was *)
(* an int32_t and no step down wrapped, whatever the sequence of first     *)
(* allocations, growths and steps down (gen-queue-disc.cc 4338-4358).      *)
InRangeThresholdsFit == inRange => ThresholdsFitBuffer

(* A threshold shrinks only for a queue that was never empty in the two    *)
(* intervals before, and not below SAFE_THRES packets, a DecreaseRatio     *)
(* above 1 excepted, which the check of what is left leaves out; it grows  *)
(* only with the queue's first packet, or after idle time in its window; or *)
(* when the drop that opened the window found the queue empty: the window   *)
(* starts with the microsecond of the drop, and the queue may have run      *)
(* empty in it just before (gen-queue-disc.cc 4288-4304, 4338-4362).        *)
ThresholdMoves ==
  [][inRange' =>
       \A p \in Probers :
         /\ currMaxSizeAllowed'[p] < currMaxSizeAllowed[p] =>
              /\ idleTime[p] = 0
              /\ now - COUNT_THRES * Window >= designZeroWindowStart[p] * NsPerUs
              /\ DecreaseRatio = 1 => currMaxSizeAllowed'[p] > SAFE_THRES * MTU
         /\ currMaxSizeAllowed'[p] > currMaxSizeAllowed[p] =>
              \/ p \in proberStarted' \ proberStarted
              \/ idleTime[p] > 0
              \/ p \in emptyAtDrop /\ now % NsPerUs # 0]_vars
=============================================================================
