----------------------------- MODULE VideoClient -----------------------------
(***************************************************************************)
(* The video client of the testbed.  The page, dash.html, appends stall    *)
(* events and loaded fragments to two arrays; video.py polls them from     *)
(* another process, with a script call to read an array and another one to *)
(* empty it, and the page goes on in between.  The player signals a stall  *)
(* per stream, audio or video, and the page does not tell them apart.      *)
(*                                                                         *)
(* Time is in ticks.  What the player does is what dash.html uses of it;   *)
(* page and poller read the clock of one host.                             *)
(***************************************************************************)
EXTENDS Integers, Sequences, FiniteSetsExt, Functions

CONSTANTS
  Streams,
  Duration,       (* --duration                                            *)
  MaxTime, MaxEvents                   (* bounds                           *)

ASSUME VideoAssumption ==
  Duration \in Nat /\ MaxTime \in Nat /\ MaxEvents \in Nat

VARIABLES
  now,
  stalled,            (* the streams whose buffer is empty                 *)
  rebuffer_events,    (* the page's array of stall events                  *)
  dash_data,          (* whether its array of fragments holds any: all but *)
                      (* the last are passed over                          *)
  events,             (* stall events so far                               *)
  pc,                 (* where the poller is                               *)
  taken,              (* the events it has read and not yet gone through   *)
  rebuffer_periods,   (* its list of stalls, whose end may be None         *)
  last_print_time,
  column,             (* history: sum of the RebufferTime column           *)
  stalledAt, gapAt    (* history: ticks during which playback was stalled, *)
                      (* events were read and not yet emptied              *)

page == <<stalled, rebuffer_events, dash_data, events>>
history == <<column, stalledAt, gapAt>>
videoVars == <<now, page, pc, taken, rebuffer_periods, last_print_time, history>>

None == -1
Last(s) == s[Len(s)]

(* No stream has data at first; that is not signalled.                     *)
VideoInit ==
  /\ now = 0
  /\ stalled = Streams
  /\ rebuffer_events = <<>> /\ dash_data = FALSE
  /\ events = 0
  /\ pc = "read" /\ taken = <<>>
  /\ rebuffer_periods = <<>> /\ last_print_time = 0
  /\ column = 0 /\ stalledAt = {} /\ gapAt = {}

-----------------------------------------------------------------------------
(* The page.                                                               *)

pollerVars == <<pc, taken, rebuffer_periods, last_print_time>>

PushEvent(type) ==
  /\ events < MaxEvents
  /\ events' = events + 1
  /\ rebuffer_events' = Append(rebuffer_events, [type |-> type, at |-> now])
  /\ UNCHANGED <<now, dash_data, pollerVars, history>>

BufferEmpty(s) ==
  s \notin stalled /\ stalled' = stalled \cup {s} /\ PushEvent("start")

BufferLoaded(s) ==
  s \in stalled /\ stalled' = stalled \ {s} /\ PushEvent("end")

(* A fragment of the video stream; those of audio are skipped.             *)
FragmentLoaded ==
  /\ dash_data' = TRUE
  /\ UNCHANGED <<now, stalled, rebuffer_events, events, pollerVars, history>>

InGap == pc = "gap"

Tick ==
  /\ now < MaxTime
  /\ now' = now + 1
  /\ stalledAt' = IF stalled # {} THEN stalledAt \cup {now} ELSE stalledAt
  /\ gapAt' = IF InGap THEN gapAt \cup {now} ELSE gapAt
  /\ UNCHANGED <<page, pollerVars, column>>

-----------------------------------------------------------------------------
(* The poller.                                                             *)

ReadEvents ==
  /\ pc = "read" /\ now < Duration
  /\ taken' = rebuffer_events
  /\ pc' = IF rebuffer_events = <<>> THEN "data" ELSE "gap"
  /\ UNCHANGED <<now, page, rebuffer_periods, last_print_time, history>>

IsOpen == rebuffer_periods # <<>> /\ Last(rebuffer_periods).to = None

Ended(at) ==
  [rebuffer_periods EXCEPT ![Len(rebuffer_periods)].to = at]

takenVars == <<now, page, pc, last_print_time, history>>

(* As TakeEvent, with an end that also prolongs a closed period.           *)
TakeAnyEnd ==
  /\ InGap /\ taken # <<>>
  /\ taken' = Tail(taken)
  /\ rebuffer_periods' =
       LET event == Head(taken)
       IN  IF event.type = "start"
           THEN Append(rebuffer_periods, [from |-> event.at, to |-> None])
           ELSE IF rebuffer_periods # <<>> THEN Ended(event.at) ELSE <<>>
  /\ UNCHANGED takenVars

(* An end without an open period, as the one of the start of playback, is  *)
(* passed over.                                                            *)
TakeEvent ==
  /\ InGap /\ taken # <<>>
  /\ taken' = Tail(taken)
  /\ LET event == Head(taken)
     IN  \/ /\ event.type = "start"
            /\ rebuffer_periods' =
                 Append(rebuffer_periods, [from |-> event.at, to |-> None])
         \/ /\ event.type = "end" /\ IsOpen
            /\ rebuffer_periods' = Ended(event.at)
         \/ /\ event.type = "end" /\ ~ IsOpen
            /\ UNCHANGED rebuffer_periods
  /\ UNCHANGED takenVars

(* What the page has added since the array was read is lost.               *)
ClearEvents ==
  /\ InGap /\ taken = <<>>
  /\ rebuffer_events' = <<>>
  /\ pc' = "data"
  /\ UNCHANGED <<now, stalled, dash_data, events, taken, rebuffer_periods,
                 last_print_time, history>>

ReadData ==
  /\ pc = "data"
  /\ pc' = IF dash_data THEN "row" ELSE "read"
  /\ UNCHANGED <<now, page, taken, rebuffer_periods, last_print_time, history>>

Closed == { p \in DOMAIN rebuffer_periods : rebuffer_periods[p].to # None }

(* As After, without the test of line 110.                                 *)
AfterUnguarded(t, p) ==
  LET period == rebuffer_periods[p]
  IN  period.to - Max({period.from, t})

(* The part of a closed period after time t.                               *)
After(t, p) ==
  LET period == rebuffer_periods[p]
  IN  IF period.to > t THEN period.to - Max({period.from, t}) ELSE 0

current_rebuffer_time ==
  SumFunction([p \in Closed |-> After(last_print_time, p)])

PrintRow ==
  /\ pc = "row"
  /\ column' = column + current_rebuffer_time
  /\ pc' = "stamp"
  /\ UNCHANGED <<now, page, taken, rebuffer_periods, last_print_time,
                 stalledAt, gapAt>>

(* As StampRow, without line 131.                                          *)
ClearData ==
  /\ pc = "stamp"
  /\ dash_data' = FALSE
  /\ pc' = "read"
  /\ UNCHANGED <<now, stalled, rebuffer_events, events, taken,
                 rebuffer_periods, last_print_time, history>>

StampRow ==
  /\ pc = "stamp"
  /\ last_print_time' = now
  /\ dash_data' = FALSE
  /\ pc' = "read"
  /\ UNCHANGED <<now, stalled, rebuffer_events, events, taken,
                 rebuffer_periods, history>>

(* The time is up, the video has ended or a script call has failed: the    *)
(* browser is closed.                                                      *)
Quit ==
  /\ pc # "quit"
  /\ pc' = "quit"
  /\ UNCHANGED <<now, page, taken, rebuffer_periods, last_print_time, history>>

Page ==
  /\ pc # "quit"
  /\ \/ \E s \in Streams : BufferEmpty(s) \/ BufferLoaded(s)
     \/ FragmentLoaded
     \/ Tick

VideoNext ==
  \/ Page
  \/ ReadEvents \/ TakeEvent \/ ClearEvents
  \/ ReadData \/ PrintRow \/ StampRow
  \/ Quit

VideoSpec == VideoInit /\ [][VideoNext]_videoVars

-----------------------------------------------------------------------------
Times == 0 .. MaxTime
Events == [type : {"start", "end"}, at : Times]

VideoTypeOK ==
  /\ now \in Times
  /\ stalled \subseteq Streams
  /\ rebuffer_events \in Seq(Events) /\ taken \in Seq(Events)
  /\ dash_data \in BOOLEAN /\ events \in 0 .. MaxEvents
  /\ pc \in {"read", "gap", "data", "row", "stamp", "quit"}
  /\ rebuffer_periods \in Seq([from : Times, to : Times \cup {None}])
  /\ last_print_time \in Times
  /\ column \in Nat
  /\ stalledAt \subseteq Times /\ gapAt \subseteq Times

Ticks(p) == rebuffer_periods[p].from .. rebuffer_periods[p].to - 1

(* A stall that is recorded, as an R line, is real: during all of it some   *)
(* stream was stalled, except perhaps while events read were not yet        *)
(* emptied.  Ends and starts lost there, and ends of the other stream,      *)
(* never make a stall of time in which the video played (video.py 79-97).   *)
RecordedStallsAreReal ==
  \A p \in Closed : Ticks(p) \subseteq stalledAt \cup gapAt

(* The RebufferTime column never adds up to more than that, however stalls, *)
(* rows and fragments fall: no time is counted in two rows, or twice in one *)
(* for the two streams (video.py 107-112, 131).                             *)
NeverOverstated == column <= Cardinality(stalledAt \cup gapAt)
=============================================================================
