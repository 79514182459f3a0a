---------------------------- MODULE TitrateLink -----------------------------
(***************************************************************************)
(* What the titrate switch promises: a queue in front of a link of a fixed *)
(* rate, drained at every tick of the clock, and a drop threshold that is  *)
(* adjusted at the first arrival after the end of a window.                *)
(*                                                                         *)
(* There are no timestamps: time passes in Tick alone, which drains the    *)
(* queue, counts the tick as idle if the queue ran dry in it, and brings   *)
(* the open window one tick nearer to its end.  The handler computes the   *)
(* same from timestamps when a packet arrives.                             *)
(***************************************************************************)
EXTENDS Integers

CONSTANTS
  Rate,           (* what a tick drains, in units of 1/Scale bit           *)
  Scale,          (* units of the queue per bit                            *)
  WindowTicks,    (* the length of a window round                          *)
  Rounds,         (* rounds a window may last                              *)
  MtuSize, MinThr, MaxThr, InitThr, Decrease,
  SsOn, SsMult, One,  (* slow start: enabled, multiplier, unit of factors  *)
  Sizes,          (* packet sizes in bits                                  *)
  Averages        (* averages the sampler may publish                      *)

VARIABLES
  queue,          (* backlog in units of 1/Scale bit                       *)
  started,        (* a packet has arrived                                  *)
  idle,           (* idle ticks since then                                 *)
  thr, ssthr,     (* threshold and slow-start threshold, in packets        *)
  window,         (* [round, left, idle] of the open window, round 0: none *)
  avg             (* the average the admission test uses                   *)

lvars == <<queue, started, idle, thr, ssthr, window, avg>>

Closed == [round |-> 0, left |-> 0, idle |-> 0]

LMin(a, b) == IF a < b THEN a ELSE b
LMax(a, b) == IF a > b THEN a ELSE b

LInit ==
  /\ queue = 0 /\ started = FALSE /\ idle = 0
  /\ thr = InitThr /\ ssthr = InitThr
  /\ window = Closed
  /\ avg = 0

RunsDry == started /\ queue < Rate

LTick ==
  /\ queue' = LMax(0, queue - Rate)
  /\ idle' = IF RunsDry THEN idle + 1 ELSE idle
  /\ window' = IF window.round > 0 /\ window.left > 0
               THEN [window EXCEPT !.left = @ - 1,
                                   !.idle = IF RunsDry THEN @ + 1 ELSE @]
               ELSE window
  /\ UNCHANGED <<started, thr, ssthr, avg>>

-----------------------------------------------------------------------------
Over == window.round > 0 /\ window.left = 0

(* The threshold grows by the ratio of the window to its busy part.        *)
Raised ==
  LET ticks == WindowTicks * window.round
      busy  == ticks - window.idle
  IN  IF busy = 0
      THEN MaxThr
      ELSE LMin(MaxThr, (thr * ((ticks * One) \div busy)) \div One)

Lowered ==
  IF SsOn /\ thr > ssthr THEN LMax(ssthr, thr \div 2)
                         ELSE LMax(MinThr, thr - Decrease)

NewThr == IF ~ Over THEN thr ELSE IF window.idle > 0 THEN Raised ELSE Lowered

NewSsthr ==
  IF Over /\ window.idle > 0 /\ SsOn
  THEN LMin(Raised, (thr * SsMult) \div One)
  ELSE ssthr

NewRound == [round |-> window.round + 1, left |-> WindowTicks, idle |-> 0]

NewWindow ==
  IF ~ Over THEN window
  ELSE IF window.idle = 0 /\ window.round < Rounds THEN NewRound
  ELSE Closed

(* The backlog in whole bits, a started bit counting as one.               *)
Held == (queue + Scale - 1) \div Scale

Fits(size) ==
  /\ Held + size <= MaxThr * MtuSize
  /\ \/ avg + size <= NewThr * MtuSize
     \/ Held + size <= NewThr * MtuSize

LArrive(size) ==
  /\ started' = TRUE
  /\ thr' = NewThr
  /\ ssthr' = NewSsthr
  /\ \/ /\ Fits(size)
        /\ queue' = (Held + size) * Scale
        /\ window' = NewWindow
     \/ /\ ~ Fits(size)
        /\ queue' = Held * Scale
        /\ window' = IF NewWindow.round > 0
                     THEN NewWindow
                     ELSE [round |-> 1, left |-> WindowTicks, idle |-> 0]
  /\ UNCHANGED <<idle, avg>>

LPublish(a) ==
  /\ avg' = a
  /\ UNCHANGED <<queue, started, idle, thr, ssthr, window>>

LNext ==
  \/ LTick
  \/ \E size \in Sizes : LArrive(size)
  \/ \E a \in Averages : LPublish(a)

LSpec == LInit /\ [][LNext]_lvars
=============================================================================
