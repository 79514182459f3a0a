--------------------------- MODULE ExperimentBatch ---------------------------
(***************************************************************************)
(* How the simulation figures are made.  run_ns3.py hands the lines of a   *)
(* conf file, its jobs, to a pool of workers; a worker makes the job's log *)
(* directory, starts the simulation in it and waits; process_data.py reads *)
(* the logs.  run.conf and quickrun.conf name the same directories, a      *)
(* batch may be killed while its simulations live on, and nothing stops    *)
(* process_data.py from reading logs that are being written.               *)
(*                                                                         *)
(* The jobs of a conf file have a directory each, which is named here by   *)
(* the job, below a common one.  A line of a log is its position: runs of  *)
(* a job have the same seed, and write the same line there.                *)
(***************************************************************************)
EXTENDS Integers, Sequences, FiniteSets

CONSTANTS
  NumJobs,        (* lines of the conf file                                *)
  Workers,        (* --worker                                              *)
  FullLines, QuickLines,   (* lines of tor.tr after a full, a quick run    *)
  Needed,         (* sim*1000, the samples process_data.py expects         *)
  NeedsXml,       (* it reads flowmonitor.xml too (burst, multiburst)      *)
  MaxBatches      (* bounds the batches started                            *)

Jobs == 1 .. NumJobs
Parent == 0

ASSUME BatchAssumption ==
  /\ NumJobs \in Nat \ {0} /\ Workers \in Nat \ {0} /\ MaxBatches \in Nat
  /\ QuickLines \in Nat /\ Needed \in Nat \ {0} /\ FullLines \in Nat
  /\ QuickLines <= Needed /\ Needed < FullLines
  /\ NeedsXml \in BOOLEAN

VARIABLES
  modes,          (* of the batches started so far: "full" or "quick"      *)
  runner,         (* run_ns3.py                                            *)
  task,           (* where run_thread is with a job                        *)
  dirs,           (* the directories there are                             *)
  sim,            (* per batch and job: the simulation                     *)
  written,        (* ... how many lines it has written                     *)
  tor,            (* per job: tor.tr, as the positions of its lines        *)
  xml,            (* per job: flowmonitor.xml                              *)
  crashed,        (* history: the jobs of this batch that ended early      *)
  disturbed,      (* history: one of a killed batch has, since this batch  *)
                  (* started, opened its log or written its flows          *)
  contested,      (* history, per job: 0, or the batch whose simulation    *)
                  (* cut off a log that another one was writing, until it  *)
                  (* has run the full experiment to its end there          *)
  reader          (* process_data.py                                       *)

fileVars == <<tor, xml>>
simVars == <<sim, written, crashed, disturbed, contested>>
batchVars == <<modes, runner, task, dirs, fileVars, simVars, reader>>

Runs == (1 .. MaxBatches) \X Jobs
batch == Len(modes)
LinesOf(mode) == IF mode = "full" THEN FullLines ELSE QuickLines

(* "contested" and "inexact" are history: a log it has read was contested,  *)
(* and the samples it takes from one are not those of the first "Needed"    *)
(* milliseconds.                                                            *)
Idle == [at |-> 0, file |-> "tor", warned |-> FALSE,
         contested |-> FALSE, inexact |-> FALSE]

BatchInit ==
  /\ modes = <<>>
  /\ runner = "idle"
  /\ task = [j \in Jobs |-> "none"]
  /\ dirs = {}
  /\ sim = [r \in Runs |-> "off"]
  /\ written = [r \in Runs |-> 0]
  /\ tor = [j \in Jobs |-> [there |-> FALSE, lines |-> {}]]
  /\ xml = [j \in Jobs |-> "none"]
  /\ crashed = {} /\ disturbed = FALSE
  /\ contested = [j \in Jobs |-> 0]
  /\ reader = Idle

-----------------------------------------------------------------------------
(* run_ns3.py, the main process.                                           *)

(* The jobs are submitted and the pool is closed: join waits from here on. *)
StartBatch(mode) ==
  /\ runner # "pool" /\ batch < MaxBatches
  /\ runner' = "pool"
  /\ modes' = Append(modes, mode)
  /\ task' = [j \in Jobs |-> "queued"]
  /\ crashed' = {} /\ disturbed' = FALSE
  /\ UNCHANGED <<dirs, fileVars, sim, written, contested, reader>>

Join ==
  /\ runner = "pool"
  /\ \A j \in Jobs : task[j] \in {"returned", "raised"}
  /\ runner' = "joined"
  /\ UNCHANGED <<modes, task, dirs, fileVars, simVars, reader>>

Alive == { r \in Runs : sim[r] \in {"starting", "writing", "closing"} }

(* The runner and its workers are killed; some of the simulations survive. *)
KillBatch(survivors) ==
  /\ runner = "pool"
  /\ runner' = "killed"
  /\ task' = [j \in Jobs |-> "none"]
  /\ LET gone == { r \in Alive : r[1] = batch } \ survivors
     IN  /\ sim' = [r \in Runs |-> IF r \in gone THEN "ended" ELSE sim[r]]
         /\ written' = [r \in Runs |-> IF r \in gone THEN 0 ELSE written[r]]
  /\ UNCHANGED <<modes, dirs, fileVars, crashed, disturbed, contested, reader>>

-----------------------------------------------------------------------------
(* run_thread, in a worker.                                                *)

Moves(j, from, to) == task[j] = from /\ task' = [task EXCEPT ![j] = to]

Busy == { j \in Jobs : task[j] \notin {"none", "queued", "returned", "raised"} }

threadVars == <<modes, runner, fileVars, simVars, reader>>

(* A free worker takes the first job of the queue and looks for the        *)
(* directory: none but this worker would make it.                          *)
TakeJob(j) ==
  /\ Cardinality(Busy) < Workers
  /\ \A k \in 1 .. j - 1 : task[k] # "queued"
  /\ Moves(j, "queued", IF j \in dirs THEN "popen" ELSE "head")
  /\ UNCHANGED <<dirs, threadVars>>

(* os.makedirs: first the parent, if there is none.                        *)
CheckHead(j) ==
  /\ Moves(j, "head", IF Parent \in dirs THEN "leaf" ELSE "mkhead")
  /\ UNCHANGED <<dirs, threadVars>>

(* As MakeHead, not tolerating that another worker was faster.             *)
MakeHeadOrRaise(j) ==
  /\ Moves(j, "mkhead", IF Parent \in dirs THEN "raised" ELSE "leaf")
  /\ dirs' = dirs \cup {Parent}
  /\ UNCHANGED threadVars

MakeHead(j) ==
  /\ Moves(j, "mkhead", "leaf")
  /\ dirs' = dirs \cup {Parent}
  /\ UNCHANGED threadVars

(* The directory itself must not be there: FileExistsError ends the job,   *)
(* unseen, for there is no error_callback.                                 *)
MakeLeaf(j) ==
  /\ Moves(j, "leaf", IF j \in dirs THEN "raised" ELSE "popen")
  /\ dirs' = dirs \cup {j}
  /\ UNCHANGED threadVars

StartSim(j) ==
  /\ sim' = [sim EXCEPT ![<<batch, j>>] = "starting"]
  /\ UNCHANGED <<modes, runner, dirs, fileVars, written, crashed, disturbed,
                 contested, reader>>

(* As Popen, returning at once.                                            *)
PopenAndReturn(j) == Moves(j, "popen", "returned") /\ StartSim(j)

Popen(j) == Moves(j, "popen", "wait") /\ StartSim(j)

(* proc.wait: the exit status is not looked at.                            *)
Wait(j) ==
  /\ Moves(j, "wait", "returned")
  /\ sim[<<batch, j>>] = "ended"
  /\ UNCHANGED <<dirs, threadVars>>

RunThread(j) ==
  \/ TakeJob(j) \/ CheckHead(j) \/ MakeHead(j) \/ MakeLeaf(j)
  \/ Popen(j) \/ Wait(j)

-----------------------------------------------------------------------------
(* star-buffer-mp, which run_ns3.py knows as a shell command.              *)

simulationVars == <<modes, runner, task, dirs, reader>>

Becomes(r, state) == sim' = [sim EXCEPT ![r] = state]
Mode(r) == modes[r[1]]
IsOrphan(r) == r[1] < batch
Writers(j) == { r \in Runs : r[2] = j /\ sim[r] = "writing" }

(* It opens tor.tr for writing, which cuts off what was there.             *)
OpenLog(r) ==
  /\ sim[r] = "starting"
  /\ Becomes(r, "writing")
  /\ tor' = [tor EXCEPT ![r[2]] = [there |-> TRUE, lines |-> {}]]
  /\ disturbed' = (disturbed \/ IsOrphan(r))
  /\ contested' = [contested EXCEPT ![r[2]] = IF Writers(r[2]) = {} THEN 0 ELSE r[1]]
  /\ UNCHANGED <<xml, written, crashed, simulationVars>>

(* As WriteLine, with one sample more at the very end.                     *)
WriteLineAtStop(r) ==
  /\ sim[r] = "writing" /\ written[r] <= LinesOf(Mode(r))
  /\ written' = [written EXCEPT ![r] = @ + 1]
  /\ tor' = [tor EXCEPT ![r[2]].lines = @ \cup {written[r] + 1}]
  /\ UNCHANGED <<xml, sim, crashed, disturbed, contested, simulationVars>>

(* A line goes where this writer is, whatever others have cut off.         *)
WriteLine(r) ==
  /\ sim[r] = "writing" /\ written[r] < LinesOf(Mode(r))
  /\ written' = [written EXCEPT ![r] = @ + 1]
  /\ tor' = [tor EXCEPT ![r[2]].lines = @ \cup {written[r] + 1}]
  /\ UNCHANGED <<xml, sim, crashed, disturbed, contested, simulationVars>>

(* The flow monitor's file is written after the simulation has ended.      *)
OpenXml(r) ==
  /\ sim[r] = "writing" /\ written[r] = LinesOf(Mode(r))
  /\ Becomes(r, "closing")
  /\ written' = [written EXCEPT ![r] = 0]
  /\ xml' = [xml EXCEPT ![r[2]] = "part"]
  /\ disturbed' = (disturbed \/ IsOrphan(r))
  /\ contested' = IF contested[r[2]] = r[1] /\ Mode(r) = "full"
                  THEN [contested EXCEPT ![r[2]] = 0] ELSE contested
  /\ UNCHANGED <<tor, crashed, simulationVars>>

CloseXml(r) ==
  /\ sim[r] = "closing"
  /\ Becomes(r, "ended")
  /\ xml' = [xml EXCEPT ![r[2]] = Mode(r)]
  /\ disturbed' = (disturbed \/ IsOrphan(r))
  /\ UNCHANGED <<tor, written, crashed, contested, simulationVars>>

(* It runs out of memory, or is killed.                                    *)
Crash(r) ==
  /\ r \in Alive
  /\ Becomes(r, "ended")
  /\ written' = [written EXCEPT ![r] = 0]
  /\ crashed' = IF IsOrphan(r) THEN crashed ELSE crashed \cup {r[2]}
  /\ UNCHANGED <<fileVars, disturbed, contested, simulationVars>>

Simulate(r) == OpenLog(r) \/ WriteLine(r) \/ OpenXml(r) \/ CloseXml(r)

-----------------------------------------------------------------------------
(* process_data.py, which reads one log after the other.                   *)

(* load_stats leaves out the last line, and a line that starts with NULs:  *)
(* one before which the file has a hole.                                   *)
AfterHole(lines) == { n \in lines : n > 1 /\ n - 1 \notin lines }
LastLine(lines) == { n \in lines : \A m \in lines : m <= n }
LoadStats(lines) == lines \ (AfterHole(lines) \cup LastLine(lines))

(* As Short, counting the last line, which may be cut off.                 *)
ShortOfWholeLog(lines) == Cardinality(lines \ AfterHole(lines)) < Needed

Short(lines) == Cardinality(LoadStats(lines)) < Needed

(* The samples averaged, the first "Needed" of those it keeps, are the      *)
(* first that the simulation took.                                          *)
Exact(lines) == 1 .. Needed \subseteq LoadStats(lines)

readerVars == <<modes, runner, task, dirs, fileVars, simVars>>

StartProcessing ==
  /\ reader.at \notin Jobs
  /\ reader' = [Idle EXCEPT !.at = 1]
  /\ UNCHANGED readerVars

(* A short log is warned about.  A missing one is too, and its samples are *)
(* then missed by the averaging, which ends the script.                    *)
ReadTor ==
  LET log == tor[reader.at]
  IN  /\ reader.at \in Jobs /\ reader.file = "tor"
      /\ reader' =
           IF ~log.there
           THEN Idle
           ELSE [reader EXCEPT
                   !.file = "xml",
                   !.warned = @ \/ Short(log.lines),
                   !.contested = @ \/ contested[reader.at] # 0,
                   !.inexact = @ \/ ~ Exact(log.lines)]
      /\ UNCHANGED readerVars

(* A flowmonitor.xml that is not all there ends the script, and so does    *)
(* one without the flows of the full experiment, or its absence.           *)
ReadXml ==
  /\ reader.at \in Jobs /\ reader.file = "xml"
  /\ reader' =
       IF NeedsXml /\ xml[reader.at] # "full"
       THEN Idle
       ELSE [reader EXCEPT !.at = @ + 1, !.file = "tor"]
  /\ UNCHANGED readerVars

(* All has been read and averaged: the data files are written.             *)
HasData == reader.at > NumJobs

Process == StartProcessing \/ ReadTor \/ ReadXml

BatchNext ==
  \/ \E mode \in {"full", "quick"} : StartBatch(mode)
  \/ Join
  \/ \E survivors \in SUBSET Alive : KillBatch(survivors)
  \/ \E j \in Jobs : RunThread(j)
  \/ \E r \in Runs : Simulate(r) \/ Crash(r)
  \/ Process

BatchSpec == BatchInit /\ [][BatchNext]_batchVars

-----------------------------------------------------------------------------
Stages == {"none", "queued", "head", "mkhead", "leaf", "popen", "wait",
           "returned", "raised"}
SimStates == {"off", "starting", "writing", "closing", "ended"}
XmlStates == {"none", "part", "quick", "full"}

BatchTypeOK ==
  /\ modes \in Seq({"full", "quick"}) /\ Len(modes) <= MaxBatches
  /\ runner \in {"idle", "pool", "joined", "killed"}
  /\ task \in [Jobs -> Stages]
  /\ dirs \subseteq Jobs \cup {Parent}
  /\ sim \in [Runs -> SimStates]
  /\ written \in [Runs -> 0 .. FullLines]
  /\ tor \in [Jobs -> [there : BOOLEAN, lines : SUBSET (1 .. FullLines)]]
  /\ xml \in [Jobs -> XmlStates]
  /\ crashed \subseteq Jobs /\ disturbed \in BOOLEAN
  /\ contested \in [Jobs -> 0 .. MaxBatches]
  /\ reader \in [at : 0 .. NumJobs + 1, file : {"tor", "xml"},
                  warned : BOOLEAN, contested : BOOLEAN, inexact : BOOLEAN]

(* No job is lost to the race of two workers for a directory: a worker may *)
(* find, between its test and its mkdir, that another one has made the     *)
(* ancestors, and the job runs all the same (run_ns3.py 12-13).            *)
NoJobLostToRaces == \A j \in Jobs : task[j] # "raised"

(* When run_ns3.py ends, the logs whose simulations did not crash are      *)
(* complete, of this batch, and stay so, whatever the batch found there,   *)
(* and although a simulation of a killed batch may go on writing into them *)
(* (run_ns3.py 15-16, 38-39).                                              *)
JoinMeansComplete ==
  runner = "joined" /\ ~disturbed =>
    \A j \in Jobs \ crashed :
      /\ 1 .. LinesOf(modes[batch]) \subseteq tor[j].lines
      /\ xml[j] = modes[batch]

(* Data files written without a warning average the samples of the first   *)
(* "Needed" milliseconds, no other ones and none at a shifted time, whatever *)
(* crashed, was killed, was started over as a full or a quick run, or was    *)
(* still being written when it was read.  A simulation that cuts off a log   *)
(* another one goes on writing may leave a hole in it, and is excepted until *)
(* it has written the whole log (process_data.py of burst, 22-25, 195-204,   *)
(* 289-302; star-buffer-mp.cc 2196).                                         *)
SilentDataIsExact ==
  HasData /\ ~ reader.warned /\ ~ reader.contested => ~ reader.inexact
=============================================================================
