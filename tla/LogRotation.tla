----------------------------- MODULE LogRotation -----------------------------
(***************************************************************************)
(* Rotation of the structured log (store/logrotate.go) by several          *)
(* processes that share one directory and take no lock.  Before it appends *)
(* a line a process looks at the size of the current file, moves a full    *)
(* one aside under a name made of its own clock and its invocation ID, and *)
(* removes the oldest names beyond the number that is kept.  Each of these *)
(* is a call of the file system, and the other processes run in between.   *)
(*                                                                         *)
(* A line is counted as one byte.  The append is made by the logger that   *)
(* calls RotateLogs, which is not in the repository yet.                   *)
(***************************************************************************)
EXTENDS Integers, Sequences, FiniteSets

CONSTANTS
  Writers,    \* the processes; each is the tag of its invocation ID, a number
  MaxFiles,   \* logs.max_files: the current file counts
  MaxBytes,   \* logs.max_bytes_per_file
  LinesEach,  \* bound: the lines each process writes
  LastSecond  \* bound: the clock

ASSUME LogAssumption ==
  /\ Writers \subseteq Nat \ {0} /\ MaxFiles \in Nat \ {0} /\ MaxBytes \in Nat \ {0}
  /\ LinesEach \in Nat /\ LastSecond \in Nat

VARIABLES
  logs,     \* the files of the directory: the name of each and its lines
  second,   \* the clock
  logging   \* of each process: its step, the name it moves to, what it removes

logVars == <<logs, second, logging>>

(* A name is <<second, tag>>.  No invocation has the tag of the current    *)
(* file, nor the one of a file of the user that only begins alike.         *)
LogFileName == <<0, 0>>
Unlike == <<1, 0>>
\* Bug: a name made of the clock alone
rotatedLogNameOfClock(now, invocation) == <<now, CHOOSE p \in Writers : TRUE>>
rotatedLogName(now, invocation) == <<now, invocation>>
parseRotatedLogName(name) == name[2] # 0
OlderName(m, n) == m[1] < n[1] \/ (m[1] = n[1] /\ m[2] < n[2])
Names == DOMAIN logs
RotatedLogs == {n \in Names : parseRotatedLogName(n)}

Quiet == [step |-> "idle", name |-> LogFileName, doomed |-> {}, written |-> 0, failed |-> FALSE]
LogInit ==
  /\ \E kind \in {"file", "directory", "symlink"} :
       logs = [n \in {LogFileName, Unlike} |->
                 [kind |-> IF n = LogFileName THEN kind ELSE "file", lines |-> <<>>]]
  /\ second = 1
  /\ logging = [p \in Writers |-> Quiet]

Steps(p, step) == logging' = [logging EXCEPT ![p].step = step]
(* The caller gives its line up when a rotation fails, or appends it all   *)
(* the same.                                                               *)
LineDone(p, failed) ==
  logging' = [logging EXCEPT ![p] = [Quiet EXCEPT !.written = logging[p].written + 1, !.failed = failed]]
LogFails(p) ==
  LineDone(p, TRUE) \/ logging' = [logging EXCEPT ![p].step = "append", ![p].failed = TRUE]

(* RotateLogs, currentLogSize: an absent file has no bytes; what is not a  *)
(* file is refused.                                                        *)
currentLogSize == IF LogFileName \in Names THEN Len(logs[LogFileName].lines) ELSE 0
RotateLogs(p) ==
  /\ logging[p].step = "idle" /\ logging[p].written < LinesEach
  /\ IF LogFileName \in Names /\ logs[LogFileName].kind # "file" THEN LineDone(p, TRUE)
     ELSE IF currentLogSize = 0 \/ currentLogSize + 1 <= MaxBytes THEN Steps(p, "append")
     ELSE logging' = [logging EXCEPT ![p].step = "rename", ![p].name = rotatedLogName(second, p)]
  /\ UNCHANGED <<logs, second>>

(* The move replaces a file of the same name.  The process that finds no   *)
(* current file goes on: another one has moved it.                         *)
RenameLog(p) ==
  /\ logging[p].step = "rename"
  /\ \/ /\ LogFileName \in Names
        /\ logs' = [n \in (Names \ {LogFileName}) \cup {logging[p].name} |->
                      IF n = logging[p].name THEN logs[LogFileName] ELSE logs[n]]
        /\ Steps(p, "list")
     \/ LogFileName \notin Names /\ Steps(p, "list") /\ UNCHANGED logs
     \/ LogFails(p) /\ UNCHANGED logs
  /\ UNCHANGED second

(* listRotatedLogs, pruneRotatedLogs: the oldest names beyond MaxFiles - 1 *)
\* Bug: the current file is not counted
keepOneMore == MaxFiles
keep == MaxFiles - 1
Oldest(names, count) ==
  {n \in names : Cardinality({m \in names : OlderName(m, n)}) < count}
ListLogs(p) ==
  /\ logging[p].step = "list"
  /\ \/ logging' = [logging EXCEPT ![p].step = "remove",
                      ![p].doomed = Oldest(RotatedLogs, Cardinality(RotatedLogs) - keep)]
     \/ LogFails(p)
  /\ UNCHANGED <<logs, second>>
(* one by one, the oldest first; a name that is gone already is no error   *)
RemoveLog(p) ==
  /\ logging[p].step = "remove" /\ logging[p].doomed # {}
  /\ \E n \in Oldest(logging[p].doomed, 1) :
       \/ /\ logs' = [m \in Names \ {n} |-> logs[m]]
          /\ logging' = [logging EXCEPT ![p].doomed = @ \ {n}]
       \/ LogFails(p) /\ UNCHANGED logs
  /\ UNCHANGED second
Pruned(p) ==
  /\ logging[p].step = "remove" /\ logging[p].doomed = {}
  /\ Steps(p, "append") /\ UNCHANGED <<logs, second>>

(* the logger: creates the file when it is gone                            *)
AppendLine(p) ==
  /\ logging[p].step = "append"
  /\ LET before == IF LogFileName \in Names THEN logs[LogFileName].lines ELSE <<>> IN
     logs' = [n \in Names \cup {LogFileName} |->
                IF n = LogFileName
                THEN [kind |-> "file", lines |-> Append(before, <<p, logging[p].written>>)]
                ELSE logs[n]]
  /\ LineDone(p, logging[p].failed)
  /\ UNCHANGED second

NextSecond == second < LastSecond /\ second' = second + 1 /\ UNCHANGED <<logs, logging>>

LogNext ==
  \/ \E p \in Writers : RotateLogs(p) \/ RenameLog(p) \/ ListLogs(p) \/ RemoveLog(p) \/ Pruned(p) \/ AppendLine(p)
  \/ NextSecond

LogSpec == LogInit /\ [][LogNext]_logVars

(***************************************************************************)
(* Properties                                                              *)
(***************************************************************************)
(* Retention: when no process is rotating and none has failed, there are   *)
(* no more files than max_files, whatever the processes did meanwhile.     *)
LogsBounded ==
  (\A p \in Writers : logging[p].step = "idle" /\ ~logging[p].failed) =>
    Cardinality(RotatedLogs) < MaxFiles

(* The lock is replaced by names: a file that was moved aside is removed   *)
(* by the retention of some process or replaced by the process it belongs  *)
(* to, never replaced by another; and a file gdtvm did not name stays.     *)
RotatedLogsKept ==
  [][/\ Unlike \in Names'
     /\ \A n \in RotatedLogs :
          \/ n \in Names' /\ logs'[n] = logs[n]
          \/ n \notin Names' /\ \E p \in Writers : n \in logging[p].doomed
          \/ logging[n[2]].step = "rename" /\ logging'[n[2]].step = "list"]_logVars

(***************************************************************************)
(* The inductive invariant behind the properties                           *)
(***************************************************************************)
RotatedNames == Nat \X Writers
Rotations ==
  [step : {"idle", "rename", "list", "remove", "append"}, name : {LogFileName} \cup RotatedNames,
   doomed : SUBSET RotatedNames, written : Nat, failed : BOOLEAN]

LogTypeOK ==
  /\ IsFiniteSet(Names) /\ Names \subseteq {LogFileName, Unlike} \cup RotatedNames
  /\ second \in Nat /\ logging \in [Writers -> Rotations]

(* A process moves the file to a name of its own, and what the user keeps  *)
(* beside it is there.                                                     *)
NamesAreOwn ==
  /\ Unlike \in Names
  /\ \A p \in Writers : logging[p].step = "rename" => logging[p].name \in Nat \X {p}

(* A file too many is doomed, or some process is about to look.            *)
DoomedLogs == UNION {logging[p].doomed : p \in Writers}
SurplusIsDoomed ==
  (\A p \in Writers : ~logging[p].failed) =>
    /\ \A p \in Writers : logging[p].step # "remove" => logging[p].doomed = {}
    /\ (\E p \in Writers : logging[p].step = "list") \/ Cardinality(RotatedLogs \ DoomedLogs) <= keep

LogInv == LogTypeOK /\ NamesAreOwn /\ SurplusIsDoomed
=============================================================================
