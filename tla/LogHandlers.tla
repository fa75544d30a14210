---------------------------- MODULE LogHandlers -----------------------------
(* core/logx/logger.go: the outputs NewLogger builds, and the loggers that   *)
(* are derived from it with attributes, groups and minimum levels, as every  *)
(* request and component does.  A text handler keeps its attributes in a Go  *)
(* slice, and derived handlers may look at the same array; a JSON handler is *)
(* log/slog's and prints what it was given.  A write may fail.               *)
EXTENDS Naturals, Sequences

CONSTANTS
  Config,      \* the configurations: [level, force, console, file]
  Attr,        \* attributes
  Mins,        \* the minimum levels components ask for
  Logged,      \* the levels of records
  MaxLoggers,  \* bound: loggers
  None         \* an unset level or output, an empty cell

Debug == 0
Info == 1
Warn == 2
Error == 3
Level == Debug..Error

VARIABLES
  config,
  outputs,  \* the outputs, in the order of multiHandler.handlers
  heap,     \* heap[a]: the array a, as long as its capacity
  loggers,  \* [mins, grp, pre, asked]: the filters around the handlers, the depth of the
            \* group, every output's slice [arr, len] and the attributes asked for, with the
            \* group each was asked for in
  line      \* the last record and what became of it

vars == <<config, outputs, heap, loggers, line>>

\* "info" is not among the levels an output can override with.
getLogLevel(level) ==
  IF config.force THEN Debug
  ELSE IF level \in {Debug, Warn, Error} THEN level
  ELSE IF config.level = None THEN Info ELSE config.level

Output(sink, o) == [sink |-> sink, json |-> o.json, level |-> getLogLevel(o.level)]

\* A console that is not configured is on, with the defaults.
Default == [on |-> TRUE, level |-> None, json |-> FALSE, opens |-> TRUE]
Console == IF config.console = None THEN Default ELSE config.console

NoLine == [logger |-> 0, level |-> Debug, broken |-> {}, got |-> <<>>]

Init ==
  /\ config \in Config
  /\ outputs = <<>> /\ loggers = <<>> /\ heap = <<<<>>>> /\ line = NoLine

\* A fault of NewLogger: nothing is written when the only file does not open.
NewLoggerMute ==
  /\ loggers = <<>>
  /\ LET c == IF Console.on THEN <<Output("console", Console)>> ELSE <<>>
         f == IF config.file # None /\ config.file.on /\ config.file.opens
              THEN <<Output("file", config.file)>> ELSE <<>>
     IN outputs' = c \o f
  /\ loggers' = <<[mins |-> {}, grp |-> 0, asked |-> <<>>,
                   pre |-> [i \in DOMAIN outputs' |-> [arr |-> 1, len |-> 0]]]>>
  /\ UNCHANGED <<config, heap, line>>

\* The console, and a file that is on and opens; with neither the console again.
NewLogger ==
  /\ loggers = <<>>
  /\ LET c == IF Console.on THEN <<Output("console", Console)>> ELSE <<>>
         f == IF config.file # None /\ config.file.on /\ config.file.opens
              THEN <<Output("file", config.file)>> ELSE <<>>
     IN outputs' = IF c \o f = <<>> THEN <<Output("console", Default)>> ELSE c \o f
  /\ loggers' = <<[mins |-> {}, grp |-> 0, asked |-> <<>>,
                   pre |-> [i \in DOMAIN outputs' |-> [arr |-> 1, len |-> 0]]]>>
  /\ UNCHANGED <<config, heap, line>>

Elements(s) == SubSeq(heap[s.arr], 1, s.len)

\* A fault of WithAttrs: it appends to the slice of the handler it is called on.
WithAttrsInPlace(l, a, spare) ==
  LET s == loggers[l].pre[1]
      roomy == s.len < Len(heap[s.arr])
      arr == IF roomy THEN s.arr ELSE Len(heap) + 1
  IN /\ heap' = IF roomy THEN [heap EXCEPT ![s.arr][s.len + 1] = a]
                ELSE Append(heap, Append(Elements(s), a) \o [i \in 1..spare |-> None])
     /\ loggers' = Append(loggers,
          [loggers[l] EXCEPT !.asked = Append(@, <<a, loggers[l].grp>>),
             !.pre = [i \in DOMAIN @ |-> [arr |-> arr, len |-> s.len + 1]]])

\* Every text handler gets a new array, perhaps with room to spare.
WithAttrs(l, a, spare) ==
  /\ heap' = heap \o [i \in DOMAIN outputs |->
               Append(Elements(loggers[l].pre[i]), a) \o [j \in 1..spare |-> None]]
  /\ loggers' = Append(loggers,
       [loggers[l] EXCEPT !.asked = Append(@, <<a, loggers[l].grp>>),
          !.pre = [i \in DOMAIN @ |-> [arr |-> Len(heap) + i, len |-> @[i].len + 1]]])

With(l) ==
  /\ Len(loggers) < MaxLoggers
  /\ \E a \in Attr, spare \in 0..1 : WithAttrs(l, a, spare)
  /\ UNCHANGED <<config, outputs, line>>

\* The derived handlers share the arrays.
WithGroup(l) ==
  /\ Len(loggers) < MaxLoggers
  /\ loggers' = Append(loggers, [loggers[l] EXCEPT !.grp = @ + 1])
  /\ UNCHANGED <<config, outputs, heap, line>>

\* A levelFilterHandler around the handlers of l; levels that do not parse change nothing.
WithMinLevel(l, min) ==
  /\ Len(loggers) < MaxLoggers
  /\ loggers' = Append(loggers, [loggers[l] EXCEPT !.mins = @ \union {min}])
  /\ UNCHANGED <<config, outputs, heap, line>>

\* Which outputs see a record: the enabled ones up to the first that fails.
Enabled(l, level, o) == level >= o.level /\ \A min \in loggers[l].mins : level >= min
Handled(l, level, broken) ==
  {i \in DOMAIN outputs :
     /\ Enabled(l, level, outputs[i])
     /\ \A j \in 1..(i - 1) : Enabled(l, level, outputs[j]) => outputs[j].sink \notin broken}

\* A text handler prints all its attributes under the group it is in now.
Printed(l, i) ==
  IF outputs[i].json THEN loggers[l].asked
  ELSE [k \in 1..loggers[l].pre[i].len |-> <<Elements(loggers[l].pre[i])[k], loggers[l].grp>>]

Log(l, level) ==
  /\ \E broken \in SUBSET {outputs[i].sink : i \in DOMAIN outputs} :
       line' = [logger |-> l, level |-> level, broken |-> broken,
                got |-> [i \in Handled(l, level, broken) |-> Printed(l, i)]]
  /\ UNCHANGED <<config, outputs, heap, loggers>>

Next ==
  \/ NewLogger
  \/ \E l \in DOMAIN loggers :
       \/ With(l) \/ WithGroup(l)
       \/ \E min \in Mins : WithMinLevel(l, min)
       \/ \E level \in Logged : Log(l, level)

Spec == Init /\ [][Next]_vars

-----------------------------------------------------------------------------
(* Loggers look at arrays that are there. *)
TypeOK ==
  /\ config \in Config /\ line.level \in Level
  /\ \A l \in DOMAIN loggers, i \in DOMAIN outputs :
       loggers[l].pre[i].arr \in DOMAIN heap /\ loggers[l].pre[i].len <= Len(heap[loggers[l].pre[i].arr])

(* logger.go:38-41: whatever the configuration and whichever files do not    *)
(* open, there is an output, and where no output's write fails an error is   *)
(* on all of them.                                                           *)
NeverSilent ==
  /\ loggers # <<>> => outputs # <<>>
  /\ line.logger # 0 /\ line.level = Error /\ line.broken = {} => DOMAIN line.got = DOMAIN outputs

\* The floor the documentation gives an output, where its level is not "info".
Floor(own) ==
  IF config.force THEN Debug
  ELSE IF own # None THEN own ELSE IF config.level = None THEN Info ELSE config.level
Own(o) ==
  IF o.sink = "file" THEN config.file.level
  ELSE IF config.console # None /\ config.console.on THEN config.console.level ELSE None

(* logger.go:18-22, 110-115: with outputs that work, a record is on exactly  *)
(* the outputs whose level, their own or the general one, and the minimum    *)
(* levels along the derivation of its logger let it through.  Left out: an   *)
(* output set to "info" takes the general level.                             *)
LevelsRight ==
  line.logger # 0 /\ line.broken = {} =>
    \A i \in DOMAIN outputs : Own(outputs[i]) # Info \/ config.level \in {None, Info} =>
      (i \in DOMAIN line.got <=>
         /\ line.level >= Floor(Own(outputs[i]))
         /\ \A min \in loggers[line.logger].mins : line.level >= min)

(* logger.go:219-232: a line has the attributes its logger was derived with, *)
(* in their order and no others, on every output, whatever else was derived  *)
(* from the same logger; with no group, or as JSON, under their own names.   *)
AttrsOwn ==
  line.logger # 0 =>
    LET log == loggers[line.logger]
    IN \A i \in DOMAIN line.got :
         /\ Len(line.got[i]) = Len(log.asked)
         /\ \A k \in DOMAIN log.asked : line.got[i][k][1] = log.asked[k][1]
         /\ outputs[i].json \/ log.grp = 0 => line.got[i] = log.asked

LogsFaithful == TypeOK /\ NeverSilent /\ LevelsRight /\ AttrsOwn
-----------------------------------------------------------------------------
(* The inductive invariant.                                                  *)

OutputConfig == [on : BOOLEAN, level : Level \union {None}, json : BOOLEAN, opens : BOOLEAN]

LogsAssumption ==
  /\ Config \subseteq [level : Level \union {None}, force : BOOLEAN,
                       console : OutputConfig \union {None}, file : OutputConfig \union {None}]
  /\ Mins \subseteq Level /\ Logged \subseteq Level /\ None \notin Level

Array == Seq(Attr \union {None})
Logger == [mins : SUBSET Level, grp : Nat, asked : Seq(Attr \X Nat),
           pre : [DOMAIN outputs -> [arr : Nat, len : Nat]]]

\* An output has the level it was configured with.
Leveled(o) == Own(o) \in Level \union {None} /\ o.level = getLogLevel(Own(o))

\* The slice holds exactly the attributes asked for; only arrays that are new are written.
Holds(s, asked) ==
  /\ s.arr \in 1 .. Len(heap) /\ s.len = Len(asked) /\ s.len <= Len(heap[s.arr])
  /\ \A k \in 1 .. s.len : heap[s.arr][k] = asked[k][1]
Sound(log) ==
  /\ \A k \in 1 .. Len(log.asked) : log.asked[k][2] <= log.grp
  /\ \A i \in DOMAIN outputs : Holds(log.pre[i], log.asked)

LogsInv ==
  /\ config \in Config /\ heap \in Seq(Array) /\ Len(heap) # 0
  /\ outputs \in Seq([sink : {"console", "file"}, json : BOOLEAN, level : Level])
  /\ \A i \in DOMAIN outputs : Leveled(outputs[i])
  /\ loggers \in Seq(Logger) /\ \A l \in 1 .. Len(loggers) : Sound(loggers[l])
  /\ line.logger \in 0 .. Len(loggers) /\ line.level \in Level
  /\ NeverSilent /\ LevelsRight /\ AttrsOwn
=============================================================================
