----------------------------- MODULE CoreProofs -----------------------------
(***************************************************************************)
(* The theorems about the loggers (LogHandlers), the downloads (Transfers) *)
(* and clients of AWS (AwsClients), the secret stores (Secrets) and        *)
(* configuration (Config).                                                 *)
(***************************************************************************)
EXTENDS Config, Sequences, TLAPS

-----------------------------------------------------------------------------
(* The loggers of logx, for any configuration, attributes and levels. *)

CONSTANTS LogConfig, Attr, Mins, Logged, MaxLoggers

VARIABLES config, outputs, heap, loggers, line

Logs == INSTANCE LogHandlers WITH Config <- LogConfig

(* logger.go: there is always an output; a record is on exactly the outputs  *)
(* that the configured levels and the floors along its logger's derivation   *)
(* let through, and carries the attributes of its logger and no other's.     *)
LogsFaithful == Logs!LogsFaithful

\* An output of a multiHandler.
LogOutput == [sink : {"console", "file"}, json : BOOLEAN, level : Logs!Level]

\* What the invariant says, for the provers to pick from.
LEMMA LogsFacts ==
  ASSUME Logs!LogsInv
  PROVE  /\ config \in LogConfig /\ heap \in Seq(Logs!Array) /\ Len(heap) \in Nat \ {0}
         /\ outputs \in Seq(LogOutput) /\ DOMAIN outputs = 1 .. Len(outputs)
         /\ loggers \in Seq(Logs!Logger) /\ Len(loggers) \in Nat
         /\ \A l \in 1 .. Len(loggers) : loggers[l] \in Logs!Logger /\ Logs!Sound(loggers[l])
         /\ \A i \in DOMAIN outputs : Logs!Leveled(outputs[i])
         /\ line.logger \in 0 .. Len(loggers) /\ line.level \in Logs!Level
         /\ Logs!NeverSilent /\ Logs!LevelsRight /\ Logs!AttrsOwn
<1>1. outputs \in Seq(LogOutput) /\ loggers \in Seq(Logs!Logger) /\ heap \in Seq(Logs!Array) /\ Len(heap) # 0
  BY Zenon DEF Logs!LogsInv, LogOutput
<1>2. Len(heap) \in Nat \ {0} /\ DOMAIN outputs = 1 .. Len(outputs) /\ Len(loggers) \in Nat
      /\ \A l \in 1 .. Len(loggers) : loggers[l] \in Logs!Logger
  BY <1>1
<1> QED BY <1>1, <1>2, Zenon DEF Logs!LogsInv

\* A configuration's levels.
LEMMA ConfigLevels ==
  ASSUME Logs!LogsAssumption, config \in LogConfig
  PROVE  /\ config.level \in Logs!Level \union {None}
         /\ config.console \in Logs!OutputConfig \union {None} /\ config.file \in Logs!OutputConfig \union {None}
         /\ \A x : Logs!getLogLevel(x) \in Logs!Level
<1>1. /\ config.level \in Logs!Level \union {None}
      /\ config.console \in Logs!OutputConfig \union {None} /\ config.file \in Logs!OutputConfig \union {None}
  BY Zenon DEF Logs!LogsAssumption
<1>2. {Logs!Debug, Logs!Info, Logs!Warn, Logs!Error} \subseteq Logs!Level
  BY DEF Logs!Level, Logs!Debug, Logs!Info, Logs!Warn, Logs!Error
<1> QED BY <1>1, <1>2, Zenon DEF Logs!getLogLevel

\* Where "info" says nothing else than the general level, an output's level is the documented one.
LEMMA FloorRight ==
  ASSUME Logs!LogsAssumption, config \in LogConfig, NEW own \in Logs!Level \union {None},
         own # Logs!Info \/ config.level \in {None, Logs!Info}
  PROVE  Logs!getLogLevel(own) = Logs!Floor(own)
<1>1. own = None \/ own \in {0, 1, 2, 3}
  BY DEF Logs!Level, Logs!Debug, Logs!Error
<1>2. None \notin {0, 1, 2, 3}
  BY DEF Logs!Level, Logs!Debug, Logs!Error, Logs!LogsAssumption
<1> QED BY <1>1, <1>2, Zenon DEF Logs!getLogLevel, Logs!Floor, Logs!Debug, Logs!Info, Logs!Warn, Logs!Error

\* What was said of the last line stays true while loggers are derived.
LEMMA LineKept ==
  ASSUME Logs!LogsInv, UNCHANGED <<config, outputs, line>>, loggers' \in Seq(Logs!Logger),
         Len(loggers') = Len(loggers) + 1, \A l \in 1 .. Len(loggers) : loggers'[l] = loggers[l],
         loggers # <<>>
  PROVE  /\ line'.logger \in 0 .. Len(loggers') /\ line'.level \in Logs!Level
         /\ Logs!NeverSilent' /\ Logs!LevelsRight' /\ Logs!AttrsOwn'
<1>1. line.logger # 0 => loggers'[line.logger] = loggers[line.logger]
  BY LogsFacts
<1>2. line'.logger \in 0 .. Len(loggers') /\ line'.level \in Logs!Level
  BY LogsFacts
<1>3. Logs!NeverSilent'
  BY LogsFacts, Zenon DEF Logs!NeverSilent
<1>4. Logs!LevelsRight'
  BY <1>1, LogsFacts, ZenonT(40) DEF Logs!LevelsRight, Logs!Own, Logs!Floor
<1>5. Logs!AttrsOwn'
  <2>1. Logs!AttrsOwn
    BY LogsFacts, Zenon
  <2> QED BY <1>1, <2>1 DEF Logs!AttrsOwn
<1> QED BY <1>2, <1>3, <1>4, <1>5, Zenon

\* The step that derives a logger, given that it is sound.
LEMMA LoggerDerived ==
  ASSUME Logs!LogsInv, loggers # <<>>, UNCHANGED <<config, outputs, line>>,
         NEW new \in Logs!Logger, loggers' = Append(loggers, new), Logs!Sound(new)',
         heap' \in Seq(Logs!Array), Len(heap') >= Len(heap),
         \A a \in 1 .. Len(heap) : heap'[a] = heap[a]
  PROVE  Logs!LogsInv'
<1>1. Logs!Logger' = Logs!Logger
  BY Zenon DEF Logs!Logger
<1>2. /\ loggers' \in Seq(Logs!Logger) /\ Len(loggers') = Len(loggers) + 1
      /\ loggers'[Len(loggers) + 1] = new
      /\ \A l \in 1 .. Len(loggers) : loggers'[l] = loggers[l]
  BY LogsFacts
<1>3. ASSUME NEW l \in 1 .. Len(loggers') PROVE Logs!Sound(loggers[l])'
  <2>1. CASE l = Len(loggers) + 1
    <3>1. loggers'[l] = new
      BY <1>2, <2>1, Zenon
    <3> QED BY <3>1, ZenonT(40) DEF Logs!Sound, Logs!Holds
  <2>2. CASE l \in 1 .. Len(loggers)
    <3>1. Logs!Sound(loggers[l]) /\ loggers'[l] = loggers[l]
      BY <1>2, <2>2, LogsFacts, Zenon
    <3>2. PICK log : log = loggers[l] /\ log = loggers'[l] /\ Logs!Sound(log)
      BY <3>1, Zenon
    <3>3. ASSUME NEW i \in DOMAIN outputs
          PROVE  /\ log.pre[i].arr \in 1 .. Len(heap') /\ log.pre[i].len = Len(log.asked)
                 /\ log.pre[i].len <= Len(heap'[log.pre[i].arr])
                 /\ \A k \in 1 .. log.pre[i].len : heap'[log.pre[i].arr][k] = log.asked[k][1]
      <4>1. PICK s, asked : s = log.pre[i] /\ asked = log.asked /\ Logs!Holds(s, asked)
        BY <3>2, Zenon DEF Logs!Sound
      <4>2. PICK a : a = s.arr /\ a \in 1 .. Len(heap) /\ heap'[a] = heap[a]
        BY <4>1, Zenon DEF Logs!Holds
      <4>3. a \in 1 .. Len(heap')
        BY <4>2, LogsFacts
      <4> QED BY <4>1, <4>2, <4>3, Zenon DEF Logs!Holds
    <3>4. \A k \in 1 .. Len(log.asked) : log.asked[k][2] <= log.grp
      BY <3>2, Zenon DEF Logs!Sound
    <3>5. outputs' = outputs
      BY Zenon
    <3>6. Logs!Sound(log)'
      BY <3>3, <3>4, <3>5, Zenon DEF Logs!Sound, Logs!Holds
    <3>7. loggers'[l] = log
      BY <3>2, Zenon
    <3> QED BY <3>6, <3>7, Zenon DEF Logs!Sound, Logs!Holds
  <2> QED BY <1>2, <2>1, <2>2, LogsFacts
<1>4. (\A i \in DOMAIN outputs : Logs!Leveled(outputs[i]))'
  BY LogsFacts, ZenonT(40) DEF Logs!Leveled, Logs!Own, Logs!getLogLevel
<1>5. /\ line'.logger \in 0 .. Len(loggers') /\ line'.level \in Logs!Level
      /\ Logs!NeverSilent' /\ Logs!LevelsRight' /\ Logs!AttrsOwn'
  BY <1>2, LineKept, Zenon
<1>6. Len(heap') # 0
  BY LogsFacts
<1> QED BY <1>1, <1>2, <1>3, <1>4, <1>5, <1>6, LogsFacts, Zenon DEF Logs!LogsInv, LogOutput

LEMMA LogsInit == ASSUME Logs!Init PROVE Logs!LogsInv
<1>1. config \in LogConfig /\ outputs = <<>> /\ loggers = <<>> /\ heap = <<<<>>>> /\ line = Logs!NoLine
  BY Zenon DEF Logs!Init
<1>2. line.logger = 0 /\ line.level \in Logs!Level
  BY <1>1 DEF Logs!NoLine, Logs!Level, Logs!Debug, Logs!Error
<1>3. /\ heap \in Seq(Logs!Array) /\ Len(heap) # 0
      /\ outputs \in Seq(LogOutput) /\ loggers \in Seq(Logs!Logger)
  <2>1. <<>> \in Logs!Array
    BY DEF Logs!Array
  <2>2. <<<<>>>> \in Seq(Logs!Array) /\ Len(<<<<>>>>) # 0
    BY <2>1
  <2> QED BY <1>1, <2>2
<1>4. DOMAIN outputs = {} /\ Len(loggers) = 0 /\ 1 .. Len(loggers) = {} /\ 0 \in 0 .. Len(loggers)
  BY <1>1
<1>5. Logs!NeverSilent /\ Logs!LevelsRight /\ Logs!AttrsOwn
  BY <1>1, <1>2, Zenon DEF Logs!NeverSilent, Logs!LevelsRight, Logs!AttrsOwn
<1> QED BY <1>1, <1>2, <1>3, <1>4, <1>5, Zenon DEF Logs!LogsInv, LogOutput

\* The outputs NewLogger builds: one or two, each with its own level.
LEMMA OutputsBuilt ==
  ASSUME Logs!LogsAssumption, config \in LogConfig, Logs!NewLogger
  PROVE  /\ outputs' \in Seq(LogOutput) /\ outputs' # <<>>
         /\ \A i \in DOMAIN outputs' : Logs!Leveled(outputs'[i])
<1>1. PICK o : o = Logs!Output("console", Logs!Console)
  BY Zenon
<1>2. PICK f : f = Logs!Output("file", config.file)
  BY Zenon
<1>3. PICK d : d = Logs!Output("console", Logs!Default)
  BY Zenon
<1>4. None \in Logs!Level \union {None} /\ Logs!Default.level = None /\ Logs!Default.json \in BOOLEAN
  BY Zenon DEF Logs!Default
<1>5. Logs!Console.on => o \in LogOutput /\ Logs!Leveled(o)
  <2>1. Logs!Console.json \in BOOLEAN /\ Logs!Console.level \in Logs!Level \union {None}
    BY <1>4, ConfigLevels, Zenon DEF Logs!Console, Logs!OutputConfig
  <2>2. o.sink = "console" /\ o.level = Logs!getLogLevel(Logs!Console.level)
    BY <1>1, Zenon DEF Logs!Output
  <2>3. o \in LogOutput
    BY <1>1, <2>1, ConfigLevels, Zenon DEF Logs!Output, LogOutput
  <2>4. Logs!Console.on => Logs!Own(o) = Logs!Console.level
    BY <1>4, <2>2, Zenon DEF Logs!Own, Logs!Console
  <2> QED BY <2>1, <2>2, <2>3, <2>4, Zenon DEF Logs!Leveled
<1>6. config.file # None => f \in LogOutput /\ Logs!Leveled(f)
  <2> SUFFICES ASSUME config.file # None PROVE f \in LogOutput /\ Logs!Leveled(f)
    BY Zenon
  <2>1. config.file.json \in BOOLEAN /\ config.file.level \in Logs!Level \union {None}
    BY ConfigLevels, Zenon DEF Logs!OutputConfig
  <2>2. f.sink = "file" /\ f.level = Logs!getLogLevel(config.file.level)
    BY <1>2, Zenon DEF Logs!Output
  <2>3. f \in LogOutput
    BY <1>2, <2>1, ConfigLevels, Zenon DEF Logs!Output, LogOutput
  <2> QED BY <2>1, <2>2, <2>3, Zenon DEF Logs!Leveled, Logs!Own
<1>7. ~Logs!Console.on => d \in LogOutput /\ Logs!Leveled(d)
  <2> SUFFICES ASSUME ~Logs!Console.on PROVE d \in LogOutput /\ Logs!Leveled(d)
    BY Zenon
  <2>1. d.sink = "console" /\ d.level = Logs!getLogLevel(None)
    BY <1>3, <1>4, Zenon DEF Logs!Output
  <2>2. d \in LogOutput
    BY <1>3, <1>4, ConfigLevels, Zenon DEF Logs!Output, LogOutput
  <2>3. Logs!Own(d) = None
    BY <2>1, Zenon DEF Logs!Own, Logs!Console, Logs!Default
  <2> QED BY <1>4, <2>1, <2>2, <2>3, Zenon DEF Logs!Leveled
<1>8. \/ Logs!Console.on /\ config.file # None /\ outputs' = <<o>> \o <<f>>
      \/ Logs!Console.on /\ outputs' = <<o>> \o <<>>
      \/ config.file # None /\ outputs' = <<>> \o <<f>>
      \/ ~Logs!Console.on /\ outputs' = <<d>>
  <2>1. PICK c, g : /\ c = IF Logs!Console.on THEN <<o>> ELSE <<>>
                    /\ g = IF config.file # None /\ config.file.on /\ config.file.opens THEN <<f>> ELSE <<>>
                    /\ outputs' = IF c \o g = <<>> THEN <<d>> ELSE c \o g
    BY <1>1, <1>2, <1>3, Zenon DEF Logs!NewLogger
  <2>2. <<o>> \o g # <<>> /\ <<>> \o <<f>> # <<>> /\ <<>> \o <<>> = <<>>
    <3>1. g = <<f>> \/ g = <<>>
      BY <2>1, Zenon
    <3>2. \A s, t \in Seq({o, f}) : Len(s \o t) = Len(s) + Len(t)
      OBVIOUS
    <3>3. <<o>> \in Seq({o, f}) /\ <<f>> \in Seq({o, f}) /\ <<>> \in Seq({o, f}) /\ Len(<<o>>) = 1 /\ Len(<<f>>) = 1
      OBVIOUS
    <3>4. <<>> \o <<>> = <<>>
      OBVIOUS
    <3>5. \A t \in Seq({o, f}) : Len(<<o>> \o t) = 1 + Len(t) /\ Len(t) \in Nat
      BY <3>2, <3>3
    <3>6. Len(<<>> \o <<f>>) = 1
      OBVIOUS
    <3> QED BY <3>1, <3>3, <3>4, <3>5, <3>6
  <2>3. CASE Logs!Console.on
    BY <2>1, <2>2, <2>3, Zenon
  <2>4. CASE ~Logs!Console.on
    BY <2>1, <2>2, <2>4, Zenon
  <2> QED BY <2>3, <2>4, Zenon
<1>9. ASSUME NEW P, P \subseteq LogOutput, \A x \in P : Logs!Leveled(x), outputs' \in Seq(P), outputs' # <<>>
      PROVE  /\ outputs' \in Seq(LogOutput) /\ outputs' # <<>>
             /\ \A i \in DOMAIN outputs' : Logs!Leveled(outputs'[i])
  <2>1. outputs' \in Seq(LogOutput) /\ \A i \in DOMAIN outputs' : outputs'[i] \in P
    BY <1>9
  <2> QED BY <1>9, <2>1, Zenon
<1>10. \A x, y : <<x>> \o <<y>> \in Seq({x, y}) /\ <<x>> \o <<y>> # <<>> /\ <<x>> \o <<>> \in Seq({x}) /\ <<x>> \o <<>> # <<>>
       /\ <<>> \o <<y>> \in Seq({y}) /\ <<>> \o <<y>> # <<>> /\ <<x>> \in Seq({x}) /\ <<x>> # <<>>
  OBVIOUS
<1>11. CASE Logs!Console.on /\ config.file # None /\ outputs' = <<o>> \o <<f>>
  <2>1. outputs' \in Seq({o, f}) /\ outputs' # <<>>
    BY <1>10, <1>11, Zenon
  <2>2. {o, f} \subseteq LogOutput /\ \A x \in {o, f} : Logs!Leveled(x)
    BY <1>5, <1>6, <1>11, Zenon
  <2> QED BY <1>9, <2>1, <2>2
<1>12. CASE Logs!Console.on /\ outputs' = <<o>> \o <<>>
  <2>1. outputs' \in Seq({o}) /\ outputs' # <<>>
    BY <1>10, <1>12, Zenon
  <2>2. {o} \subseteq LogOutput /\ \A x \in {o} : Logs!Leveled(x)
    BY <1>5, <1>12, Zenon
  <2> QED BY <1>9, <2>1, <2>2
<1>13. CASE config.file # None /\ outputs' = <<>> \o <<f>>
  <2>1. outputs' \in Seq({f}) /\ outputs' # <<>>
    BY <1>10, <1>13, Zenon
  <2>2. {f} \subseteq LogOutput /\ \A x \in {f} : Logs!Leveled(x)
    BY <1>6, <1>13, Zenon
  <2> QED BY <1>9, <2>1, <2>2
<1>14. CASE ~Logs!Console.on /\ outputs' = <<d>>
  <2>1. outputs' \in Seq({d}) /\ outputs' # <<>>
    BY <1>10, <1>14, Zenon
  <2>2. {d} \subseteq LogOutput /\ \A x \in {d} : Logs!Leveled(x)
    BY <1>7, <1>14, Zenon
  <2> QED BY <1>9, <2>1, <2>2
<1> QED BY <1>8, <1>11, <1>12, <1>13, <1>14, Zenon

LEMMA NewLoggerStep ==
  ASSUME Logs!LogsAssumption, Logs!LogsInv, Logs!NewLogger
  PROVE  Logs!LogsInv'
<1>1. /\ loggers = <<>> /\ UNCHANGED <<config, heap, line>>
      /\ loggers' = <<[mins |-> {}, grp |-> 0, asked |-> <<>>,
                       pre |-> [i \in DOMAIN outputs' |-> [arr |-> 1, len |-> 0]]]>>
  BY Zenon DEF Logs!NewLogger
<1>2. /\ outputs' \in Seq(LogOutput) /\ outputs' # <<>>
      /\ \A i \in DOMAIN outputs' : Logs!Leveled(outputs'[i])
  BY LogsFacts, OutputsBuilt, Zenon
<1>3. (\A i \in DOMAIN outputs : Logs!Leveled(outputs[i]))'
  BY <1>1, <1>2, Zenon DEF Logs!Leveled, Logs!Own, Logs!getLogLevel
<1>4. PICK new : /\ loggers' = <<new>>
                 /\ new = [mins |-> {}, grp |-> 0, asked |-> <<>>,
                           pre |-> [i \in DOMAIN outputs' |-> [arr |-> 1, len |-> 0]]]
  BY <1>1, Zenon
<1>5. new \in Logs!Logger'
  <2>1. [i \in DOMAIN outputs' |-> [arr |-> 1, len |-> 0]] \in [DOMAIN outputs' -> [arr : Nat, len : Nat]]
    BY Zenon
  <2>2. <<>> \in Seq(Attr \X Nat) /\ {} \in SUBSET Logs!Level /\ 0 \in Nat
    OBVIOUS
  <2> QED BY <1>4, <2>1, <2>2, Zenon DEF Logs!Logger
<1>6. new.asked = <<>> /\ \A i \in DOMAIN outputs' : new.pre[i].arr = 1 /\ new.pre[i].len = 0
  BY <1>4, Zenon
<1>7. Logs!Sound(new)'
  <2>1. Len(<<>>) = 0 /\ 1 .. 0 = {} /\ 1 \in 1 .. Len(heap) /\ 0 <= Len(heap[1])
    <3>1. heap[1] \in Logs!Array /\ 1 \in 1 .. Len(heap)
      BY LogsFacts
    <3>2. Len(heap[1]) \in Nat
      BY <3>1 DEF Logs!Array
    <3> QED BY <3>1, <3>2
  <2> QED BY <1>1, <1>6, <2>1, Zenon DEF Logs!Sound, Logs!Holds
<1>8. loggers' \in Seq(Logs!Logger') /\ Len(loggers') = 1 /\ loggers'[1] = new
  BY <1>4, <1>5
<1>9. \A l \in 1 .. Len(loggers') : l = 1
  BY <1>8
<1>10. \A l \in 1 .. Len(loggers') : Logs!Sound(loggers[l])'
  <2> SUFFICES ASSUME NEW l \in 1 .. Len(loggers') PROVE Logs!Sound(loggers[l])'
    BY Zenon
  <2>1. loggers'[l] = new
    BY <1>8, <1>9, Zenon
  <2> QED BY <1>7, <2>1, Zenon DEF Logs!Sound, Logs!Holds
<1>11. line'.logger = 0 /\ 0 \in 0 .. Len(loggers') /\ line'.level \in Logs!Level
  <2>1. Len(loggers) = 0
    BY <1>1, Zenon
  <2> QED BY <1>1, <1>8, <2>1, LogsFacts
<1>12. Logs!NeverSilent' /\ Logs!LevelsRight' /\ Logs!AttrsOwn'
  BY <1>2, <1>11, Zenon DEF Logs!NeverSilent, Logs!LevelsRight, Logs!AttrsOwn
<1>13. heap' \in Seq(Logs!Array) /\ Len(heap') # 0 /\ config' \in LogConfig
  BY <1>1, LogsFacts, Zenon
<1> QED BY <1>2, <1>3, <1>8, <1>10, <1>11, <1>12, <1>13, Zenon DEF Logs!LogsInv, LogOutput

\* A logger with some of its fields replaced.
LEMMA LoggerWith ==
  ASSUME NEW A, NEW B, NEW C, NEW D, NEW log \in [mins : A, grp : B, asked : C, pre : D],
         NEW mins \in A, NEW grp \in B, NEW asked \in C, NEW pre \in D, NEW new,
         \/ new = [log EXCEPT !.grp = grp] /\ mins = log.mins /\ asked = log.asked /\ pre = log.pre
         \/ new = [log EXCEPT !.mins = mins] /\ grp = log.grp /\ asked = log.asked /\ pre = log.pre
         \/ new = [log EXCEPT !.asked = asked, !.pre = pre] /\ mins = log.mins /\ grp = log.grp
  PROVE  /\ new \in [mins : A, grp : B, asked : C, pre : D]
         /\ new.mins = mins /\ new.grp = grp /\ new.asked = asked /\ new.pre = pre
BY Zenon

\* WithGroup and WithMinLevel: the new logger looks at the arrays of the old one.
LEMMA SharingStep ==
  ASSUME Logs!LogsAssumption, Logs!LogsInv, NEW l \in 1 .. Len(loggers),
         Logs!WithGroup(l) \/ \E min \in Mins : Logs!WithMinLevel(l, min)
  PROVE  Logs!LogsInv'
<1>1. PICK log : log = loggers[l] /\ log \in Logs!Logger /\ Logs!Sound(log)
  BY LogsFacts, Zenon
<1>0. /\ log \in [mins : SUBSET Logs!Level, grp : Nat, asked : Seq(Attr \X Nat),
                  pre : [DOMAIN outputs -> [arr : Nat, len : Nat]]]
      /\ log.mins \in SUBSET Logs!Level /\ log.grp \in Nat /\ log.asked \in Seq(Attr \X Nat)
      /\ log.pre \in [DOMAIN outputs -> [arr : Nat, len : Nat]]
  BY <1>1, Zenon DEF Logs!Logger
<1>2. PICK new \in Logs!Logger :
        /\ loggers' = Append(loggers, new)
        /\ new.asked = log.asked /\ new.pre = log.pre /\ new.grp >= log.grp
  <2>1. CASE Logs!WithGroup(l)
    <3>1. PICK new : new = [log EXCEPT !.grp = log.grp + 1]
      BY Zenon
    <3>2. new \in Logs!Logger /\ new.asked = log.asked /\ new.pre = log.pre /\ new.grp >= log.grp
      <4>1. log.grp + 1 \in Nat /\ log.grp + 1 >= log.grp
        BY <1>0
      <4> QED BY <1>0, <3>1, <4>1, LoggerWith, Zenon DEF Logs!Logger
    <3>3. loggers' = Append(loggers, new)
      BY <1>1, <2>1, <3>1, Zenon DEF Logs!WithGroup
    <3> QED BY <3>2, <3>3, Zenon
  <2>2. ASSUME NEW min \in Mins, Logs!WithMinLevel(l, min)
        PROVE  \E new \in Logs!Logger :
                 /\ loggers' = Append(loggers, new)
                 /\ new.asked = log.asked /\ new.pre = log.pre /\ new.grp >= log.grp
    <3>1. PICK new : new = [log EXCEPT !.mins = log.mins \union {min}]
      BY Zenon
    <3>2. min \in Logs!Level
      BY Zenon DEF Logs!LogsAssumption
    <3>3. new \in Logs!Logger /\ new.asked = log.asked /\ new.pre = log.pre /\ new.grp >= log.grp
      <4>1. log.mins \union {min} \in SUBSET Logs!Level /\ log.grp >= log.grp
        BY <1>0, <3>2
      <4> QED BY <1>0, <3>1, <4>1, LoggerWith, Zenon DEF Logs!Logger
    <3>4. loggers' = Append(loggers, new)
      BY <1>1, <2>2, <3>1, Zenon DEF Logs!WithMinLevel
    <3> QED BY <3>3, <3>4, Zenon
  <2> QED BY <2>1, <2>2, Zenon
<1>3. UNCHANGED <<config, outputs, heap, line>>
  BY Zenon DEF Logs!WithGroup, Logs!WithMinLevel
<1>4. Logs!Sound(new)'
  <2>1. \A k \in 1 .. Len(new.asked) : new.asked[k][2] <= new.grp
    <3>1. log.grp \in Nat /\ new.grp \in Nat
      BY <1>1, <1>2, Zenon DEF Logs!Logger
    <3>2. PICK asked : asked = log.asked /\ asked \in Seq(Attr \X Nat)
      BY <1>1, Zenon DEF Logs!Logger
    <3>3. \A k \in 1 .. Len(asked) : asked[k][2] \in Nat /\ asked[k][2] <= log.grp
      BY <1>1, <3>2 DEF Logs!Sound
    <3> QED BY <1>2, <3>1, <3>2, <3>3, SMTT(30)
  <2>2. \A i \in DOMAIN outputs : Logs!Holds(new.pre[i], new.asked)
    BY <1>1, <1>2, Zenon DEF Logs!Sound
  <2> QED BY <1>3, <2>1, <2>2, Zenon DEF Logs!Sound, Logs!Holds
<1>5. loggers # <<>> /\ Len(heap') >= Len(heap)
  BY <1>3, LogsFacts
<1> QED BY <1>2, <1>3, <1>4, <1>5, LoggerDerived, LogsFacts, Zenon

\* Attributes are added in arrays of their own, one for every output.
LEMMA WithStep ==
  ASSUME Logs!LogsInv, NEW l \in 1 .. Len(loggers), Logs!With(l)
  PROVE  Logs!LogsInv'
<1>1. PICK a \in Attr, spare \in 0 .. 1 : Logs!WithAttrs(l, a, spare)
  BY Zenon DEF Logs!With
<1>2. UNCHANGED <<config, outputs, line>>
  BY Zenon DEF Logs!With
<1>3. PICK log : log = loggers[l] /\ log \in Logs!Logger /\ Logs!Sound(log)
  BY LogsFacts, Zenon
<1>4. /\ log \in [mins : SUBSET Logs!Level, grp : Nat, asked : Seq(Attr \X Nat),
                  pre : [DOMAIN outputs -> [arr : Nat, len : Nat]]]
      /\ log.mins \in SUBSET Logs!Level /\ log.grp \in Nat /\ log.asked \in Seq(Attr \X Nat)
      /\ log.pre \in [DOMAIN outputs -> [arr : Nat, len : Nat]] /\ DOMAIN log.pre = DOMAIN outputs
  BY <1>3, Zenon DEF Logs!Logger
<1>5. PICK n \in Nat, w \in Nat : n = Len(heap) /\ w = Len(outputs) /\ DOMAIN outputs = 1 .. w /\ n # 0
  <2>1. Len(heap) \in Nat \ {0} /\ outputs \in Seq(LogOutput) /\ DOMAIN outputs = 1 .. Len(outputs)
    BY LogsFacts, Zenon
  <2>2. Len(heap) \in Nat /\ Len(heap) # 0 /\ Len(outputs) \in Nat
    BY <2>1
  <2> QED BY <2>1, <2>2, Zenon
<1>6. PICK ext : ext = [i \in 1 .. w |->
                          Append(Logs!Elements(log.pre[i]), a) \o [j \in 1 .. spare |-> None]]
  BY Zenon
<1>7. heap' = heap \o ext
  BY <1>1, <1>3, <1>5, <1>6, Zenon DEF Logs!WithAttrs
<1>8. ASSUME NEW i \in 1 .. w
      PROVE  /\ ext[i] \in Logs!Array /\ log.pre[i].len = Len(log.asked) /\ Len(ext[i]) >= Len(log.asked) + 1
             /\ ext[i][Len(log.asked) + 1] = a
             /\ \A k \in 1 .. Len(log.asked) : ext[i][k] = log.asked[k][1]
  <2>1. PICK s : s = log.pre[i] /\ Logs!Holds(s, log.asked)
    BY <1>3, <1>5, Zenon DEF Logs!Sound
  <2>0. PICK T : T = Attr \union {None} /\ Logs!Array = Seq(T) /\ a \in T
    BY Zenon DEF Logs!Array
  <2>2. PICK h : h = heap[s.arr] /\ h \in Seq(T)
    BY <2>0, <2>1, LogsFacts, SMTT(30) DEF Logs!Holds
  <2>3. PICK len \in Nat : len = Len(log.asked) /\ s.len = len /\ len <= Len(h) /\ \A k \in 1 .. len : h[k] = log.asked[k][1]
    <3>1. Len(log.asked) \in Nat
      BY <1>4
    <3> QED BY <2>1, <2>2, <3>1, Zenon DEF Logs!Holds
  <2>4. PICK pad : pad = [j \in 1 .. spare |-> None] /\ pad \in Seq(T)
    <3>1. spare \in Nat
      BY <1>1
    <3>2. [j \in 1 .. spare |-> None] \in Seq(T)
      BY <2>0, <3>1
    <3> QED BY <3>2, Zenon
  <2>5. ext[i] = Append(SubSeq(h, 1, len), a) \o pad
    BY <1>6, <2>1, <2>2, <2>3, <2>4, Zenon DEF Logs!Elements
  <2>6. len \in 0 .. Len(h)
    BY <2>2, <2>3
  <2>8. /\ ext[i] \in Seq(T) /\ Len(ext[i]) >= len + 1 /\ ext[i][len + 1] = a
        /\ \A k \in 1 .. len : ext[i][k] = h[k]
    <3>1. PICK b : b = SubSeq(h, 1, len)
      BY Zenon
    <3>2. b \in Seq(T) /\ Len(b) = len /\ \A k \in 1 .. len : b[k] = h[k]
      BY <2>2, <2>6, <3>1
    <3>3. PICK c : c = Append(b, a)
      BY Zenon
    <3>4. c \in Seq(T) /\ Len(c) = len + 1 /\ c[len + 1] = a /\ \A k \in 1 .. len : c[k] = h[k]
      BY <2>0, <3>2, <3>3
    <3>5. ext[i] = c \o pad
      BY <2>5, <3>1, <3>3, Zenon
    <3>6. /\ c \o pad \in Seq(T) /\ Len(c \o pad) = Len(c) + Len(pad) /\ Len(pad) \in Nat
          /\ \A k \in 1 .. Len(c) : (c \o pad)[k] = c[k]
      BY <2>4, <3>4
    <3>7. len + 1 \in 1 .. (len + 1) /\ \A k \in 1 .. len : k \in 1 .. (len + 1)
      OBVIOUS
    <3>8. len + 1 + Len(pad) >= len + 1
      BY <3>6
    <3> QED BY <3>4, <3>5, <3>6, <3>7, <3>8, Zenon
  <2> QED BY <2>0, <2>1, <2>3, <2>8, Zenon
<1>9. ext \in Seq(Logs!Array) /\ Len(ext) = w
  <2>1. \A i \in 1 .. w : ext[i] \in Logs!Array
    BY <1>8, Zenon
  <2>2. ext = [i \in 1 .. w |-> ext[i]]
    BY <1>6, Zenon
  <2>3. [i \in 1 .. w |-> ext[i]] \in Seq(Logs!Array) /\ Len([i \in 1 .. w |-> ext[i]]) = w
    BY <1>5, <2>1
  <2> QED BY <2>2, <2>3, Zenon
<1>10. /\ heap' \in Seq(Logs!Array) /\ Len(heap') = n + w
       /\ \A j \in 1 .. n : heap'[j] = heap[j]
       /\ \A i \in 1 .. w : heap'[n + i] = ext[i]
  <2>1. heap \in Seq(Logs!Array)
    BY LogsFacts, Zenon
  <2>2. heap \o ext \in Seq(Logs!Array) /\ Len(heap \o ext) = Len(heap) + Len(ext)
    BY <1>9, <2>1
  <2>3. \A j \in 1 .. Len(heap) : (heap \o ext)[j] = heap[j]
    BY <1>9, <2>1
  <2>4. \A i \in 1 .. Len(ext) : (heap \o ext)[Len(heap) + i] = ext[i]
    BY <1>9, <2>1
  <2> QED BY <1>5, <1>7, <1>9, <2>2, <2>3, <2>4, Zenon
<1>11. PICK m \in Nat : m = Len(log.asked)
  BY <1>4
<1>12. PICK asked \in Seq(Attr \X Nat) :
         /\ asked = Append(log.asked, <<a, log.grp>>) /\ Len(asked) = m + 1
         /\ asked[m + 1][1] = a /\ asked[m + 1][2] = log.grp
         /\ \A k \in 1 .. m : asked[k] = log.asked[k]
  <2>1. PICK x \in Attr \X Nat : x = <<a, log.grp>> /\ x[1] = a /\ x[2] = log.grp
    <3>1. PICK g \in Nat : g = log.grp
      BY <1>4, Zenon
    <3>2. <<a, g>> \in Attr \X Nat /\ <<a, g>>[1] = a /\ <<a, g>>[2] = g
      BY Zenon
    <3> QED BY <3>1, <3>2, Zenon
  <2>2. PICK old \in Seq(Attr \X Nat) : old = log.asked
    BY <1>4, Zenon
  <2>3. Append(old, x) \in Seq(Attr \X Nat) /\ Len(Append(old, x)) = m + 1 /\ Append(old, x)[m + 1] = x
        /\ \A k \in 1 .. m : Append(old, x)[k] = old[k]
    BY <1>11, <2>2
  <2> QED BY <2>1, <2>2, <2>3, Zenon
<1>13. PICK pre \in [DOMAIN outputs -> [arr : Nat, len : Nat]] :
         /\ pre = [i \in DOMAIN log.pre |-> [arr |-> Len(heap) + i, len |-> log.pre[i].len + 1]]
         /\ \A i \in 1 .. w : pre[i].arr = n + i /\ pre[i].len = m + 1
  <2>1. PICK pre : pre = [i \in DOMAIN log.pre |-> [arr |-> Len(heap) + i, len |-> log.pre[i].len + 1]]
    BY Zenon
  <2>2. ASSUME NEW i \in 1 .. w
        PROVE  pre[i] \in [arr : Nat, len : Nat] /\ pre[i].arr = n + i /\ pre[i].len = m + 1
    <3>1. log.pre[i].len = m
      BY <1>8, <1>11, Zenon
    <3>2. pre[i] = [arr |-> n + i, len |-> m + 1]
      BY <1>4, <1>5, <2>1, <3>1, Zenon
    <3> QED BY <1>5, <1>11, <3>2
  <2>3. pre \in [DOMAIN outputs -> [arr : Nat, len : Nat]]
    BY <1>4, <1>5, <2>1, <2>2, Zenon
  <2> QED BY <2>1, <2>2, <2>3, Zenon
<1>14. PICK new : new = [log EXCEPT !.asked = asked, !.pre = pre]
  BY Zenon
<1>15. new \in Logs!Logger /\ new.asked = asked /\ new.pre = pre /\ new.grp = log.grp
  BY <1>4, <1>14, LoggerWith, Zenon DEF Logs!Logger
<1>16. loggers' = Append(loggers, new)
  BY <1>1, <1>3, <1>12, <1>13, <1>14, Zenon DEF Logs!WithAttrs
<1>17. Logs!Sound(new)'
  <2>1. ASSUME NEW k \in 1 .. Len(asked) PROVE asked[k][2] <= log.grp
    <3>1. CASE k = m + 1
      BY <1>4, <1>12, <3>1
    <3>2. CASE k \in 1 .. m
      <4>1. log.asked[k][2] <= log.grp
        BY <1>3, <1>11, <3>2, Zenon DEF Logs!Sound
      <4> QED BY <1>12, <3>2, <4>1, Zenon
    <3> QED BY <1>11, <1>12, <3>1, <3>2
  <2>2. ASSUME NEW i \in 1 .. w
        PROVE  /\ pre[i].arr \in 1 .. Len(heap') /\ pre[i].len = Len(asked) /\ pre[i].len <= Len(heap'[pre[i].arr])
               /\ \A k \in 1 .. pre[i].len : heap'[pre[i].arr][k] = asked[k][1]
    <3>1. pre[i].arr = n + i /\ pre[i].len = m + 1 /\ heap'[n + i] = ext[i] /\ n + i \in 1 .. Len(heap')
      <4>1. n + i \in 1 .. (n + w)
        OBVIOUS
      <4> QED BY <1>10, <1>13, <4>1, Zenon
    <3>2. Len(ext[i]) >= m + 1 /\ ext[i][m + 1] = a /\ \A k \in 1 .. m : ext[i][k] = log.asked[k][1]
      BY <1>8, <1>11, Zenon
    <3>3. \A k \in 1 .. (m + 1) : k = m + 1 \/ k \in 1 .. m
      OBVIOUS
    <3>4. \A k \in 1 .. (m + 1) : ext[i][k] = asked[k][1]
      BY <1>12, <3>2, <3>3, Zenon
    <3>5. m + 1 <= Len(ext[i])
      <4>1. Len(ext[i]) \in Nat
        BY <1>8 DEF Logs!Array
      <4> QED BY <1>11, <3>2, <4>1, Zenon
    <3> QED BY <1>12, <3>1, <3>4, <3>5, ZenonT(40)
  <2>3. outputs' = outputs
    BY <1>2, Zenon
  <2> QED BY <1>5, <1>15, <2>1, <2>2, <2>3, Zenon DEF Logs!Sound, Logs!Holds
<1>18. loggers # <<>> /\ Len(heap') >= Len(heap)
  BY <1>5, <1>10, LogsFacts
<1> QED BY <1>2, <1>5, <1>10, <1>15, <1>16, <1>17, <1>18, LoggerDerived, Zenon

\* A record is printed by the outputs that are enabled, with the attributes of its logger.
LEMMA LogStep ==
  ASSUME Logs!LogsAssumption, Logs!LogsInv, NEW l \in 1 .. Len(loggers), NEW level \in Logged, Logs!Log(l, level)
  PROVE  Logs!LogsInv'
<1>1. PICK broken : line' = [logger |-> l, level |-> level, broken |-> broken,
                             got |-> [i \in Logs!Handled(l, level, broken) |-> Logs!Printed(l, i)]]
  BY Zenon DEF Logs!Log
<1>2. UNCHANGED <<config, outputs, heap, loggers>>
  BY Zenon DEF Logs!Log
<1>3. PICK got : /\ got = [i \in Logs!Handled(l, level, broken) |-> Logs!Printed(l, i)]
                 /\ line'.logger = l /\ line'.level = level /\ line'.broken = broken /\ line'.got = got
  BY <1>1, Zenon
<1>4. PICK log : log = loggers[l] /\ log \in Logs!Logger /\ Logs!Sound(log)
  BY LogsFacts, Zenon
<1>5. level \in Logs!Level /\ l # 0
  BY DEF Logs!LogsAssumption
<1>6. ASSUME broken = {}
      PROVE  /\ DOMAIN got = {i \in DOMAIN outputs : Logs!Enabled(l, level, outputs[i])}
             /\ level = Logs!Error => DOMAIN got = DOMAIN outputs
  <2>1. DOMAIN got = Logs!Handled(l, level, broken)
    BY <1>3, Zenon
  <2>2. Logs!Handled(l, level, broken) = {i \in DOMAIN outputs : Logs!Enabled(l, level, outputs[i])}
    BY <1>6, Zenon DEF Logs!Handled
  <2>3. ASSUME level = Logs!Error, NEW i \in DOMAIN outputs PROVE Logs!Enabled(l, level, outputs[i])
    <3>1. outputs[i].level \in 0 .. 3
      <4>1. Logs!Leveled(outputs[i])
        BY LogsFacts, Zenon
      <4>2. outputs[i].level \in Logs!Level
        BY <4>1, LogsFacts, ConfigLevels, Zenon DEF Logs!Leveled
      <4> QED BY <4>2, Zenon DEF Logs!Level, Logs!Debug, Logs!Error
    <3>2. log.mins \subseteq 0 .. 3
      <4>1. log.mins \in SUBSET Logs!Level
        BY <1>4, Zenon DEF Logs!Logger
      <4> QED BY <4>1, Zenon DEF Logs!Level, Logs!Debug, Logs!Error
    <3>3. level = 3
      BY <2>3, Zenon DEF Logs!Error
    <3>4. 3 >= outputs[i].level /\ \A min \in log.mins : 3 >= min
      BY <3>1, <3>2
    <3> QED BY <1>4, <3>3, <3>4, Zenon DEF Logs!Enabled
  <2> QED BY <2>1, <2>2, <2>3, Zenon
<1>7. Logs!NeverSilent'
  <2>1. loggers # <<>> => outputs # <<>>
    BY LogsFacts, Zenon DEF Logs!NeverSilent
  <2> QED BY <1>2, <1>3, <1>6, <2>1, Zenon DEF Logs!NeverSilent
<1>8. Logs!LevelsRight'
  <2> SUFFICES ASSUME broken = {}, NEW i \in DOMAIN outputs,
                      Logs!Own(outputs[i]) # Logs!Info \/ config.level \in {None, Logs!Info}
               PROVE  i \in DOMAIN got <=>
                        /\ level >= Logs!Floor(Logs!Own(outputs[i]))
                        /\ \A min \in loggers[l].mins : level >= min
    BY <1>2, <1>3, ZenonT(40) DEF Logs!LevelsRight, Logs!Own, Logs!Floor
  <2>1. Logs!Leveled(outputs[i])
    BY LogsFacts, Zenon
  <2>2. Logs!getLogLevel(Logs!Own(outputs[i])) = Logs!Floor(Logs!Own(outputs[i]))
    BY <2>1, LogsFacts, FloorRight, Zenon DEF Logs!Leveled
  <2> QED BY <1>6, <2>1, <2>2, Zenon DEF Logs!Leveled, Logs!Enabled
<1>9. ASSUME NEW i \in DOMAIN got
      PROVE  /\ Len(got[i]) = Len(log.asked)
             /\ \A k \in DOMAIN log.asked : got[i][k][1] = log.asked[k][1]
             /\ outputs[i].json \/ log.grp = 0 => got[i] = log.asked
  <2>1. i \in DOMAIN outputs /\ got[i] = Logs!Printed(l, i)
    BY <1>3, <1>9, Zenon DEF Logs!Handled
  <2>2. CASE got[i] = log.asked
    BY <2>2, Zenon
  <2>3. CASE ~outputs[i].json
    <3>1. PICK s : s = log.pre[i] /\ Logs!Holds(s, log.asked)
      BY <1>4, <2>1, Zenon DEF Logs!Sound
    <3>2. PICK asked \in Seq(Attr \X Nat), grp \in Nat : asked = log.asked /\ grp = log.grp
      BY <1>4, Zenon DEF Logs!Logger
    <3>3. PICK m \in Nat : m = Len(asked) /\ DOMAIN asked = 1 .. m
      BY <3>2
    <3>0. PICK T : Logs!Array = Seq(T)
      BY Zenon DEF Logs!Array
    <3>4. PICK h \in Seq(T) : h = heap[s.arr]
      BY <3>0, <3>1, LogsFacts, SMTT(30) DEF Logs!Holds
    <3>5. s.len = m /\ m <= Len(h) /\ \A k \in 1 .. m : h[k] = asked[k][1]
      BY <3>1, <3>2, <3>3, <3>4, Zenon DEF Logs!Holds
    <3>6. PICK b : b = SubSeq(h, 1, m) /\ \A k \in 1 .. m : b[k] = h[k]
      <4>1. m \in 0 .. Len(h)
        BY <3>4, <3>5
      <4>2. \A k \in 1 .. m : SubSeq(h, 1, m)[k] = h[k]
        BY <3>4, <4>1
      <4> QED BY <4>2, Zenon
    <3>7. got[i] = [k \in 1 .. m |-> <<b[k], grp>>]
      <4>1. Logs!Elements(s) = b
        BY <3>4, <3>5, <3>6, Zenon DEF Logs!Elements
      <4>2. Logs!Printed(l, i) = [k \in 1 .. loggers[l].pre[i].len |-> <<Logs!Elements(loggers[l].pre[i])[k], loggers[l].grp>>]
        BY <2>3, Zenon DEF Logs!Printed
      <4> QED BY <1>4, <2>1, <3>1, <3>2, <3>5, <4>1, <4>2, Zenon
    <3>8. \A k \in 1 .. m : b[k] = asked[k][1] /\ asked[k] \in Attr \X Nat
      BY <3>2, <3>3, <3>5, <3>6
    <3>9. Len(got[i]) = m
      BY <3>3, <3>7
    <3>10. \A k \in 1 .. m : got[i][k][1] = asked[k][1]
      BY <3>7, <3>8
    <3>11. ASSUME grp = 0 PROVE got[i] = asked
      <4>1. ASSUME NEW k \in 1 .. m PROVE asked[k] = <<b[k], grp>>
        <5>1. asked[k][2] <= 0 /\ asked[k][2] \in Nat
          BY <1>4, <3>2, <3>3, <3>8, <3>11, Zenon DEF Logs!Sound
        <5> QED BY <3>8, <3>11, <5>1
      <4>2. asked = [k \in 1 .. m |-> asked[k]]
        BY <3>2, <3>3
      <4> QED BY <3>7, <4>1, <4>2, Zenon
    <3> QED BY <2>3, <3>2, <3>3, <3>9, <3>10, <3>11, Zenon
  <2>4. outputs[i].json => got[i] = log.asked
    BY <1>4, <2>1, Zenon DEF Logs!Printed
  <2> QED BY <2>2, <2>3, <2>4, Zenon
<1>10. Logs!AttrsOwn'
  <2>1. loggers'[line'.logger] = log /\ line'.got = got /\ outputs' = outputs
    BY <1>2, <1>3, <1>4, Zenon
  <2> QED BY <1>9, <2>1, Zenon DEF Logs!AttrsOwn
<1>11. line'.logger \in 0 .. Len(loggers') /\ line'.level \in Logs!Level
  BY <1>2, <1>3, <1>5, LogsFacts
<1>12. (\A i \in DOMAIN outputs : Logs!Leveled(outputs[i]))'
  BY <1>2, LogsFacts, Zenon DEF Logs!Leveled, Logs!Own, Logs!getLogLevel
<1>13. (\A k \in 1 .. Len(loggers) : Logs!Sound(loggers[k]))'
  <2>1. \A k \in 1 .. Len(loggers) : Logs!Sound(loggers[k])
    BY LogsFacts, Zenon
  <2> QED BY <1>2, <2>1, ZenonT(40) DEF Logs!Sound, Logs!Holds
<1>14. Logs!Logger' = Logs!Logger
  BY <1>2, Zenon DEF Logs!Logger
<1> QED BY <1>2, <1>7, <1>8, <1>10, <1>11, <1>12, <1>13, <1>14, Zenon DEF Logs!LogsInv

(* logger.go: for any configuration, any attributes and levels, and loggers  *)
(* derived from one another in any order: there is always an output; a       *)
(* record is on exactly the outputs that the configured levels and the       *)
(* floors along its logger's derivation let through, and carries the         *)
(* attributes of its logger and no other's, though text handlers keep them   *)
(* in slices that may look at the same array.                                *)
THEOREM LoggersFaithful ==
  ASSUME Logs!LogsAssumption
  PROVE  Logs!Spec => []LogsFaithful
<1>1. Logs!LogsInv /\ [Logs!Next]_(Logs!vars) => Logs!LogsInv'
  <2> SUFFICES ASSUME Logs!LogsInv, [Logs!Next]_(Logs!vars) PROVE Logs!LogsInv'
    BY Zenon
  <2>1. CASE UNCHANGED Logs!vars
    <3>1. UNCHANGED <<config, outputs, heap, loggers, line>>
      BY <2>1, Zenon DEF Logs!vars
    <3>2. (\A i \in DOMAIN outputs : Logs!Leveled(outputs[i]))'
      BY <3>1, LogsFacts, Zenon DEF Logs!Leveled, Logs!Own, Logs!getLogLevel
    <3>3. (\A k \in 1 .. Len(loggers) : Logs!Sound(loggers[k]))'
      <4>1. \A k \in 1 .. Len(loggers) : Logs!Sound(loggers[k])
        BY LogsFacts, Zenon
      <4> QED BY <3>1, <4>1, ZenonT(40) DEF Logs!Sound, Logs!Holds
    <3>4. Logs!NeverSilent' /\ Logs!LevelsRight' /\ Logs!AttrsOwn'
      BY <3>1, LogsFacts, ZenonT(40) DEF Logs!NeverSilent, Logs!LevelsRight, Logs!AttrsOwn, Logs!Own, Logs!Floor
    <3>5. Logs!Logger' = Logs!Logger
      BY <3>1, Zenon DEF Logs!Logger
    <3> QED BY <3>1, <3>2, <3>3, <3>4, <3>5, Zenon DEF Logs!LogsInv
  <2>2. CASE Logs!Next
    <3>1. DOMAIN loggers = 1 .. Len(loggers)
      BY LogsFacts
    <3> QED BY <2>2, <3>1, NewLoggerStep, WithStep, SharingStep, LogStep, Zenon DEF Logs!Next
  <2> QED BY <2>1, <2>2, Zenon
<1>2. Logs!LogsInv => LogsFaithful
  <2> SUFFICES ASSUME Logs!LogsInv PROVE LogsFaithful
    BY Zenon
  <2>1. ASSUME NEW l \in DOMAIN loggers, NEW i \in DOMAIN outputs
        PROVE  loggers[l].pre[i].arr \in DOMAIN heap /\ loggers[l].pre[i].len <= Len(heap[loggers[l].pre[i].arr])
    <3>1. DOMAIN loggers = 1 .. Len(loggers) /\ DOMAIN heap = 1 .. Len(heap)
      BY LogsFacts
    <3>2. Logs!Holds(loggers[l].pre[i], loggers[l].asked)
      BY <3>1, LogsFacts, Zenon DEF Logs!Sound
    <3> QED BY <3>1, <3>2, Zenon DEF Logs!Holds
  <2>2. Logs!TypeOK
    BY <2>1, LogsFacts, Zenon DEF Logs!TypeOK
  <2> QED BY <2>2, LogsFacts, Zenon DEF LogsFaithful, Logs!LogsFaithful
<1> QED BY <1>1, <1>2, LogsInit, PTL DEF Logs!Spec

-----------------------------------------------------------------------------
(* The AWS values of aws.go and assume_role.go, for any roles and any number *)
(* of values that share no bucket's name by pointer.                         *)

CONSTANTS Role, Home, InPlace, MaxVals, MaxCells

VARIABLES vals, cell, cfgs, told

Aws == INSTANCE AwsClients WITH Own <- Home

\* The value v with the STS client it has or builds: nothing else of it changes.
LEMMA StsClient ==
  ASSUME Aws!ClientsInv, NEW v \in Aws!Vals, Aws!Initialized(v)
  PROVE  /\ Aws!stsClient(v) \in Aws!AwsValue
         /\ Aws!stsClient(v).sts = vals[v].creds /\ vals[v].creds # <<>>
         /\ Aws!stsClient(v).creds = vals[v].creds /\ Aws!stsClient(v).client = vals[v].client
         /\ Aws!stsClient(v).ses = vals[v].ses /\ Aws!stsClient(v).bucket = vals[v].bucket
<1>1. vals[v] \in Aws!AwsValue /\ vals[v].sts \in {<<>>, vals[v].creds}
  <2>1. vals \in Seq(Aws!AwsValue) /\ vals[v].sts \in {<<>>, vals[v].creds}
    BY Zenon DEF Aws!ClientsInv
  <2> QED BY <2>1 DEF Aws!Vals
<1> QED BY <1>1, Zenon DEF Aws!Initialized, Aws!stsClient, Aws!AwsValue

\* When a value's STS client is built, nothing that is kept of it changes.
LEMMA StsBuilt ==
  ASSUME Aws!ClientsInv, NEW v \in Aws!Vals, Aws!Initialized(v),
         vals' = [vals EXCEPT ![v] = Aws!stsClient(v)]
  PROVE  /\ vals' \in Seq(Aws!AwsValue) /\ Len(vals') = Len(vals)
         /\ \A u \in Aws!Vals :
              /\ vals'[u].creds = vals[u].creds /\ vals'[u].client = vals[u].client
              /\ vals'[u].ses = vals[u].ses /\ vals'[u].bucket = vals[u].bucket
              /\ vals'[u].sts \in {<<>>, vals[u].creds}
              /\ vals[u].sts # <<>> => vals'[u].sts = vals[u].sts
<1>1. PICK new \in Aws!AwsValue : new = Aws!stsClient(v)
  BY StsClient, Zenon
<1>2. vals \in Seq(Aws!AwsValue) /\ vals' = [vals EXCEPT ![v] = new] /\ v \in 1 .. Len(vals)
  BY <1>1, Zenon DEF Aws!ClientsInv, Aws!Vals
<1>3. vals' \in Seq(Aws!AwsValue) /\ Len(vals') = Len(vals)
  BY <1>2
<1>4. \A u \in Aws!Vals : vals'[u] = IF u = v THEN new ELSE vals[u]
  BY <1>2 DEF Aws!Vals
<1>5. \A u \in Aws!Vals : vals[u].sts \in {<<>>, vals[u].creds}
  BY Zenon DEF Aws!ClientsInv
<1>6. /\ new.sts = vals[v].creds /\ vals[v].creds # <<>>
      /\ new.creds = vals[v].creds /\ new.client = vals[v].client
      /\ new.ses = vals[v].ses /\ new.bucket = vals[v].bucket
  BY <1>1, StsClient, Zenon
<1> QED BY <1>3, <1>4, <1>5, <1>6, Zenon

\* What the invariant says of the values and the configs, told apart.
LEMMA ClientsFacts ==
  ASSUME Aws!ClientsInv
  PROVE  /\ vals \in Seq(Aws!AwsValue) /\ cell \in Seq(Nat)
         /\ Len(vals) \in 1 .. MaxVals /\ Len(cell) <= MaxCells
         /\ \A v \in Aws!Vals :
              /\ vals[v] \in Aws!AwsValue /\ (vals[v].creds = <<>> \/ vals[v].creds[1] = Home)
              /\ vals[v].ses \in 1 .. Len(cell) /\ vals[v].bucket \in 1 .. Len(cell)
         /\ \A u, w \in Aws!Vals : vals[u].ses # vals[w].bucket /\ (u # w => vals[u].ses # vals[w].ses)
         /\ \A cfg \in cfgs :
              /\ cfg \in [by : Aws!Vals, role : Role, creds : Seq(Aws!Account)]
              /\ vals[cfg.by].creds # <<>> /\ cfg.creds = Append(vals[cfg.by].creds, cfg.role)
              /\ cfg.creds # <<>> /\ cfg.creds[1] = Home
<1>1. vals \in Seq(Aws!AwsValue) /\ cell \in Seq(Nat) /\ Len(vals) \in 1 .. MaxVals /\ Len(cell) <= MaxCells
  BY Zenon DEF Aws!ClientsInv
<1>2. \A v \in Aws!Vals : vals[v] \in Aws!AwsValue
  BY <1>1 DEF Aws!Vals
<1>3. ASSUME NEW cfg \in cfgs
      PROVE  /\ cfg \in [by : Aws!Vals, role : Role, creds : Seq(Aws!Account)]
             /\ vals[cfg.by].creds # <<>> /\ cfg.creds = Append(vals[cfg.by].creds, cfg.role)
             /\ cfg.creds # <<>> /\ cfg.creds[1] = Home
  <2>1. cfg \in [by : Aws!Vals, role : Role, creds : Seq(Aws!Account)]
    BY Zenon DEF Aws!ClientsInv
  <2>2. PICK c \in Seq(Aws!Account) : c = vals[cfg.by].creds
    BY <1>2, <2>1, Zenon DEF Aws!AwsValue
  <2>3. c # <<>> /\ cfg.creds = Append(c, cfg.role) /\ c[1] = Home /\ cfg.role \in Aws!Account
    BY <2>1, <2>2, Zenon DEF Aws!ClientsInv, Aws!Account
  <2> QED BY <2>1, <2>2, <2>3
<1> QED BY <1>1, <1>2, <1>3, Zenon DEF Aws!ClientsInv

\* A step that leaves the defaults of all values but v alone.
LEMMA OwnDefaults ==
  ASSUME NEW v, \A u \in Aws!Vals : u # v =>
           cell'[vals'[u].ses] = cell[vals[u].ses] /\ cell'[vals'[u].bucket] = cell[vals[u].bucket]
  PROVE  Aws!DefaultsOwn
BY Zenon DEF Aws!DefaultsOwn

LEMMA ClientsInit == ASSUME Aws!ClientsAssumption, Aws!Init PROVE Aws!ClientsInv
<1>1. PICK v \in Aws!AwsValue :
        /\ v = [creds |-> <<>>, client |-> <<>>, sts |-> <<>>, ses |-> 1, bucket |-> 2]
        /\ v.creds = <<>> /\ v.sts = <<>> /\ v.ses = 1 /\ v.bucket = 2
  <2>1. [creds |-> <<>>, client |-> <<>>, sts |-> <<>>, ses |-> 1, bucket |-> 2] \in Aws!AwsValue
    BY DEF Aws!AwsValue
  <2> QED BY <2>1, Zenon
<1>2. vals = <<v>> /\ cell = <<1, 2>> /\ cfgs = {} /\ told = <<>>
  BY <1>1, Zenon DEF Aws!Init
<1>3. vals \in Seq(Aws!AwsValue) /\ Len(vals) = 1 /\ vals[1] = v /\ cell \in Seq(Nat) /\ Len(cell) = 2
  BY <1>2
<1>4. Aws!Vals = {1}
  BY <1>3 DEF Aws!Vals
<1> QED BY <1>1, <1>2, <1>3, <1>4, SMT DEF Aws!ClientsInv, Aws!ClientsAssumption

\* Init of the application's value: nothing was assumed through it before.
LEMMA InitStep ==
  ASSUME Aws!ClientsInv, NEW eager \in BOOLEAN, Aws!InitAWS(eager)
  PROVE  Aws!ClientsInv' /\ Aws!ClientsStep
<1>1. 1 \in Aws!Vals /\ vals[1].creds = <<>> /\ vals[1].sts = <<>>
  <2>1. 1 \in Aws!Vals
    BY ClientsFacts DEF Aws!Vals
  <2> QED BY <2>1, Zenon DEF Aws!InitAWS, Aws!ClientsInv
<1>2. PICK new \in Aws!AwsValue :
        /\ vals' = [vals EXCEPT ![1] = new]
        /\ new.creds = <<Home>> /\ new.sts \in {<<>>, <<Home>>}
        /\ new.ses = vals[1].ses /\ new.bucket = vals[1].bucket
  <2>1. PICK old \in Aws!AwsValue : old = vals[1] /\ old.sts = <<>>
    BY <1>1, ClientsFacts, Zenon
  <2>2. PICK mid : mid = [old EXCEPT !.creds = <<Home>>]
    BY Zenon
  <2>0. <<Home>> \in Seq(Aws!Account)
    BY DEF Aws!Account
  <2>3. /\ mid \in Aws!AwsValue /\ mid.creds = <<Home>> /\ mid.sts = <<>>
        /\ mid.ses = old.ses /\ mid.bucket = old.bucket
    BY <2>0, <2>1, <2>2, Zenon DEF Aws!AwsValue
  <2>4. PICK new : new = [mid EXCEPT !.client = mid.creds, !.sts = IF eager THEN mid.creds ELSE mid.sts]
    BY Zenon
  <2>5. /\ new \in Aws!AwsValue /\ new.creds = <<Home>> /\ new.sts \in {<<>>, <<Home>>}
        /\ new.ses = old.ses /\ new.bucket = old.bucket
    BY <2>3, <2>4, Zenon DEF Aws!AwsValue
  <2>6. vals' = [vals EXCEPT ![1] = new]
    BY <2>1, <2>2, <2>4 DEF Aws!InitAWS, Aws!initClients
  <2> QED BY <2>1, <2>5, <2>6, Zenon
<1>3. UNCHANGED <<cell, cfgs, told>>
  BY Zenon DEF Aws!InitAWS
<1>4. /\ vals' \in Seq(Aws!AwsValue) /\ Len(vals') = Len(vals)
      /\ \A u \in Aws!Vals : vals'[u] = IF u = 1 THEN new ELSE vals[u]
  BY <1>2, ClientsFacts DEF Aws!Vals
<1>5. Aws!Vals' = Aws!Vals
  BY <1>4, Zenon DEF Aws!Vals
<1>6. \A u \in Aws!Vals : vals'[u].ses = vals[u].ses /\ vals'[u].bucket = vals[u].bucket
  BY <1>2, <1>4, Zenon
<1>7. \A u \in Aws!Vals : vals[u].creds # <<>> => vals'[u] = vals[u]
  BY <1>1, <1>4, Zenon
<1>8. \A u \in Aws!Vals : /\ vals'[u].creds = <<>> \/ vals'[u].creds[1] = Home
                          /\ vals'[u].sts \in {<<>>, vals'[u].creds}
  <2>1. \A u \in Aws!Vals : vals[u].sts \in {<<>>, vals[u].creds}
    BY Zenon DEF Aws!ClientsInv
  <2>2. \A u \in Aws!Vals : vals[u].creds = <<>> \/ vals[u].creds[1] = Home
    BY ClientsFacts, Zenon
  <2>3. <<Home>>[1] = Home
    BY Zenon
  <2> QED BY <1>2, <1>4, <2>1, <2>2, <2>3, ZenonT(40)
<1>9. told = <<>> \/ \E v \in Aws!Vals : vals'[v].creds # <<>> /\ told = <<v, vals'[v].creds>>
  BY <1>7, Zenon DEF Aws!ClientsInv
<1>10. Aws!ClientsInv'
  <2>1. \A cfg \in cfgs : vals'[cfg.by].creds # <<>> /\ cfg.creds = Append(vals'[cfg.by].creds, cfg.role)
    BY <1>7, ClientsFacts, Zenon
  <2>2. \A u, w \in Aws!Vals : vals'[u].ses # vals'[w].bucket /\ (u # w => vals'[u].ses # vals'[w].ses)
    BY <1>6, ClientsFacts
  <2>3. \A u \in Aws!Vals : vals'[u].ses \in 1 .. Len(cell) /\ vals'[u].bucket \in 1 .. Len(cell)
    BY <1>6, ClientsFacts, Zenon
  <2> QED BY <1>3, <1>4, <1>5, <1>8, <1>9, <2>1, <2>2, <2>3, Zenon DEF Aws!ClientsInv
<1>11. Aws!ClientsStep
  <2>1. Aws!NeverRepoints
    BY <1>7, Zenon DEF Aws!NeverRepoints
  <2>2. Aws!DefaultsOwn
    BY <1>3, <1>6, OwnDefaults, Zenon
  <2> QED BY <2>1, <2>2, Zenon DEF Aws!ClientsStep
<1> QED BY <1>10, <1>11, Zenon

\* AssumeRoleConfig and CallerIdentity work on the STS client of the value they are called on.
LEMMA StsStep ==
  ASSUME Aws!ClientsInv, NEW v \in Aws!Vals,
         (\E r \in Role : Aws!AssumeRoleConfig(v, r)) \/ Aws!CallerIdentity(v)
  PROVE  Aws!ClientsInv' /\ Aws!ClientsStep
<1>1. Aws!Initialized(v) /\ vals' = [vals EXCEPT ![v] = Aws!stsClient(v)] /\ cell' = cell
  BY Zenon DEF Aws!AssumeRoleConfig, Aws!CallerIdentity
<1>2. /\ vals' \in Seq(Aws!AwsValue) /\ Len(vals') = Len(vals) /\ Aws!Vals' = Aws!Vals
      /\ \A u \in Aws!Vals :
           /\ vals'[u].creds = vals[u].creds /\ vals'[u].client = vals[u].client
           /\ vals'[u].ses = vals[u].ses /\ vals'[u].bucket = vals[u].bucket
           /\ vals'[u].sts \in {<<>>, vals[u].creds}
           /\ vals[u].sts # <<>> => vals'[u].sts = vals[u].sts
  BY <1>1, StsBuilt, Zenon DEF Aws!Vals
<1>3. Aws!stsClient(v).sts = vals[v].creds /\ vals[v].creds # <<>>
  BY <1>1, StsClient, Zenon
<1>4. /\ cfgs' \subseteq [by : Aws!Vals, role : Role, creds : Seq(Aws!Account)]
      /\ \A cfg \in cfgs' : vals'[cfg.by].creds # <<>> /\ cfg.creds = Append(vals'[cfg.by].creds, cfg.role)
  <2>1. ASSUME NEW cfg \in cfgs
        PROVE  /\ cfg \in [by : Aws!Vals, role : Role, creds : Seq(Aws!Account)]
               /\ vals'[cfg.by].creds # <<>> /\ cfg.creds = Append(vals'[cfg.by].creds, cfg.role)
    BY <1>2, ClientsFacts, Zenon
  <2>2. CASE cfgs' = cfgs
    BY <2>1, <2>2, Zenon
  <2>3. ASSUME NEW r \in Role, Aws!AssumeRoleConfig(v, r)
        PROVE  /\ cfgs' \subseteq [by : Aws!Vals, role : Role, creds : Seq(Aws!Account)]
               /\ \A cfg \in cfgs' : vals'[cfg.by].creds # <<>> /\ cfg.creds = Append(vals'[cfg.by].creds, cfg.role)
    <3>1. PICK c \in Seq(Aws!Account) : c = vals[v].creds
      BY ClientsFacts, Zenon DEF Aws!AwsValue
    <3>2. PICK new : new = [by |-> v, role |-> r, creds |-> Append(c, r)]
      BY Zenon
    <3>3. Append(c, r) \in Seq(Aws!Account)
      BY <3>1 DEF Aws!Account
    <3>4. /\ new \in [by : Aws!Vals, role : Role, creds : Seq(Aws!Account)]
          /\ new.by = v /\ new.role = r /\ new.creds = Append(c, r)
      BY <3>2, <3>3, Zenon
    <3>5. cfgs' = cfgs \cup {new}
      BY <1>3, <2>3, <3>1, <3>2, Zenon DEF Aws!AssumeRoleConfig
    <3> QED BY <1>2, <1>3, <2>1, <3>1, <3>4, <3>5, Zenon
  <2> QED BY <2>2, <2>3, Zenon DEF Aws!CallerIdentity
<1>5. told' = <<>> \/ \E u \in Aws!Vals : vals'[u].creds # <<>> /\ told' = <<u, vals'[u].creds>>
  <2>1. told = <<>> \/ \E u \in Aws!Vals : vals[u].creds # <<>> /\ told = <<u, vals[u].creds>>
    BY Zenon DEF Aws!ClientsInv
  <2>2. told' = told \/ told' = <<v, vals[v].creds>>
    BY <1>3, Zenon DEF Aws!AssumeRoleConfig, Aws!CallerIdentity
  <2> QED BY <1>2, <1>3, <2>1, <2>2, Zenon
<1>6. Aws!ClientsInv'
  <2>1. \A u, w \in Aws!Vals : vals'[u].ses # vals'[w].bucket /\ (u # w => vals'[u].ses # vals'[w].ses)
    BY <1>2, ClientsFacts
  <2>2. \A u \in Aws!Vals :
          /\ vals'[u].creds = <<>> \/ vals'[u].creds[1] = Home
          /\ vals'[u].sts \in {<<>>, vals'[u].creds}
          /\ vals'[u].ses \in 1 .. Len(cell) /\ vals'[u].bucket \in 1 .. Len(cell)
    BY <1>2, ClientsFacts, ZenonT(40)
  <2>3. Len(vals) \in 1 .. MaxVals /\ cell \in Seq(Nat) /\ Len(cell) <= MaxCells
    BY ClientsFacts, Zenon
  <2> QED BY <1>1, <1>2, <1>4, <1>5, <2>1, <2>2, <2>3, ZenonT(40) DEF Aws!ClientsInv
<1>7. Aws!NeverRepoints
  BY <1>2, Zenon DEF Aws!NeverRepoints
<1>8. Aws!DefaultsOwn
  BY <1>1, <1>2, OwnDefaults, Zenon
<1> QED BY <1>6, <1>7, <1>8, Zenon DEF Aws!ClientsStep

\* A derived value has the credentials of its config and, for its SES defaults, a new cell.
LEMMA DeriveStep ==
  ASSUME Aws!ClientsAssumption, Aws!ClientsInv, NEW v \in Aws!Vals, NEW cfg \in cfgs, NEW eager \in BOOLEAN,
         Aws!Derive(v, cfg, eager)
  PROVE  Aws!ClientsInv' /\ Aws!ClientsStep
<1>1. /\ Len(vals) < MaxVals /\ Len(cell) + 1 <= MaxCells /\ UNCHANGED <<cfgs, told>>
      /\ cell' = Append(cell, cell[vals[v].ses])
  BY Zenon DEF Aws!Derive, Aws!Fresh
<1>0. vals \in Seq(Aws!AwsValue) /\ cell \in Seq(Nat)
  BY ClientsFacts, Zenon
<1>2. PICK n \in Nat, m \in Nat : n = Len(vals) /\ m = Len(cell)
  BY <1>0
<1>3. PICK new \in Aws!AwsValue :
        /\ vals' = Append(vals, new)
        /\ new.creds = cfg.creds /\ new.sts \in {<<>>, cfg.creds}
        /\ new.ses = m + 1 /\ new.bucket = vals[v].bucket
  <2>1. PICK old \in Aws!AwsValue : old = vals[v]
    BY ClientsFacts, Zenon
  <2>2. PICK c \in Seq(Aws!Account) : c = cfg.creds
    BY ClientsFacts, Zenon
  <2>3. PICK mid : mid = [old EXCEPT !.creds = c, !.sts = <<>>, !.ses = m + 1]
    BY Zenon
  <2>4. /\ mid \in Aws!AwsValue /\ mid.creds = c /\ mid.sts = <<>>
        /\ mid.ses = m + 1 /\ mid.bucket = old.bucket
    <3>1. <<>> \in Seq(Aws!Account) /\ m + 1 \in Nat
      OBVIOUS
    <3> QED BY <2>1, <2>2, <2>3, <3>1, Zenon DEF Aws!AwsValue
  <2>5. PICK new : new = [mid EXCEPT !.client = mid.creds, !.sts = IF eager THEN mid.creds ELSE mid.sts]
    BY Zenon
  <2>6. /\ new \in Aws!AwsValue /\ new.creds = c /\ new.sts \in {<<>>, c}
        /\ new.ses = m + 1 /\ new.bucket = old.bucket
    BY <2>4, <2>5, Zenon DEF Aws!AwsValue
  <2>7. vals' = Append(vals, new)
    BY <1>2, <2>1, <2>2, <2>3, <2>5 DEF Aws!Derive, Aws!Fresh, Aws!initClients
  <2> QED BY <2>1, <2>2, <2>6, <2>7, Zenon
<1>4. /\ vals' \in Seq(Aws!AwsValue) /\ Len(vals') = n + 1 /\ vals'[n + 1] = new
      /\ \A u \in 1 .. n : vals'[u] = vals[u]
  BY <1>2, <1>3, ClientsFacts
<1>5. Aws!Vals = 1 .. n /\ Aws!Vals' = 1 .. (n + 1) /\ v \in 1 .. n
  BY <1>2, <1>4, Zenon DEF Aws!Vals
<1>6. /\ cell' \in Seq(Nat) /\ Len(cell') = m + 1
      /\ \A i \in 1 .. m : cell'[i] = cell[i]
  <2>1. cell \in Seq(Nat) /\ cell[vals[v].ses] \in Nat
    BY ClientsFacts
  <2> QED BY <1>1, <1>2, <2>1
<1>7. /\ new.creds # <<>> /\ new.creds[1] = Home /\ new.bucket \in 1 .. m
      /\ \A u \in 1 .. n : new.bucket # vals[u].ses
  BY <1>2, <1>3, <1>5, ClientsFacts
<1>8. \A u \in 1 .. n :
        /\ vals[u].creds = <<>> \/ vals[u].creds[1] = Home
        /\ vals[u].sts \in {<<>>, vals[u].creds}
        /\ vals[u].ses \in 1 .. m /\ vals[u].bucket \in 1 .. m
  BY <1>2, <1>5, Zenon DEF Aws!ClientsInv
<1>9. Aws!ClientsInv'
  <2>1. ASSUME NEW u \in 1 .. (n + 1)
        PROVE  /\ vals'[u].creds = <<>> \/ vals'[u].creds[1] = Home
               /\ vals'[u].sts \in {<<>>, vals'[u].creds}
               /\ vals'[u].ses \in 1 .. (m + 1) /\ vals'[u].bucket \in 1 .. (m + 1)
    <3>1. CASE u \in 1 .. n
      BY <1>4, <1>8, <3>1
    <3>2. CASE u = n + 1
      BY <1>3, <1>4, <1>7, <3>2
    <3> QED BY <3>1, <3>2
  <2>2. ASSUME NEW u \in 1 .. (n + 1), NEW w \in 1 .. (n + 1)
        PROVE  vals'[u].ses # vals'[w].bucket /\ (u # w => vals'[u].ses # vals'[w].ses)
    <3>1. CASE u \in 1 .. n /\ w \in 1 .. n
      <4>1. vals[u].ses # vals[w].bucket /\ (u # w => vals[u].ses # vals[w].ses)
        BY <1>5, <3>1, ClientsFacts, Zenon
      <4> QED BY <1>4, <3>1, <4>1, Zenon
    <3>2. CASE u = n + 1
      BY <1>3, <1>4, <1>7, <1>8, <3>2
    <3>3. CASE w = n + 1
      BY <1>3, <1>4, <1>7, <1>8, <3>3
    <3> QED BY <3>1, <3>2, <3>3
  <2>3. /\ cfgs \subseteq [by : 1 .. (n + 1), role : Role, creds : Seq(Aws!Account)]
        /\ \A g \in cfgs : vals'[g.by].creds # <<>> /\ g.creds = Append(vals'[g.by].creds, g.role)
    <3> SUFFICES ASSUME NEW g \in cfgs
                 PROVE  /\ g \in [by : 1 .. (n + 1), role : Role, creds : Seq(Aws!Account)]
                        /\ vals'[g.by].creds # <<>> /\ g.creds = Append(vals'[g.by].creds, g.role)
      BY Zenon
    <3>1. /\ g \in [by : 1 .. n, role : Role, creds : Seq(Aws!Account)]
          /\ vals[g.by].creds # <<>> /\ g.creds = Append(vals[g.by].creds, g.role)
      BY <1>5, ClientsFacts, Zenon
    <3> QED BY <1>4, <3>1, SMTT(30)
  <2>4. told = <<>> \/ \E u \in 1 .. (n + 1) : vals'[u].creds # <<>> /\ told = <<u, vals'[u].creds>>
    <3>1. told = <<>> \/ \E u \in 1 .. n : vals[u].creds # <<>> /\ told = <<u, vals[u].creds>>
      BY <1>5, Zenon DEF Aws!ClientsInv
    <3>2. \A u \in 1 .. n : u \in 1 .. (n + 1)
      OBVIOUS
    <3> QED BY <1>4, <3>1, <3>2, Zenon
  <2>5. n + 1 \in 1 .. MaxVals /\ m + 1 <= MaxCells
    BY <1>1, <1>2 DEF Aws!ClientsAssumption
  <2> QED BY <1>1, <1>4, <1>5, <1>6, <2>1, <2>2, <2>3, <2>4, <2>5, ZenonT(40) DEF Aws!ClientsInv
<1>10. Aws!NeverRepoints
  BY <1>4, <1>5, Zenon DEF Aws!NeverRepoints
<1>11. Aws!DefaultsOwn
  <2>1. \A u \in Aws!Vals :
          cell'[vals'[u].ses] = cell[vals[u].ses] /\ cell'[vals'[u].bucket] = cell[vals[u].bucket]
    BY <1>4, <1>5, <1>6, <1>8, Zenon
  <2> QED BY <2>1, OwnDefaults, Zenon
<1> QED BY <1>9, <1>10, <1>11, Zenon DEF Aws!ClientsStep

\* A caller adjusts the SES defaults of a value in their cell, or gives it a bucket of a new cell.
LEMMA AdjustStep ==
  ASSUME Aws!ClientsAssumption, Aws!ClientsInv, NEW v \in Aws!Vals, Aws!Adjust(v)
  PROVE  Aws!ClientsInv' /\ Aws!ClientsStep
<1>1. PICK m \in Nat : m = Len(cell)
  BY ClientsFacts
<1>2. CASE cell' = [cell EXCEPT ![vals[v].ses] = @ + 10] /\ UNCHANGED <<vals, cfgs, told>>
  <2>1. cell' \in Seq(Nat) /\ Len(cell') = Len(cell) /\ \A i \in 1 .. m : i # vals[v].ses => cell'[i] = cell[i]
    <3>1. cell \in Seq(Nat) /\ vals[v].ses \in 1 .. Len(cell)
      BY ClientsFacts, Zenon
    <3>2. cell[vals[v].ses] + 10 \in Nat
      BY <3>1
    <3> QED BY <1>1, <1>2, <3>1, <3>2
  <2>2. Aws!ClientsInv'
    <3>1. Aws!Vals' = Aws!Vals
      BY <1>2, Zenon DEF Aws!Vals
    <3> QED BY <1>2, <2>1, <3>1, ZenonT(60) DEF Aws!ClientsInv
  <2>3. Aws!NeverRepoints
    BY <1>2, Zenon DEF Aws!NeverRepoints
  <2>4. Aws!DefaultsOwn
    <3>1. ASSUME NEW u \in Aws!Vals, u # v
          PROVE  cell'[vals'[u].ses] = cell[vals[u].ses] /\ cell'[vals'[u].bucket] = cell[vals[u].bucket]
      <4>1. /\ vals[u].ses \in 1 .. m /\ vals[u].bucket \in 1 .. m
            /\ vals[u].ses # vals[v].ses /\ vals[u].bucket # vals[v].ses
        BY <1>1, <3>1, ClientsFacts, Zenon
      <4> QED BY <1>2, <2>1, <4>1, Zenon
    <3> QED BY <3>1, OwnDefaults, Zenon
  <2> QED BY <2>2, <2>3, <2>4, Zenon DEF Aws!ClientsStep
<1>3. CASE /\ m + 1 <= MaxCells /\ cell' = Append(cell, m + 1)
           /\ vals' = [vals EXCEPT ![v].bucket = m + 1] /\ UNCHANGED <<cfgs, told>>
  <2>1. cell' \in Seq(Nat) /\ Len(cell') = m + 1 /\ \A i \in 1 .. m : cell'[i] = cell[i]
    BY <1>1, <1>3, ClientsFacts
  <2>2. PICK old \in Aws!AwsValue : old = vals[v]
    BY ClientsFacts, Zenon
  <2>3. PICK new : new = [old EXCEPT !.bucket = m + 1]
    BY Zenon
  <2>4. /\ new \in Aws!AwsValue /\ new.creds = old.creds /\ new.client = old.client
        /\ new.sts = old.sts /\ new.ses = old.ses /\ new.bucket = m + 1
    BY <2>2, <2>3, SMTT(30) DEF Aws!AwsValue
  <2>5. vals' = [vals EXCEPT ![v] = new]
    BY <1>3, <2>2, <2>3, Zenon
  <2>6. /\ vals' \in Seq(Aws!AwsValue) /\ Len(vals') = Len(vals)
        /\ \A u \in Aws!Vals : vals'[u] = IF u = v THEN new ELSE vals[u]
    BY <2>4, <2>5, ClientsFacts DEF Aws!Vals
  <2>7. \A u \in Aws!Vals :
          /\ vals'[u].creds = vals[u].creds /\ vals'[u].client = vals[u].client /\ vals'[u].sts = vals[u].sts
          /\ vals'[u].ses = vals[u].ses /\ vals'[u].bucket = IF u = v THEN m + 1 ELSE vals[u].bucket
    BY <2>2, <2>4, <2>6, Zenon
  <2>8. Aws!Vals' = Aws!Vals
    BY <2>6, Zenon DEF Aws!Vals
  <2>9. \A u \in Aws!Vals :
          /\ vals'[u].creds = <<>> \/ vals'[u].creds[1] = Home
          /\ vals'[u].sts \in {<<>>, vals'[u].creds}
          /\ vals'[u].ses \in 1 .. (m + 1) /\ vals'[u].bucket \in 1 .. (m + 1)
    <3>1. \A u \in Aws!Vals : vals[u].sts \in {<<>>, vals[u].creds}
      BY Zenon DEF Aws!ClientsInv
    <3>2. \A u \in Aws!Vals : /\ vals[u].creds = <<>> \/ vals[u].creds[1] = Home
                             /\ vals[u].ses \in 1 .. m /\ vals[u].bucket \in 1 .. m
      BY <1>1, ClientsFacts, Zenon
    <3>3. m + 1 \in 1 .. (m + 1) /\ \A i \in 1 .. m : i \in 1 .. (m + 1)
      OBVIOUS
    <3> QED BY <2>7, <3>1, <3>2, <3>3, Zenon
  <2>10. \A u, w \in Aws!Vals : vals'[u].ses # vals'[w].bucket /\ (u # w => vals'[u].ses # vals'[w].ses)
    <3> SUFFICES ASSUME NEW u \in Aws!Vals, NEW w \in Aws!Vals
                 PROVE  vals'[u].ses # vals'[w].bucket /\ (u # w => vals'[u].ses # vals'[w].ses)
      BY Zenon
    <3>1. /\ vals[u].ses # vals[w].bucket /\ (u # w => vals[u].ses # vals[w].ses)
          /\ vals[u].ses \in 1 .. m
      BY <1>1, ClientsFacts, Zenon
    <3>2. vals[u].ses # m + 1
      BY <3>1
    <3> QED BY <2>7, <3>1, <3>2, Zenon
  <2>11. /\ cfgs \subseteq [by : Aws!Vals, role : Role, creds : Seq(Aws!Account)]
         /\ \A g \in cfgs : vals'[g.by].creds # <<>> /\ g.creds = Append(vals'[g.by].creds, g.role)
    BY <2>7, ClientsFacts, Zenon
  <2>12. told = <<>> \/ \E u \in Aws!Vals : vals'[u].creds # <<>> /\ told = <<u, vals'[u].creds>>
    <3>1. told = <<>> \/ \E u \in Aws!Vals : vals[u].creds # <<>> /\ told = <<u, vals[u].creds>>
      BY Zenon DEF Aws!ClientsInv
    <3> QED BY <2>7, <3>1, Zenon
  <2>13. Len(vals) \in 1 .. MaxVals
    BY ClientsFacts, Zenon
  <2>14. Aws!ClientsInv'
    BY <1>3, <2>1, <2>6, <2>8, <2>9, <2>10, <2>11, <2>12, <2>13, ZenonT(40) DEF Aws!ClientsInv
  <2>15. Aws!NeverRepoints
    BY <2>7, Zenon DEF Aws!NeverRepoints
  <2>16. Aws!DefaultsOwn
    <3>1. \A u \in Aws!Vals : vals[u].ses \in 1 .. m /\ vals[u].bucket \in 1 .. m
      BY <1>1, ClientsFacts, Zenon
    <3>2. \A u \in Aws!Vals : u # v =>
            cell'[vals'[u].ses] = cell[vals[u].ses] /\ cell'[vals'[u].bucket] = cell[vals[u].bucket]
      BY <2>1, <2>7, <3>1, Zenon
    <3> QED BY <3>2, OwnDefaults, Zenon
  <2> QED BY <2>14, <2>15, <2>16, Zenon DEF Aws!ClientsStep
<1> QED BY <1>1, <1>2, <1>3, Zenon DEF Aws!Adjust, Aws!Fresh, Aws!ClientsAssumption

LEMMA ClientsStepAll ==
  ASSUME Aws!ClientsAssumption, Aws!ClientsInv, [Aws!Next]_(Aws!vars)
  PROVE  Aws!ClientsInv' /\ [Aws!ClientsStep]_(Aws!vars)
<1>1. CASE UNCHANGED Aws!vars
  <2>1. UNCHANGED <<vals, cell, cfgs, told>>
    BY <1>1, Zenon DEF Aws!vars
  <2>2. Aws!ClientsInv'
    BY <2>1, ZenonT(40) DEF Aws!ClientsInv, Aws!Vals
  <2> QED BY <1>1, <2>2, Zenon
<1>2. CASE Aws!Next
  BY <1>2, InitStep, StsStep, DeriveStep, AdjustStep, Zenon DEF Aws!Next
<1> QED BY <1>1, <1>2, Zenon

LEMMA ClientsTyped == ASSUME Aws!ClientsInv PROVE Aws!ClientsTyped
<1>1. Aws!TypeOK
  BY ClientsFacts DEF Aws!TypeOK
<1>2. \A cfg \in cfgs : cfg.creds = Append(vals[cfg.by].creds, cfg.role)
  BY ClientsFacts, Zenon
<1>3. told # <<>> => told[2] = vals[told[1]].creds
  <2>1. told = <<>> \/ \E u \in Aws!Vals : told = <<u, vals[u].creds>>
    BY Zenon DEF Aws!ClientsInv
  <2> QED BY <2>1
<1> QED BY <1>1, <1>2, <1>3, Zenon DEF Aws!ClientsTyped, Aws!ChainsRoles

-----------------------------------------------------------------------------
(* The stores of secretx, for any clients and values. *)

CONSTANTS Client, Value, Kind, force, MaxBirths

VARIABLES state, val, births, arg, issued, answer, blind, stray

Secret == INSTANCE Secrets

(* secretx: a Store that returns no error has replaced the value, even when  *)
(* it takes two requests.  A Resolve that reaches the store and finds no     *)
(* secret says so, but where deleted secrets linger in a recovery window; a  *)
(* Delete removes only the secret its reference was returned for, where      *)
(* references are ARNs.                                                      *)
KeepsContract == Secret!KeepsContract /\ [](Secret!TypeOK /\ Secret!UsesRight)

\* One call, or a request of one, by client c.
LEMMA SecretCalls ==
  ASSUME Secret!SecretAssumption, Secret!SecretInv, NEW c \in Client,
         \/ \E v \in Value : Secret!CreateSecret(c, v) \/ Secret!PutParameter(c, v) \/ Secret!StaticStore(c, v)
         \/ Secret!PutSecretValue(c)
  PROVE  /\ Secret!SecretInv' /\ UNCHANGED <<blind, stray>>
         /\ Secret!Promised(c) \/ UNCHANGED <<val, answer>>
<1>1. ASSUME NEW v \in Value, Secret!Created(c, v), arg' \in [Client -> Value \cup {None}]
      PROVE  Secret!SecretInv' /\ UNCHANGED <<blind, stray>> /\ Secret!Promised(c)
  <2>1. /\ births' = births + 1 /\ state' = "live" /\ val' = v /\ UNCHANGED <<blind, stray>>
        /\ Secret!Told(c, "stored", v) \/ Secret!Told(c, "internal", None)
        /\ issued' = issued \/ issued' = issued \cup {[ref |-> Secret!Ref(births + 1), birth |-> births + 1]}
    BY <1>1, Zenon DEF Secret!Created, Secret!Stored
  <2>2. \A i \in issued' : i.ref = Secret!Ref(i.birth) /\ i.birth \in 1 .. births'
    BY <2>1 DEF Secret!SecretInv
  <2>3. Secret!SecretInv'
    BY <1>1, <2>1, <2>2 DEF Secret!SecretInv, Secret!SecretAssumption, Secret!Ref
  <2> QED BY <2>1, <2>3, Zenon DEF Secret!Promised
<1>2. ASSUME NEW v \in Value, Secret!Replaced(c, v), arg' \in [Client -> Value \cup {None}]
      PROVE  Secret!SecretInv' /\ UNCHANGED <<blind, stray>> /\ Secret!Promised(c)
  <2>1. /\ births' = births /\ state = "live" /\ state' = state /\ val' = v /\ UNCHANGED <<blind, stray>>
        /\ Secret!Told(c, "stored", v) \/ Secret!Told(c, "internal", None)
        /\ issued' = issued \/ issued' = issued \cup {[ref |-> Secret!Ref(births), birth |-> births]}
    BY <1>2, Zenon DEF Secret!Replaced, Secret!Stored
  <2>2. births # 0 
    BY <2>1, Zenon DEF Secret!SecretInv
  <2>3. \A i \in issued' : i.ref = Secret!Ref(i.birth) /\ i.birth \in 1 .. births'
    BY <2>1, <2>2 DEF Secret!SecretInv
  <2>4. Secret!SecretInv'
    BY <1>2, <2>1, <2>3 DEF Secret!SecretInv, Secret!SecretAssumption, Secret!Ref
  <2> QED BY <2>1, <2>4, Zenon DEF Secret!Promised
<1>3. ASSUME Secret!Unreached(c), arg' \in [Client -> Value \cup {None}]
      PROVE  Secret!SecretInv' /\ UNCHANGED <<blind, stray>> /\ Secret!Promised(c)
  BY <1>3, Zenon DEF Secret!Unreached, Secret!SecretInv, Secret!Ref, Secret!Promised
<1>4. arg \in [Client -> Value \cup {None}] /\ [arg EXCEPT ![c] = None] \in [Client -> Value \cup {None}]
      /\ \A v \in Value : [arg EXCEPT ![c] = v] \in [Client -> Value \cup {None}]
  BY Zenon DEF Secret!SecretInv
<1>5. ASSUME NEW v \in Value, Secret!CreateSecret(c, v)
      PROVE  Secret!SecretInv' /\ UNCHANGED <<blind, stray>> /\ (Secret!Promised(c) \/ UNCHANGED <<val, answer>>)
  <2>1. CASE arg' = [arg EXCEPT ![c] = v] /\ UNCHANGED <<state, val, births, issued, answer, blind, stray>>
    BY <1>4, <2>1, Zenon DEF Secret!SecretInv, Secret!Ref
  <2>2. CASE (Secret!Created(c, v) \/ Secret!Unreached(c)) /\ UNCHANGED arg
    BY <1>1, <1>3, <1>4, <2>2, Zenon
  <2> QED BY <1>5, <2>1, <2>2, Zenon DEF Secret!CreateSecret
<1>6. ASSUME NEW v \in Value, Secret!PutParameter(c, v) \/ Secret!StaticStore(c, v)
      PROVE  Secret!SecretInv' /\ UNCHANGED <<blind, stray>> /\ Secret!Promised(c)
  BY <1>1, <1>2, <1>3, <1>4, <1>6, Zenon DEF Secret!PutParameter, Secret!StaticStore
<1>7. ASSUME Secret!PutSecretValue(c)
      PROVE  Secret!SecretInv' /\ UNCHANGED <<blind, stray>> /\ Secret!Promised(c)
  <2>1. arg[c] \in Value
    BY <1>4, <1>7, Zenon DEF Secret!PutSecretValue
  <2> QED BY <1>2, <1>3, <1>4, <1>7, <2>1, Zenon DEF Secret!PutSecretValue
<1> QED BY <1>5, <1>6, <1>7, Zenon

\* A Resolve or a Delete of a reference that was returned.
LEMMA SecretUses ==
  ASSUME Secret!SecretAssumption, Secret!SecretInv, NEW c \in Client, NEW i \in issued,
         Secret!Resolve(c, i.ref) \/ Secret!Delete(c, i)
  PROVE  /\ Secret!SecretInv' /\ Secret!Promised(c)
         /\ Kind # "secrets" \/ force => blind' = blind
         /\ Kind = "secrets" => stray' = stray
<1>1. CASE Secret!Resolve(c, i.ref)
  <2>1. UNCHANGED <<state, val, births, arg, issued, stray>>
    BY <1>1, Zenon DEF Secret!Resolve
  <2>2. Secret!SecretInv'
    BY <2>1, Zenon DEF Secret!SecretInv, Secret!Ref
  <2>3. Secret!Promised(c)
    BY <1>1, <2>1, Zenon DEF Secret!Resolve, Secret!Promised, Secret!SecretInv
  <2>4. Kind # "secrets" \/ force => blind' = blind
    BY <1>1, Zenon DEF Secret!Resolve, Secret!NotFound, Secret!Names, Secret!SecretInv
  <2> QED BY <2>1, <2>2, <2>3, <2>4, Zenon
<1>2. CASE Secret!Delete(c, i)
  <2>1. /\ UNCHANGED <<births, arg, issued, blind>>
        /\ \/ state' = Secret!Removed /\ val' = None
           \/ UNCHANGED <<state, val>>
    BY <1>2, Zenon DEF Secret!Delete
  <2>2. Secret!SecretInv'
    BY <1>2, <2>1, Zenon DEF Secret!Delete, Secret!SecretInv, Secret!Ref, Secret!Removed
  <2>3. Secret!Promised(c)
    BY <1>2, Zenon DEF Secret!Delete, Secret!Promised
  <2>4. ASSUME Kind = "secrets" PROVE stray' = stray
    <3>1. i.ref = i.birth /\ i.birth # 0
      BY <2>4 DEF Secret!SecretInv, Secret!Ref
    <3> QED BY <1>2, <3>1, Zenon DEF Secret!Delete, Secret!Target, Secret!Names, Secret!SecretInv
  <2> QED BY <2>1, <2>2, <2>3, <2>4, Zenon
<1> QED BY <1>1, <1>2, Zenon

\* Every step: of a client, or the end of a recovery window.
LEMMA SecretStep ==
  ASSUME Secret!SecretAssumption, Secret!SecretInv, [Secret!Next]_(Secret!vars)
  PROVE  /\ Secret!SecretInv'
         /\ (\E c \in Client : Secret!Promised(c)) \/ UNCHANGED <<val, answer>>
         /\ Kind # "secrets" \/ force => blind' = blind
         /\ Kind = "secrets" => stray' = stray
<1>1. CASE Secret!Elapse \/ UNCHANGED Secret!vars
  BY <1>1, Zenon DEF Secret!Elapse, Secret!vars, Secret!SecretInv, Secret!Ref
<1> QED BY <1>1, SecretCalls, SecretUses, Zenon DEF Secret!Next

LEMMA SecretInit == Secret!Init => Secret!SecretInv
<1> SUFFICES ASSUME Secret!Init PROVE Secret!SecretInv
  BY Zenon
<1>1. stray \in BOOLEAN
  BY Zenon DEF Secret!Init
<1>2. arg \in [Client -> Value \cup {None}]
  BY Zenon DEF Secret!Init
<1> QED BY <1>1, <1>2, Zenon DEF Secret!Init, Secret!SecretInv

(* secretx.go:76-98, aws/secrets.go:145-167, aws/parameters.go, local.go:    *)
(* every store keeps the contract of secretx, whatever other clients do      *)
(* meanwhile and whichever requests fail or lose their answer, between the   *)
(* two requests of a Store too.  Where nothing waits for deletion a Resolve  *)
(* that finds no secret says so, and where a reference is an ARN a Delete    *)
(* removes only the secret that the reference was returned for.              *)
THEOREM SecretsKeepContract ==
  ASSUME Secret!SecretAssumption, MaxBirths \in Nat
  PROVE  Secret!Spec => KeepsContract
<1>1. Secret!Init => /\ val = None /\ answer = [c \in Client |-> None]
                     /\ Secret!UsesRight /\ births <= MaxBirths
  BY DEF Secret!Init, Secret!UsesRight, Secret!SaysNotFound, Secret!CleansOwn
<1>2. Secret!SecretInv /\ [Secret!Next]_(Secret!vars)
        => Secret!SecretInv' /\ [\E c \in Client : Secret!Promised(c)]_<<val, answer>>
  BY SecretStep, Zenon
<1>3. Secret!SecretInv /\ Secret!UsesRight /\ [Secret!Next]_(Secret!vars) => Secret!UsesRight'
  BY SecretStep, Zenon DEF Secret!UsesRight, Secret!SaysNotFound, Secret!CleansOwn
<1>4. Secret!SecretInv /\ births <= MaxBirths /\ [Secret!Next]_(Secret!vars) => (births <= MaxBirths)'
  <2>1. [Secret!Next]_(Secret!vars) => births' = births \/ (births < MaxBirths /\ births' = births + 1)
    BY Zenon DEF Secret!Next, Secret!vars, Secret!Elapse, Secret!CreateSecret, Secret!PutParameter,
       Secret!StaticStore, Secret!PutSecretValue, Secret!Resolve, Secret!Delete, Secret!Created,
       Secret!Replaced, Secret!Unreached
  <2> QED BY <2>1 DEF Secret!SecretInv
<1>5. Secret!SecretInv /\ births <= MaxBirths => Secret!TypeOK
  <2> SUFFICES ASSUME Secret!SecretInv, births <= MaxBirths PROVE Secret!TypeOK
    BY Zenon
  <2>1. births \in 0 .. MaxBirths
    BY DEF Secret!SecretInv
  <2>2. issued \subseteq [ref : 0 .. MaxBirths, birth : 1 .. MaxBirths]
    <3> SUFFICES ASSUME NEW i \in issued PROVE i \in [ref : 0 .. MaxBirths, birth : 1 .. MaxBirths]
      BY Zenon
    <3> QED BY <2>1 DEF Secret!SecretInv, Secret!Ref
  <2> QED BY <2>1, <2>2, Zenon DEF Secret!SecretInv, Secret!TypeOK
<1> QED
  BY <1>1, <1>2, <1>3, <1>4, <1>5, SecretInit, PTL DEF Secret!Spec, KeepsContract, Secret!KeepsContract

-----------------------------------------------------------------------------
(* Configuration, for any keys, layers and default values: what is copied    *)
(* into the overrides is never something else than the layers would give,    *)
(* the default being the one the first read met, so that no order of reads,  *)
(* Sets and SetDefaults tells otherwise.                                     *)

\* The value the layers give a key, whatever was promoted.
Right(k) == First4(set[k], Env(k), file[k], Kept(k))

\* An override is what Set was called with, or what the layers below it would give,
\* and one that came from a default has that default kept; the sections claimed are
\* those that were read.
LayersInv ==
  /\ override \in Layer /\ env \in Layer /\ file \in Layer
  /\ default \in [Key -> {None} \cup DefaultValue] /\ first \in [Key -> {None} \cup DefaultValue]
  /\ set \in [Key -> {None, "set"}]
  /\ bound \subseteq Key /\ claimed \subseteq Section \X BOOLEAN /\ read \subseteq Section
  /\ \A k \in Key : set[k] # None => override[k] = set[k]
  /\ \A k \in Key : override[k] # None => override[k] = Right(k)
  /\ \A k \in Key : override[k] # None /\ first[k] = None => First4(set[k], Env(k), file[k], None) # None
  /\ \A k \in Key : first[k] # None => override[k] # None
  /\ claimedAll => read = Section
  /\ ~claimedAll => \A s \in Section : <<s, FALSE>> \in claimed <=> s \in read
  /\ Precedence

\* A key as viper keeps it is that of a section spelled without capitals.
LEMMA SpelledPlain ==
  ASSUME ConfigAssumption, NEW s \in Section
  PROVE  Spelled(s) = <<s, FALSE>> /\ \A k \in Key : Under(k, s) <=> k[1] = s
<1>1. (s \in Mixed) = FALSE
  BY DEF ConfigAssumption
<1>2. Spelled(s) = <<s, FALSE>>
  BY <1>1, Zenon DEF Spelled
<1>3. ASSUME NEW k \in Key PROVE Under(k, s) <=> k[1] = s
  BY <1>2, SMTT(30) DEF Under
<1> QED BY <1>2, <1>3, Zenon

\* A promoted key has the value of the layers; one that is passed over has none.
LEMMA Promoted ==
  ASSUME ConfigAssumption, LayersInv, NEW k \in Key, NEW b
  PROVE  /\ k \in AllKeys(b) => Resolved(k) = Right(k)
         /\ k \notin AllKeys(b) => override[k] = None /\ file[k] = None /\ default[k] = None /\ set[k] = None
         /\ k \notin AllKeys(b) /\ (FromMap \/ k \in b) => Right(k) = None
         /\ Right(k) = None => file[k] = None /\ default[k] = None
         /\ Right(k) \in {None, "set", "env", "file"} \cup DefaultValue
         /\ set[k] # None => Right(k) = set[k]
<1>1. /\ override[k] # None => override[k] = Right(k)
      /\ override[k] = None => set[k] = None /\ first[k] = None
  BY Zenon DEF LayersInv
<1> QED
  BY <1>1, SMT DEF ConfigAssumption, LayersInv, AllKeys, Resolved, Right, Kept, First4, Env, Layer

\* The layers stay what they are while keys are promoted: of the keys P, all that any
\* layer has.
LEMMA PromotionKeeps ==
  ASSUME ConfigAssumption, LayersInv, UNCHANGED <<env, file, default, set>>, NEW b, NEW P \in SUBSET Key,
         override' = [k \in Key |-> IF k \in P /\ k \in AllKeys(b) THEN Resolved(k) ELSE override[k]],
         first' = [k \in Key |-> IF k \in P THEN Kept(k) ELSE first[k]]
  PROVE  /\ override' \in Layer /\ first' \in [Key -> {None} \cup DefaultValue]
         /\ \A k \in Key : set'[k] # None => override'[k] = set'[k]
         /\ \A k \in Key : Right(k)' = Right(k)
         /\ \A k \in Key : override'[k] # None => override'[k] = Right(k)'
         /\ \A k \in Key : override'[k] # None /\ first'[k] = None
                             => First4(set'[k], Env(k)', file'[k], None) # None
         /\ \A k \in Key : first'[k] # None => override'[k] # None
<1>1. ASSUME NEW k \in Key PROVE Kept(k)' = Kept(k) /\ first'[k] \in {None} \cup DefaultValue
  <2>1. first'[k] = IF k \in P THEN Kept(k) ELSE first[k]
    BY Zenon
  <2>2. first[k] \in {None} \cup DefaultValue /\ default[k] \in {None} \cup DefaultValue
    BY Zenon DEF LayersInv
  <2> QED BY <2>1, <2>2, Zenon DEF Kept
<1>2. \A k \in Key : Right(k)' = Right(k) /\ Env(k)' = Env(k)
  BY <1>1, Zenon DEF Right, Env
<1>3. ASSUME NEW k \in Key
      PROVE  /\ override'[k] \in {None, "set", "env", "file"} \cup DefaultValue
             /\ set[k] # None => override'[k] = set[k]
             /\ override'[k] # None => override'[k] = Right(k)
             /\ override'[k] # None /\ first'[k] = None => First4(set[k], Env(k), file[k], None) # None
             /\ first'[k] # None => override'[k] # None
  <2>1. override'[k] = (IF k \in P /\ k \in AllKeys(b) THEN Resolved(k) ELSE override[k])
        /\ first'[k] = (IF k \in P THEN Kept(k) ELSE first[k])
    BY Zenon
  <2>2. override[k] \in {None, "set", "env", "file"} \cup DefaultValue
    BY Zenon DEF LayersInv, Layer
  <2>3. /\ set[k] # None => override[k] = set[k]
        /\ override[k] # None => override[k] = Right(k)
        /\ override[k] # None /\ first[k] = None => First4(set[k], Env(k), file[k], None) # None
        /\ first[k] # None => override[k] # None
    BY Zenon DEF LayersInv
  <2>4. CASE k \in P /\ k \in AllKeys(b)
    <3>1. override'[k] = Right(k) /\ first'[k] = Kept(k)
      BY <2>1, <2>4, Promoted, Zenon
    <3>2. Right(k) = First4(set[k], Env(k), file[k], Kept(k))
      BY Zenon DEF Right
    <3> QED BY <3>1, <3>2, Promoted, Zenon DEF First4
  <2>5. CASE k \in P /\ k \notin AllKeys(b)
    <3>1. override'[k] = None /\ first'[k] = None
      BY <2>1, <2>3, <2>5, Promoted, Zenon DEF Kept
    <3> QED BY <3>1, <2>5, Promoted, Zenon
  <2>6. CASE k \notin P
    BY <2>1, <2>2, <2>3, <2>6, Zenon
  <2> QED BY <2>4, <2>5, <2>6, Zenon
<1>4. override' \in Layer /\ first' \in [Key -> {None} \cup DefaultValue]
  BY <1>1, <1>3, Zenon DEF Layer
<1> QED BY <1>2, <1>3, <1>4, Zenon

LEMMA LayersInit == ConfigAssumption /\ Init => LayersInv
<1> SUFFICES ASSUME ConfigAssumption, Init PROVE LayersInv
  BY Zenon
<1>1. /\ override \in Layer /\ set \in [Key -> {None, "set"}]
      /\ default \in [Key -> {None} \cup DefaultValue] /\ first \in [Key -> {None} \cup DefaultValue]
      /\ \A k \in Key : override[k] = None /\ set[k] = None /\ first[k] = None
  BY Zenon DEF Init, Nothing, Holding, Layer
<1>2. env \in Layer /\ file \in Layer
  BY Zenon DEF Init, Seeded, Holding, Layer
<1>3. Precedence
  BY Zenon DEF Init, Precedence
<1> QED BY <1>1, <1>2, <1>3, Zenon DEF Init, LayersInv

\* A default that comes after a read of its key changes nothing.
LEMMA LayersDefault ==
  ASSUME ConfigAssumption, LayersInv, NEW k \in Key, NEW v \in Defaults[k], SetDefault(k, v)
  PROVE  LayersInv'
<1>1. /\ default' = [default EXCEPT ![k] = v]
      /\ UNCHANGED <<override, env, file, bound, claimed, claimedAll, set, read, first, last>>
  BY Zenon DEF SetDefault
<1>2. default' \in [Key -> {None} \cup DefaultValue]
  <2>1. v \in DefaultValue
    BY Zenon DEF DefaultValue
  <2> QED BY <1>1, <2>1, Zenon DEF LayersInv
<1>3. ASSUME NEW j \in Key, override[j] # None PROVE override[j] = Right(j)'
  <2>1. override[j] = Right(j) /\ (first[j] = None => First4(set[j], Env(j), file[j], None) # None)
    BY <1>3, Zenon DEF LayersInv
  <2>2. CASE first[j] # None
    BY <1>1, <2>1, <2>2, Zenon DEF Right, Kept, Env
  <2>3. CASE First4(set[j], Env(j), file[j], None) # None
    BY <1>1, <2>1, <2>3, Zenon DEF Right, First4, Env
  <2> QED BY <2>1, <2>2, <2>3, Zenon
<1>4. \A j \in Key : Env(j)' = Env(j)
  BY <1>1, Zenon DEF Env
<1>5. Precedence'
  BY <1>1, Zenon DEF LayersInv, Precedence
<1> QED BY <1>1, <1>2, <1>3, <1>4, <1>5, Zenon DEF LayersInv

LEMMA LayersSet ==
  ASSUME ConfigAssumption, LayersInv, NEW k \in Key, Set(k)
  PROVE  LayersInv'
<1>1. /\ override' = [override EXCEPT ![k] = "set"] /\ set' = [set EXCEPT ![k] = "set"]
      /\ UNCHANGED <<env, file, default, bound, claimed, claimedAll, read, first, last>>
  BY Zenon DEF Set
<1>2. /\ override' \in Layer /\ set' \in [Key -> {None, "set"}]
      /\ \A j \in Key : set'[j] # None => override'[j] = set'[j]
  BY <1>1, Zenon DEF LayersInv, Layer
<1>3. "set" # None
  BY Zenon DEF ConfigAssumption
<1>4. \A j \in Key : Env(j)' = Env(j) /\ Kept(j)' = Kept(j)
  BY <1>1, Zenon DEF Env, Kept
<1>5. ASSUME NEW j \in Key
      PROVE  /\ override'[j] # None => override'[j] = Right(j)'
             /\ override'[j] # None /\ first'[j] = None => First4(set'[j], Env(j)', file'[j], None) # None
             /\ first'[j] # None => override'[j] # None
  <2>1. CASE j = k
    <3>1. override'[j] = "set" /\ set'[j] = "set"
      BY <1>1, <2>1, Zenon DEF LayersInv, Layer
    <3> QED BY <1>3, <3>1, Zenon DEF Right, First4
  <2>2. CASE j # k
    <3>1. override'[j] = override[j] /\ set'[j] = set[j]
      BY <1>1, <2>2, Zenon DEF LayersInv, Layer
    <3> QED BY <1>1, <1>4, <3>1, Zenon DEF LayersInv, Right
  <2> QED BY <2>1, <2>2, Zenon
<1>6. Precedence'
  BY <1>1, Zenon DEF LayersInv, Precedence
<1> QED BY <1>1, <1>2, <1>5, <1>6, Zenon DEF LayersInv

\* A section that is read is claimed.
LEMMA SectionRead ==
  ASSUME ConfigAssumption, LayersInv, NEW s \in Section, Read(s) \/ ReadMap(s)
  PROVE  LayersInv'
<1>1. PICK b : /\ b \subseteq Key /\ bound' = b /\ override' = promoteResolved(s, b)
               /\ Read(s) => FromMap \/ \A k \in Key : k[1] = s => k \in b
  <2>1. bindEnvLeaves({s}) \subseteq Key /\ bound \subseteq Key
    BY Zenon DEF bindEnvLeaves, LayersInv
  <2>2. CASE Read(s)
    BY <2>1, <2>2, ZenonT(40) DEF Read, bindEnvLeaves
  <2>3. CASE ReadMap(s) /\ ~Read(s)
    BY <2>1, <2>3, Zenon DEF ReadMap
  <2> QED BY <2>2, <2>3, Zenon
<1>2. /\ claimed' = claimed \cup {<<s, FALSE>>} /\ read' = read \cup {s} /\ first' = Keeping({s})
      /\ UNCHANGED <<env, file, default, claimedAll, set>>
  BY SpelledPlain, Zenon DEF Read, ReadMap
<1>3. override' = [k \in Key |-> IF k \in AllKeys(b) /\ Under(k, s) THEN Resolved(k) ELSE override[k]]
  BY <1>1, Zenon DEF promoteResolved
<1> DEFINE P == {k \in Key : k[1] = s}
<1>4. /\ override' \in Layer /\ first' \in [Key -> {None} \cup DefaultValue]
      /\ \A k \in Key : set'[k] # None => override'[k] = set'[k]
      /\ \A k \in Key : override'[k] # None => override'[k] = Right(k)'
      /\ \A k \in Key : override'[k] # None /\ first'[k] = None
                          => First4(set'[k], Env(k)', file'[k], None) # None
      /\ \A k \in Key : first'[k] # None => override'[k] # None
  <2>1. override' = [k \in Key |-> IF k \in P /\ k \in AllKeys(b) THEN Resolved(k) ELSE override[k]]
    BY <1>3, SpelledPlain, Zenon
  <2>2. first' = [k \in Key |-> IF k \in P THEN Kept(k) ELSE first[k]]
    BY <1>2, Zenon DEF Keeping
  <2>3. P \in SUBSET Key
    BY Zenon
  <2> HIDE DEF LayersInv, P
  <2> QED BY <1>2, <2>1, <2>2, <2>3, PromotionKeeps, Zenon
<1>5. Precedence'
  <2>1. CASE Read(s)
    <3>1. ASSUME NEW k \in Key, k[1] = s PROVE override'[k] = Right(k)
      BY <1>1, <1>3, <2>1, <3>1, Promoted, SpelledPlain, Zenon
    <3>2. Has(override', s) => Table(override', s) = Wanted({s})
      BY <3>1, Zenon DEF Table, Wanted, Want, Right
    <3>3. ~Has(override', s) => Table(override', s) = Wanted({s})
      <4> SUFFICES ASSUME ~Has(override', s) PROVE Table(override', s) = Wanted({s})
        BY Zenon
      <4>1. \A k \in Key : k[1] = s => Right(k) = None /\ file[k] = None /\ default[k] = None
        BY <3>1, Promoted, Zenon DEF Has
      <4> QED BY <4>1, Zenon DEF Table, Wanted, Want, Right
    <3>4. Table(promoteResolved(s, bindEnvLeaves({s})), s) = Wanted({s})
      <4>1. override' = promoteResolved(s, bindEnvLeaves({s}))
        BY <2>1, Zenon DEF Read
      <4> QED BY <3>2, <3>3, <4>1, Zenon
    <3>5. last' = [kind |-> "read", bare |-> TRUE,
                   right |-> Table(promoteResolved(s, bindEnvLeaves({s})), s) = Wanted({s})]
      BY <2>1, Zenon DEF Read
    <3>6. last'.right = (Table(promoteResolved(s, bindEnvLeaves({s})), s) = Wanted({s}))
      BY <3>5, Zenon
    <3> QED BY <3>4, <3>6, Zenon DEF Precedence
  <2>2. CASE ReadMap(s)
    <3>1. last'.kind = "map"
      BY <2>2, Zenon DEF ReadMap
    <3> QED BY <3>1, Zenon DEF Precedence
  <2> QED BY <2>1, <2>2, Zenon
<1>6. /\ claimed' \subseteq Section \X BOOLEAN /\ read' \subseteq Section
      /\ claimedAll' => read' = Section
      /\ ~claimedAll' => \A t \in Section : <<t, FALSE>> \in claimed' <=> t \in read'
  <2>1. <<s, FALSE>> \in Section \X BOOLEAN
    BY Zenon
  <2> QED BY <1>2, <2>1, Zenon DEF LayersInv
<1> QED BY <1>1, <1>2, <1>4, <1>5, <1>6, Zenon DEF LayersInv

LEMMA AllRead ==
  ASSUME ConfigAssumption, LayersInv, ReadAll
  PROVE  LayersInv'
<1>1. PICK b : b = bindEnvLeaves(Section)
  BY Zenon
<1>2. b \subseteq Key /\ (FromMap \/ b = Key)
  BY <1>1, Zenon DEF bindEnvLeaves, LayersInv, Section
<1> DEFINE all == [k \in Key |-> IF k \in AllKeys(b) THEN Resolved(k) ELSE override[k]]
<1>3. /\ claimedAll' = TRUE /\ read' = Section /\ bound' = b
      /\ override' = IF FromMap THEN override ELSE all
      /\ first' = IF FromMap THEN first ELSE Keeping(Section)
      /\ UNCHANGED <<env, file, default, claimed, set>>
  BY <1>1, Zenon DEF ReadAll
<1>4. last' = [kind |-> "all", right |-> all = Wanted(Section), bare |-> TRUE]
  BY <1>1, Zenon DEF ReadAll
<1>5. PICK P \in SUBSET Key :
        /\ override' = [k \in Key |-> IF k \in P /\ k \in AllKeys(b) THEN Resolved(k) ELSE override[k]]
        /\ first' = [k \in Key |-> IF k \in P THEN Kept(k) ELSE first[k]]
  <2>1. CASE FromMap
    <3>1. PICK N \in SUBSET Key : \A k \in Key : k \notin N
      <4>1. {} \in SUBSET Key /\ \A k \in Key : k \notin {}
        BY Zenon
      <4> QED BY <4>1, Zenon
    <3>2. /\ override' = [k \in Key |-> IF k \in N /\ k \in AllKeys(b) THEN Resolved(k) ELSE override[k]]
          /\ first' = [k \in Key |-> IF k \in N THEN Kept(k) ELSE first[k]]
      BY <1>3, <2>1, <3>1, Zenon DEF LayersInv, Layer
    <3> QED BY <3>2, Zenon
  <2>2. CASE ~FromMap
    <3>1. \A k \in Key : k[1] \in Section
      BY Zenon DEF Section
    <3>2. /\ override' = [k \in Key |-> IF k \in Key /\ k \in AllKeys(b) THEN Resolved(k) ELSE override[k]]
          /\ first' = [k \in Key |-> IF k \in Key THEN Kept(k) ELSE first[k]]
      BY <1>3, <2>2, <3>1, Zenon DEF Keeping
    <3> QED BY <3>2, Zenon
  <2> QED BY <2>1, <2>2, Zenon
<1>6. /\ override' \in Layer /\ first' \in [Key -> {None} \cup DefaultValue]
      /\ \A k \in Key : set'[k] # None => override'[k] = set'[k]
      /\ \A k \in Key : override'[k] # None => override'[k] = Right(k)'
      /\ \A k \in Key : override'[k] # None /\ first'[k] = None
                          => First4(set'[k], Env(k)', file'[k], None) # None
      /\ \A k \in Key : first'[k] # None => override'[k] # None
  <2> HIDE DEF LayersInv, all
  <2> QED BY <1>3, <1>5, PromotionKeeps, Zenon
<1>7. all = Wanted(Section)
  <2>1. \A k \in Key : all[k] = Right(k)
    BY <1>2, Promoted, Zenon
  <2>2. \A k \in Key : k[1] \in Section
    BY Zenon DEF Section
  <2>3. Wanted(Section) = [k \in Key |-> Right(k)]
    BY <2>2, Zenon DEF Wanted, Want, Right
  <2> QED BY <2>1, <2>3, Zenon
<1>8. Precedence'
  <2>1. last'.right = (all = Wanted(Section))
    BY <1>4, Zenon
  <2> QED BY <1>7, <2>1, Zenon DEF Precedence
<1> QED BY <1>2, <1>3, <1>6, <1>8, Zenon DEF LayersInv

(* viper.go:58-60, 98-107, 159-179, map.go:44-47: for any sections and       *)
(* leaves, whatever the files and the environment hold and in whatever order *)
(* sections are read, set and defaulted, with files or from a map: a read    *)
(* gives every key its value by the order of the layers, its default being   *)
(* the latest until a read has met one, and UnusedSections names exactly the *)
(* sections that are there and nobody read.                                  *)
THEOREM ConfigHolds ==
  ASSUME ConfigAssumption
  PROVE  Spec => []ConfigLayered
<1>1. LayersInv /\ [Next]_vars => LayersInv'
  <2> SUFFICES ASSUME LayersInv, [Next]_vars PROVE LayersInv'
    BY Zenon
  <2>1. CASE UNCHANGED vars
    BY <2>1, Zenon DEF vars, LayersInv, Precedence, Right, Kept, Env
  <2> QED BY <2>1, LayersSet, LayersDefault, SectionRead, AllRead, Zenon DEF Next
<1>2. LayersInv => ConfigLayered
  <2> SUFFICES ASSUME LayersInv PROVE ConfigLayered
    BY Zenon
  <2>1. TypeOK
    <3>1. default \in Layer /\ first \in Layer
      BY Zenon DEF LayersInv, Layer
    <3> QED BY <3>1, Zenon DEF LayersInv, TypeOK
  <2>2. UnusedExact
    <3>1. CASE claimedAll
      BY <3>1, Zenon DEF LayersInv, UnusedExact, UnusedSections
    <3>2. CASE ~claimedAll
      <4>1. \A s \in Section : <<s, FALSE>> \in claimed <=> s \in read
        BY <3>2, Zenon DEF LayersInv
      <4>2. UnusedSections = {s \in Section : Has(file, s) /\ <<s, FALSE>> \notin claimed}
        BY <3>2, Zenon DEF UnusedSections
      <4> QED BY <4>1, <4>2, Zenon DEF UnusedExact
    <3> QED BY <3>1, <3>2, Zenon
  <2> QED BY <2>1, <2>2, Zenon DEF LayersInv, ConfigLayered
<1> QED BY <1>1, <1>2, LayersInit, PTL DEF Spec

-----------------------------------------------------------------------------
(* The downloads of aws/s3.go, for any number of requests, files and workers. *)

CONSTANTS Reqs, File, maxWorkers, Old

VARIABLES target, pc, temp, disk, failed, ret, upload, bucket, dead

Files == INSTANCE Transfers WITH answer <- ret

INSTANCE FiniteSetTheorems

LEMMA TransferInit == Files!Init => Files!TransferInv
<1> SUFFICES ASSUME Files!Init PROVE Files!TransferInv
  BY Zenon
<1>1. Files!DiskWhole
  BY Zenon DEF Files!Init, Files!DiskWhole
<1>2. \A r \in Files!Req : Files!TempOwned(r)
  BY Zenon DEF Files!Init, Files!TempOwned
<1> QED BY <1>1, <1>2, ZenonT(40) DEF Files!Init, Files!TransferInv

\* One step of the goroutine of r, whatever the others are doing.
LEMMA GoroutineStep ==
  ASSUME Old \notin Files!Req, Files!TransferInv, NEW r \in Files!Req,
         \/ Files!Go(r) \/ Files!Check(r) \/ Files!CreateTemp(r) \/ Files!GetObject(r)
         \/ Files!Copy(r) \/ Files!Rename(r) \/ Files!Fail(r)
  PROVE  Files!TransferInv'
<1>1. CASE Files!Go(r) \/ Files!Check(r) \/ Files!GetObject(r)
  <2>1. UNCHANGED <<target, temp, disk, failed, ret, upload, bucket>>
    BY <1>1, Zenon DEF Files!Go, Files!Check, Files!GetObject
  <2>2. \/ pc[r] \in {"new", "go"} /\ pc' = [pc EXCEPT ![r] = "go"]
        \/ pc[r] \in {"new", "go"} /\ pc' = [pc EXCEPT ![r] = "create"]
        \/ pc[r] = "get" /\ pc' = [pc EXCEPT ![r] = "copy"]
    BY <1>1, ZenonT(40) DEF Files!Go, Files!Check, Files!GetObject
  <2>3. \A q \in Files!Req : Files!TempOwned(q)'
    BY <2>1, <2>2, ZenonT(40) DEF Files!TransferInv, Files!TempOwned
  <2>4. Files!DiskWhole'
    BY <2>1, <2>2, ZenonT(40) DEF Files!TransferInv, Files!DiskWhole
  <2> QED BY <2>1, <2>2, <2>3, <2>4, ZenonT(40) DEF Files!TransferInv
<1>2. CASE Files!CreateTemp(r)
  <2>1. PICK empty : empty = [of |-> r, parts |-> 0]
    BY Zenon
  <2>2. empty \in [of : Files!Req, parts : 0..2] /\ empty.of = r /\ empty.parts = 0
    BY <2>1
  <2>3. /\ temp' = [temp EXCEPT ![r] = empty] /\ pc[r] = "create" /\ pc' = [pc EXCEPT ![r] = "get"]
        /\ UNCHANGED <<target, disk, failed, ret, upload, bucket>>
    BY <1>2, <2>1, ZenonT(40) DEF Files!CreateTemp
  <2>4. \A q \in Files!Req : Files!TempOwned(q)'
    BY <2>2, <2>3, SMTT(30) DEF Files!TransferInv, Files!TempOwned
  <2>5. Files!DiskWhole'
    BY <2>3, Zenon DEF Files!TransferInv, Files!DiskWhole
  <2> QED BY <2>2, <2>3, <2>4, <2>5, ZenonT(40) DEF Files!TransferInv
<1>3. CASE Files!Copy(r)
  <2>1. temp[r] \in [of : Files!Req, parts : 0..2] /\ temp[r].of = r /\ temp[r].parts \in 0..1 /\ pc[r] = "copy"
    BY <1>3 DEF Files!Copy, Files!TransferInv, Files!TempOwned
  <2>2. PICK piece : piece = [temp[r] EXCEPT !.parts = temp[r].parts + 1]
    BY Zenon
  <2>3. piece \in [of : Files!Req, parts : 0..2] /\ piece.of = r /\ piece.parts \in 1..2
    BY <2>1, <2>2, SMTT(30)
  <2>4. temp' = [temp EXCEPT ![r] = piece]
    BY <1>3, <2>2, ZenonT(40) DEF Files!Copy
  <2>5. /\ pc' = [pc EXCEPT ![r] = IF Files!Whole(piece) THEN "rename" ELSE "copy"]
        /\ UNCHANGED <<target, disk, failed, ret, upload, bucket>>
    <3>1. temp'[r] = piece
      BY <2>4, ZenonT(40) DEF Files!TransferInv
    <3> QED BY <1>3, <3>1, ZenonT(40) DEF Files!Copy
  <2>6. \A q \in Files!Req : Files!TempOwned(q)'
    BY <2>3, <2>4, <2>5, SMTT(30) DEF Files!TransferInv, Files!TempOwned, Files!Whole
  <2>7. Files!DiskWhole'
    BY <2>5, Zenon DEF Files!TransferInv, Files!DiskWhole
  <2> QED BY <2>1, <2>3, <2>4, <2>5, <2>6, <2>7, ZenonT(40) DEF Files!TransferInv
<1>4. CASE Files!Rename(r)
  <2>1. PICK piece : piece = temp[r]
    BY Zenon
  <2>2. piece \in [of : Files!Req \union {Old}, parts : {2}] /\ piece.of = r
    BY <1>4, <2>1, ZenonT(40) DEF Files!Rename, Files!Whole, Files!TransferInv, Files!TempOwned
  <2>3. /\ disk' = [disk EXCEPT ![target[r]] = piece] /\ target' = target /\ failed' = failed
        /\ pc[r] = "rename" /\ pc' = [pc EXCEPT ![r] = "done"] /\ temp' = [temp EXCEPT ![r] = None]
        /\ UNCHANGED <<ret, upload, bucket>>
    BY <1>4, <2>1, ZenonT(40) DEF Files!Rename
  <2>4. Files!DiskWhole'
    BY <2>2, <2>3, ZenonT(40) DEF Files!TransferInv, Files!DiskWhole
  <2>5. \A q \in Files!Req : Files!TempOwned(q)'
    BY <2>3, Zenon DEF Files!TransferInv, Files!TempOwned
  <2> QED BY <2>3, <2>4, <2>5, ZenonT(40) DEF Files!TransferInv
<1>5. CASE Files!Fail(r)
  <2>1. /\ pc' = [pc EXCEPT ![r] = "done"] /\ temp' = [temp EXCEPT ![r] = None] /\ pc[r] # "done"
        /\ UNCHANGED <<target, disk, ret, upload, bucket>>
    BY <1>5, Zenon DEF Files!Fail
  <2>2. failed' /\ failed' \in BOOLEAN
    BY <1>5, Zenon DEF Files!Fail
  <2>3. Files!DiskWhole'
    BY <2>1, <2>2, ZenonT(40) DEF Files!TransferInv, Files!DiskWhole
  <2>4. \A q \in Files!Req : Files!TempOwned(q)'
    BY <2>1, ZenonT(40) DEF Files!TransferInv, Files!TempOwned
  <2> QED BY <2>1, <2>2, <2>3, <2>4, ZenonT(40) DEF Files!TransferInv
<1> QED BY <1>1, <1>2, <1>3, <1>4, <1>5, ZenonT(40)

\* The steps of the caller, of the uploader, and the death of the process.
LEMMA CallerStep ==
  ASSUME Files!TransferInv,
         Files!Wait \/ Files!Upload \/ Files!Die \/ (\E f \in File : Files!Open(f)) \/ UNCHANGED Files!vars
  PROVE  Files!TransferInv'
  BY DEF Files!TransferInv, Files!TempOwned, Files!DiskWhole, Files!Wait, Files!Upload, Files!Die, Files!Open,
     Files!Whole, Files!vars

LEMMA TransferInvariant ==
  ASSUME Old \notin Files!Req
  PROVE  Files!Spec => []Files!TransferInv
<1>1. Files!TransferInv /\ [Files!Next]_(Files!vars) => Files!TransferInv'
  BY GoroutineStep, CallerStep, ZenonT(40) DEF Files!Next
<1> QED BY <1>1, TransferInit, PTL DEF Files!Spec

\* Finite sets and their sizes, as Transfers has them.
LEMMA GroupSizes ==
  ASSUME NEW S, IsFiniteSet(S)
  PROVE  /\ Files!Cardinality(S) \in Nat
         /\ \A T \in SUBSET S : Files!Cardinality(T) <= Files!Cardinality(S)
         /\ \A x : Files!Cardinality(S \cup {x}) <= Files!Cardinality(S) + 1
<1>1. \A T : Files!Cardinality(T) = Cardinality(T)
  BY Zenon DEF Files!Cardinality, Cardinality
<1>2. Cardinality(S) \in Nat /\ \A T \in SUBSET S : Cardinality(T) <= Cardinality(S)
  BY FS_CardinalityType, FS_Subset, ZenonT(40)
<1>3. ASSUME NEW x PROVE Cardinality(S \cup {x}) = Cardinality(S) \/ Cardinality(S \cup {x}) = Cardinality(S) + 1
  <2>1. CASE x \in S
    <3>1. S \cup {x} = S
      BY <2>1, Zenon
    <3> QED BY <3>1, Zenon
  <2>2. CASE x \notin S
    BY <2>2, FS_AddElement, Zenon
  <2> QED BY <2>1, <2>2, ZenonT(40)
<1>4. ASSUME NEW x PROVE Files!Cardinality(S \cup {x}) <= Files!Cardinality(S) + 1
  <2>1. Cardinality(S \cup {x}) <= Cardinality(S) + 1
    <3>1. PICK n, m : n \in Nat /\ n = Cardinality(S) /\ m = Cardinality(S \cup {x}) /\ (m = n \/ m = n + 1)
      BY <1>2, <1>3, ZenonT(40)
    <3>2. m <= n + 1
      BY <3>1
    <3> QED BY <3>1, <3>2, ZenonT(40)
  <2>2. Files!Cardinality(S \cup {x}) = Cardinality(S \cup {x}) /\ Files!Cardinality(S) = Cardinality(S)
    BY <1>1, Zenon
  <2> QED BY <2>1, <2>2, ZenonT(40)
<1>5. Files!Cardinality(S) \in Nat /\ \A T \in SUBSET S : Files!Cardinality(T) <= Files!Cardinality(S)
  BY <1>1, <1>2, ZenonT(40)
<1> QED BY <1>4, <1>5, ZenonT(40)

\* The group never runs more goroutines than it has workers.
LEMMA WorkersBounded ==
  ASSUME Reqs \in Nat, maxWorkers \in Nat, Files!TransferInv, Files!Cardinality(Files!Running) <= maxWorkers,
         [Files!Next]_(Files!vars)
  PROVE  Files!Cardinality(Files!Running') <= maxWorkers
<1>1. IsFiniteSet(Files!Running)
  <2>1. IsFiniteSet(1 .. Reqs)
    BY FS_Interval, SMTT(30)
  <2>2. Files!Running \subseteq 1 .. Reqs
    BY Zenon DEF Files!Running, Files!Req
  <2> QED BY <2>1, <2>2, FS_Subset, ZenonT(40)
<1>2. ASSUME Files!Running' \subseteq Files!Running
      PROVE  Files!Cardinality(Files!Running') <= maxWorkers
  <2>1. PICK R : R = Files!Running'
    BY Zenon
  <2>2. Files!Cardinality(R) <= Files!Cardinality(Files!Running) /\ Files!Cardinality(Files!Running) \in Nat
    BY <1>1, <1>2, <2>1, GroupSizes, ZenonT(40)
  <2>3. Files!Cardinality(R) \in Nat
    BY <1>1, <1>2, <2>1, GroupSizes, FS_Subset, ZenonT(40)
  <2> QED BY <2>1, <2>2, <2>3, SMTT(30)
<1>3. ASSUME NEW r \in Files!Req, Files!Go(r)
      PROVE  Files!Cardinality(Files!Running') <= maxWorkers
  <2>1. Files!Running' = Files!Running \cup {r}
    BY <1>3, Zenon DEF Files!Go, Files!Running, Files!TransferInv
  <2>2. Files!Cardinality(Files!Running) < maxWorkers
    BY <1>3, Zenon DEF Files!Go
  <2>3. /\ Files!Cardinality(Files!Running \cup {r}) <= Files!Cardinality(Files!Running) + 1
        /\ Files!Cardinality(Files!Running) \in Nat
    BY <1>1, GroupSizes, ZenonT(40)
  <2>4. Files!Cardinality(Files!Running \cup {r}) \in Nat
    BY <1>1, GroupSizes, FS_AddElement, ZenonT(40)
  <2> QED BY <2>1, <2>2, <2>3, <2>4, SMTT(30)
<1>4. ASSUME NEW r \in Files!Req,
             \/ Files!Check(r) \/ Files!CreateTemp(r) \/ Files!GetObject(r)
             \/ Files!Copy(r) \/ Files!Rename(r) \/ Files!Fail(r)
      PROVE  Files!Running' \subseteq Files!Running
  <2>1. pc[r] \in {"go", "create", "get", "copy", "rename"} /\ \A q \in Files!Req : q # r => pc'[q] = pc[q]
    BY <1>4, ZenonT(40) DEF Files!Check, Files!CreateTemp, Files!GetObject, Files!Copy, Files!Rename, Files!Fail,
       Files!TransferInv
  <2> QED BY <2>1, ZenonT(40) DEF Files!Running
<1>5. ASSUME Files!Wait \/ Files!Upload \/ Files!Die \/ (\E f \in File : Files!Open(f)) \/ UNCHANGED Files!vars
      PROVE  Files!Running' \subseteq Files!Running
  <2>1. pc' = pc
    BY <1>5, ZenonT(40) DEF Files!Wait, Files!Upload, Files!Die, Files!Open, Files!vars
  <2> QED BY <2>1, ZenonT(40) DEF Files!Running
<1> QED BY <1>2, <1>3, <1>4, <1>5, ZenonT(40) DEF Files!Next

(* s3.go:32-52, 66-93: for any requests, files and workers, a reader of a    *)
(* local file sees the old file or a whole object asked for there, whatever  *)
(* fails and whenever the process dies; no more goroutines are at work than  *)
(* asked for; success means that every file is in place, and on return       *)
(* nobody is at work and nothing temporary is left.                          *)
THEOREM FilesStayWhole ==
  ASSUME Files!TransfersAssumption
  PROVE  Files!Spec => [](Files!TypeOK /\ Files!FilesWhole /\ Files!AnswerTrue)
<1>1. Old \notin Files!Req /\ Reqs \in Nat /\ maxWorkers \in Nat
  BY Zenon DEF Files!TransfersAssumption
<1>2. Files!TransferInv => Files!FilesWhole
  BY Zenon DEF Files!TransferInv, Files!DiskWhole, Files!FilesWhole, Files!Whole
<1>3. Files!TransferInv => Files!AnswerTrue
  BY ZenonT(40) DEF Files!TransferInv, Files!TempOwned, Files!DiskWhole, Files!AnswerTrue, Files!Running
<1>4. Files!Init => Files!Cardinality(Files!Running) <= maxWorkers
  <2> SUFFICES ASSUME Files!Init PROVE Files!Cardinality(Files!Running) <= maxWorkers
    BY Zenon
  <2>1. Files!Running = {}
    BY Zenon DEF Files!Init, Files!Running
  <2>2. Files!Cardinality({}) = Cardinality({})
    BY Zenon DEF Files!Cardinality, Cardinality
  <2>3. Cardinality({}) = 0
    BY FS_EmptySet, ZenonT(40)
  <2> QED BY <1>1, <2>1, <2>2, <2>3, SMTT(30)
<1>5. Files!TransferInv /\ Files!Cardinality(Files!Running) <= maxWorkers /\ [Files!Next]_(Files!vars)
        => (Files!Cardinality(Files!Running) <= maxWorkers)'
  BY <1>1, WorkersBounded, ZenonT(40)
<1>6. Files!TransferInv /\ Files!Cardinality(Files!Running) <= maxWorkers => Files!TypeOK
  BY Zenon DEF Files!TransferInv, Files!TypeOK
<1>7. Files!Spec => []Files!TransferInv
  BY <1>1, TransferInvariant, ZenonT(40)
<1> QED BY <1>2, <1>3, <1>4, <1>5, <1>6, <1>7, PTL DEF Files!Spec

(* aws.go, assume_role.go: a role is assumed with the credentials of the     *)
(* value it is assumed from, and CallerIdentity tells the same; deriving     *)
(* values repoints no client that exists, and adjusting the defaults of one  *)
(* value disturbs no other.  s3.go: a local file is the old one or a whole   *)
(* object whatever fails and whenever the process dies, and the answer of    *)
(* S3DownloadFiles is true.                                                  *)
AwsExact ==
  /\ []Aws!ClientsTyped /\ [][Aws!ClientsStep]_(Aws!vars)
  /\ [](Files!TypeOK /\ Files!FilesWhole /\ Files!AnswerTrue)

(* aws.go, assume_role.go:34-93: for any roles and however many values are   *)
(* derived from one another: roles chain through the credentials of the      *)
(* value they are assumed from, no client is ever repointed, and no value's  *)
(* defaults change with another's; and downloads are whole (FilesStayWhole). *)
THEOREM AwsClientsExact ==
  ASSUME Aws!ClientsAssumption, Files!TransfersAssumption
  PROVE  Aws!Spec /\ Files!Spec => AwsExact
<1>1. Aws!Spec => []Aws!ClientsTyped /\ [][Aws!ClientsStep]_(Aws!vars)
  BY ClientsInit, ClientsStepAll, ClientsTyped, PTL DEF Aws!Spec
<1> QED BY <1>1, FilesStayWhole, PTL DEF AwsExact

=============================================================================
