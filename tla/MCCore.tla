------------------------------- MODULE MCCore -------------------------------
(* core: configuration, errors, secret stores and log handlers, and the AWS *)
(* clients and transfers.  They share no state: `scene` is the one that     *)
(* moves, the rest stays as it began.  A reader has files and an            *)
(* environment or, in "map", a map alone; secrets are deleted at once       *)
(* ("secrets") or after a window, kept as parameters, or in memory: the     *)
(* latter three are a store of their own, of which the same is said.        *)
EXTENDS CoreProofs

VARIABLES
  scene,
  errs, maps,                                                   \* Errors
  oState, oVal, oBirths, oArg, oIssued, oAnswer, oBlind, oStray \* the other stores

ASSUME ConfigAssumption /\ Secret!SecretAssumption /\ Logs!LogsAssumption
ASSUME Aws!ClientsAssumption /\ Files!TransfersAssumption

MCKey == {<<"s", "a">>, <<"s", "b">>, <<"t", "a">>}
MCDefaults == [k \in MCKey |-> IF k[1] = "t" THEN {} ELSE IF k[2] = "a" THEN {"d1", "d2"} ELSE {"d1"}]
Map == INSTANCE Config WITH FromMap <- TRUE

Errs == INSTANCE Errors WITH MaxErrs <- 3

Window == INSTANCE Secrets WITH force <- FALSE,
  state <- oState, val <- oVal, births <- oBirths, arg <- oArg,
  issued <- oIssued, answer <- oAnswer, blind <- oBlind, stray <- oStray
Parameters == INSTANCE Secrets WITH Kind <- "parameters",
  state <- oState, val <- oVal, births <- oBirths, arg <- oArg,
  issued <- oIssued, answer <- oAnswer, blind <- oBlind, stray <- oStray
Static == INSTANCE Secrets WITH Kind <- "static",
  state <- oState, val <- oVal, births <- oBirths, arg <- oArg,
  issued <- oIssued, answer <- oAnswer, blind <- oBlind, stray <- oStray

\* Every way to configure the outputs; and one of two text outputs, or text and
\* JSON, for longer derivations.
MCOutput ==
  {None} \union [on : BOOLEAN, level : {None, 1, 3}, json : {FALSE}, opens : BOOLEAN]
AnyOutputs ==
  [level : {None, 0, 2}, force : BOOLEAN, console : {o \in MCOutput : o = None \/ o.opens}, file : MCOutput]
OneFile ==
  {[level |-> None, force |-> FALSE, console |-> None,
    file |-> [on |-> TRUE, level |-> None, json |-> j, opens |-> TRUE]] : j \in BOOLEAN}
MCLogConfig == AnyOutputs \union OneFile
Configured == INSTANCE LogHandlers WITH
  Config <- AnyOutputs, Attr <- {"a"}, Mins <- {2}, Logged <- 0..3, MaxLoggers <- 2
Derived == INSTANCE LogHandlers WITH
  Config <- OneFile, Attr <- {"a", "b"}, Mins <- {3}, Logged <- {2}, MaxLoggers <- 4

errVars == <<errs, maps>>
secretVars == <<state, val, births, arg, issued, answer, blind, stray>>
otherVars == <<oState, oVal, oBirths, oArg, oIssued, oAnswer, oBlind, oStray>>
awsVars == <<vals, cell, cfgs, told>>
logVars == <<config, outputs, heap, loggers, line>>
fileVars == <<target, pc, temp, disk, failed, ret, upload, bucket, dead>>
mcVars == <<scene, vars, errVars, secretVars, otherVars, awsVars, logVars, fileVars>>

Stores == {"secrets", "window", "parameters", "static"}

\* Leaf b has fewer defaults than a and is else like it: files that have a alone are as
\* those that have b alone.  Section t has the files and overrides only.  A map
\* reader is to disregard the environment.
MCInit ==
  /\ scene \in {"viper", "map", "errors", "aws", "outputs", "loggers", "files"} \union Stores
  /\ IF scene = "map" THEN Map!Init ELSE Init
  /\ Errs!Init /\ Secret!Init /\ Window!Init /\ Aws!Init /\ Files!Init
  /\ IF scene = "outputs" THEN Configured!Init ELSE Derived!Init
  /\ scene \notin {"outputs", "loggers"} => config.file.json
  /\ scene # "files" => \A r \in DOMAIN target : target[r] = "f"
  /\ file[<<"s", "a">>] # None => file[<<"s", "b">>] # None
  /\ scene = "viper" => env[<<"t", "a">>] = None
  /\ scene = "map" => env \in {Nothing, Holding(Key, "env")}
  /\ scene \notin {"viper", "map"} => env = Nothing /\ file = Nothing

\* Building errors stops at the bound, and a transfer when it is over.
Built ==
  \/ scene = "errors" /\ Len(errs) = 3
  \/ scene = "files" /\ (dead \/ (ret # None /\ bucket # None))

MCNext ==
  \/ /\ \/ scene = "viper" /\ Next
        \/ scene = "map" /\ Map!Next
     /\ UNCHANGED <<scene, errVars, secretVars, otherVars, awsVars, logVars, fileVars>>
  \/ /\ scene = "errors" /\ Errs!Next
     /\ UNCHANGED <<scene, vars, secretVars, otherVars, awsVars, logVars, fileVars>>
  \/ /\ scene = "secrets" /\ Secret!Next
     /\ UNCHANGED <<scene, vars, errVars, otherVars, awsVars, logVars, fileVars>>
  \/ /\ \/ scene = "window" /\ Window!Next
        \/ scene = "parameters" /\ Parameters!Next
        \/ scene = "static" /\ Static!Next
     /\ UNCHANGED <<scene, vars, errVars, secretVars, awsVars, logVars, fileVars>>
  \/ /\ scene = "aws" /\ Aws!Next
     /\ UNCHANGED <<scene, vars, errVars, secretVars, otherVars, logVars, fileVars>>
  \/ /\ \/ scene = "outputs" /\ Configured!Next
        \/ scene = "loggers" /\ Derived!Next
     /\ UNCHANGED <<scene, vars, errVars, secretVars, otherVars, awsVars, fileVars>>
  \/ /\ scene = "files" /\ Files!Next
     /\ UNCHANGED <<scene, vars, errVars, secretVars, otherVars, awsVars, logVars>>
  \/ Built /\ UNCHANGED mcVars

MCSpec == MCInit /\ [][MCNext]_mcVars

-----------------------------------------------------------------------------
(* errorx: whatever is derived from an error later, its params stay what     *)
(* they were; one built from a sentinel matches it, however deep.  The HTTP  *)
(* response, the log level and the gRPC status agree on whose fault it is    *)
(* and, with debug off, on the message, and wrapping changes neither.        *)
ErrorsFaithful ==
  /\ Errs!TypeOK /\ Errs!Immutable /\ Errs!SentinelKept
  /\ Errs!SameVerdict /\ Errs!SameMessage /\ Errs!WrapKeepsAnswer

(* secretx: a store that deletes after a window, one of parameters and one   *)
(* in memory keep the contract that KeepsContract states of the first.       *)
OtherStores ==
  /\ Window!KeepsContract
  /\ [](/\ scene = "window" => Window!TypeOK /\ Window!UsesRight
        /\ scene = "parameters" => Parameters!TypeOK /\ Parameters!UsesRight
        /\ scene = "static" => Static!TypeOK /\ Static!UsesRight)
=============================================================================
