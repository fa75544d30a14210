----------------------------- MODULE AwsClients -----------------------------
(***************************************************************************)
(* aws.go and assume_role.go: AWS values, each with an SDK config, service *)
(* clients built from it, an STS client built on first use, and defaults.  *)
(* AssumeRoleConfig makes a config for a role, with the STS client of the  *)
(* value it is called on; Derive makes an AWS value for such a config.     *)
(* Credentials are the accounts they were assumed through.  stsClient does *)
(* its work under the value's mutex and all else that the calls read is    *)
(* fixed once Init has run, so a call is one step.                         *)
(***************************************************************************)
EXTENDS Naturals, Sequences

CONSTANTS
  Role, Own,    \* roles of other accounts; the application's own account
  InPlace,      \* BOOLEAN: callers also write through DefaultS3BucketName
  MaxVals,      \* bound: AWS values
  MaxCells      \* bound: cells of memory for defaults

VARIABLES
  vals,         \* the AWS values; their creds, client and sts are <<>> when nil
  cell,         \* memory: what each default is
  cfgs,         \* the configs of AssumeRoleConfig: [by, role, creds]
  told          \* what CallerIdentity said last, and of which value

vars == <<vals, cell, cfgs, told>>

Vals == 1 .. Len(vals)
Fresh == Len(cell) + 1

\* NewAWS; the two defaults are those of SES and of S3.
Init ==
  /\ vals = <<[creds |-> <<>>, client |-> <<>>, sts |-> <<>>, ses |-> 1, bucket |-> 2]>>
  /\ cell = <<1, 2>> /\ cfgs = {} /\ told = <<>>

-----------------------------------------------------------------------------
\* The services' clients, and that of STS when it is asked for.
initClients(v, eager) == [v EXCEPT !.client = v.creds, !.sts = IF eager THEN v.creds ELSE @]

\* Init, which the host calls before the value is shared.
InitAWS(eager) ==
  /\ vals[1].creds = <<>>
  /\ vals' = [vals EXCEPT ![1] = initClients([@ EXCEPT !.creds = <<Own>>], eager)]
  /\ UNCHANGED <<cell, cfgs, told>>

Initialized(v) == vals[v].sts # <<>> \/ vals[v].creds # <<>>

\* Value v with the STS client it has or builds.
stsClient(v) == [vals[v] EXCEPT !.sts = IF @ # <<>> THEN @ ELSE vals[v].creds]

\* The config of role r, assumed by value v.  An invalid role or session name,
\* or a value that is not initialized, is an error before anything is changed.
AssumeRoleConfig(v, r) ==
  /\ Initialized(v)
  /\ vals' = [vals EXCEPT ![v] = stsClient(v)]
  /\ cfgs' = cfgs \cup {[by |-> v, role |-> r, creds |-> Append(stsClient(v).sts, r)]}
  /\ UNCHANGED <<cell, told>>

\* A fault of Derive: the defaults are shared.
DeriveShared(v, cfg, eager) ==
  /\ Len(vals) < MaxVals /\ UNCHANGED <<cell, cfgs, told>>
  /\ vals' = Append(vals, initClients([vals[v] EXCEPT !.creds = cfg.creds, !.sts = <<>>], eager))

\* A value for cfg with v's defaults: the SES ones are copied, the bucket's name
\* is a pointer, and that is copied.
Derive(v, cfg, eager) ==
  /\ Len(vals) < MaxVals /\ Fresh <= MaxCells
  /\ cell' = Append(cell, cell[vals[v].ses])
  /\ vals' = Append(vals, initClients([vals[v] EXCEPT !.creds = cfg.creds, !.sts = <<>>,
                                                      !.ses = Fresh], eager))
  /\ UNCHANGED <<cfgs, told>>

CallerIdentity(v) ==
  /\ Initialized(v)
  /\ vals' = [vals EXCEPT ![v] = stsClient(v)]
  /\ told' = <<v, stsClient(v).sts>> /\ UNCHANGED <<cell, cfgs>>

\* The caller adjusts a default of v: DefaultSES.SenderEmail, DefaultS3BucketName
\* or, InPlace, what that points to.
Adjust(v) ==
  /\ \/ cell' = [cell EXCEPT ![vals[v].ses] = @ + 10] /\ cell[vals[v].ses] < 10 /\ UNCHANGED vals
     \/ Fresh <= MaxCells /\ cell' = Append(cell, Fresh) /\ vals' = [vals EXCEPT ![v].bucket = Fresh]
     \/ InPlace /\ cell[vals[v].bucket] < 10
        /\ cell' = [cell EXCEPT ![vals[v].bucket] = @ + 10] /\ UNCHANGED vals
  /\ UNCHANGED <<cfgs, told>>

Next ==
  \/ \E eager \in BOOLEAN : InitAWS(eager)
  \/ \E v \in Vals :
       \/ \E r \in Role : AssumeRoleConfig(v, r)
       \/ \E cfg \in cfgs, eager \in BOOLEAN : Derive(v, cfg, eager)
       \/ CallerIdentity(v)
       \/ Adjust(v)

Spec == Init /\ [][Next]_vars

-----------------------------------------------------------------------------
TypeOK ==
  /\ Len(vals) <= MaxVals /\ Len(cell) <= MaxCells
  /\ \A v \in Vals :
       /\ vals[v].creds = <<>> \/ vals[v].creds[1] = Own
       /\ vals[v].ses \in 1 .. Len(cell) /\ vals[v].bucket \in 1 .. Len(cell)
  /\ \A cfg \in cfgs : cfg.by \in Vals /\ cfg.role \in Role /\ cfg.creds[1] = Own

(* A role is assumed with the credentials of the value it is assumed from: from  *)
(* a derived value it chains, however far, and CallerIdentity tells the same.    *)
ChainsRoles ==
  /\ \A cfg \in cfgs : cfg.creds = Append(vals[cfg.by].creds, cfg.role)
  /\ told # <<>> => told[2] = vals[told[1]].creds

(* A step repoints no client that exists: AssumeRoleConfig works on a copy of    *)
(* the config.                                                                   *)
NeverRepoints ==
  \A v \in Vals : vals[v].creds # <<>> =>
    /\ vals'[v].creds = vals[v].creds /\ vals'[v].client = vals[v].client
    /\ vals[v].sts # <<>> => vals'[v].sts = vals[v].sts

(* A step changes the defaults of at most one value: Derive copies them.         *)
DefaultsOwn ==
  \A u, w \in Vals :
    ( /\ <<cell'[vals'[u].ses], cell'[vals'[u].bucket]>> # <<cell[vals[u].ses], cell[vals[u].bucket]>>
      /\ <<cell'[vals'[w].ses], cell'[vals'[w].bucket]>> # <<cell[vals[w].ses], cell[vals[w].bucket]>> )
    => u = w

(* All that is said of the clients, in a step and after it. *)
ClientsTyped == TypeOK /\ ChainsRoles
ClientsStep == NeverRepoints /\ DefaultsOwn
-----------------------------------------------------------------------------
(* The inductive invariant.                                                  *)

Account == Role \union {Own}
AwsValue == [creds : Seq(Account), client : Seq(Account), sts : Seq(Account), ses : Nat, bucket : Nat]

\* An STS client has the credentials of its value, and only what an initialized
\* value assumed or was told of itself is known; the bucket's cell may be shared,
\* the cell of the SES defaults belongs to one value.
ClientsInv ==
  /\ vals \in Seq(AwsValue)
  /\ Len(vals) \in 1 .. MaxVals /\ cell \in Seq(Nat) /\ Len(cell) <= MaxCells
  /\ cfgs \subseteq [by : Vals, role : Role, creds : Seq(Account)]
  /\ \A v \in Vals :
       /\ vals[v].creds = <<>> \/ vals[v].creds[1] = Own
       /\ vals[v].sts \in {<<>>, vals[v].creds}
       /\ vals[v].ses \in 1 .. Len(cell) /\ vals[v].bucket \in 1 .. Len(cell)
  /\ \A u, w \in Vals : vals[u].ses # vals[w].bucket /\ (u # w => vals[u].ses # vals[w].ses)
  /\ \A cfg \in cfgs : vals[cfg.by].creds # <<>> /\ cfg.creds = Append(vals[cfg.by].creds, cfg.role)
  /\ told = <<>> \/ \E v \in Vals : vals[v].creds # <<>> /\ told = <<v, vals[v].creds>>

ClientsAssumption == InPlace = FALSE /\ MaxVals \in Nat \ {0} /\ MaxCells \in Nat \ {0, 1}
=============================================================================
