----------------------------- MODULE MCRequests -----------------------------
(* What stands between a request and its handler: the idempotency and the   *)
(* rate limiting middleware, the cache of tenants and the cache loader.     *)
(* They share no state: `scene` is the one that moves.  Requests r1 and r2  *)
(* are one operation sent twice, r3 has another body and r4 another caller. *)
(* The requests of "bodies" run to their end.  Other settings of the        *)
(* middleware and of the cache of tenants have variables of their own.      *)
EXTENDS RequestsProofs, TLC

VARIABLES
  scene,
  oPc, oStore, oResult, oStatus, oEnded, oExpired, oAnswer, oBefore,  \* "callers", "endedMemory", "endedRedis"
  oTruth, oEntry, oTPc, oId, oGot, oOwn, oSince, oFloor, oCalm        \* "tenantsOff"

Op(c, b) == [caller |-> c, resource |-> "put", key |-> "k", body |-> b]
MCOperation ==
  "r1" :> Op("ann", "x") @@ "r2" :> Op("ann", "x") @@ "r3" :> Op("ann", "y") @@ "r4" :> Op("bob", "x")

\* Requests that run to their end, and requests whose context may end before.
Callers == INSTANCE Idempotency WITH
  Request <- {"r1", "r2", "r4"},
  pc <- oPc, store <- oStore, result <- oResult, status <- oStatus, ended <- oEnded,
  expired <- oExpired, answer <- oAnswer, before <- oBefore
EndedMemory == INSTANCE Idempotency WITH
  Request <- {"r1", "r2"}, MayExpire <- TRUE, MayLeave <- TRUE,
  pc <- oPc, store <- oStore, result <- oResult, status <- oStatus, ended <- oEnded,
  expired <- oExpired, answer <- oAnswer, before <- oBefore
EndedRedis == INSTANCE Idempotency WITH
  Request <- {"r1", "r2"}, MayExpire <- TRUE, MayLeave <- TRUE, StoreMinds <- TRUE,
  pc <- oPc, store <- oStore, result <- oResult, status <- oStatus, ended <- oEnded,
  expired <- oExpired, answer <- oAnswer, before <- oBefore

\* WithNegativeTTL(0).
TenantsOff == INSTANCE TenantCache WITH
  Request <- Visitor, TTL <- TenantTTL, AbsentTTL <- 0, MaxVersion <- TenantVersions,
  truth <- oTruth, entry <- oEntry, pc <- oTPc, id <- oId, got <- oGot, own <- oOwn, since <- oSince,
  floor <- oFloor, calm <- oCalm

\* A bucket is full again when it may be forgotten.
ASSUME ScenesAssumption ==
  /\ Retry!RetryAssumption /\ Callers!RetryAssumption
  /\ EndedMemory!RetryAssumption /\ EndedRedis!RetryAssumption
  /\ Cached!LoaderAssumption /\ Tenants!TenantAssumption /\ TenantsOff!TenantAssumption
  /\ Full <= IdleTTL + 1

retryVars == <<pc, store, result, status, ended, expired, answer, before>>
otherRetryVars == <<oPc, oStore, oResult, oStatus, oEnded, oExpired, oAnswer, oBefore>>
loaderVars == <<truth, entry, flight, joined, lPc, key, loaded, since, floor, calm>>
tenantVars == <<tTruth, tEntry, tPc, id, got, own, tSince, tFloor, tCalm>>
otherTenantVars == <<oTruth, oEntry, oTPc, oId, oGot, oOwn, oSince, oFloor, oCalm>>
otherVars == <<otherRetryVars, otherTenantVars>>
mcVars == <<scene, retryVars, loaderVars, tenantVars, otherVars, vars>>

MCInit ==
  /\ scene \in {"bodies", "callers", "endedMemory", "endedRedis", "loader", "tenants", "tenantsOff", "rate"}
  /\ Retry!Init /\ Cached!Init /\ Tenants!Init /\ TenantsOff!Init /\ Init
  /\ CASE scene = "callers" -> Callers!Init
       [] scene = "endedRedis" -> EndedRedis!Init
       [] OTHER -> EndedMemory!Init

MCNext ==
  /\ UNCHANGED scene
  /\ \/ scene = "bodies" /\ Retry!Next /\ UNCHANGED <<loaderVars, tenantVars, otherVars, vars>>
     \/ /\ \/ scene = "callers" /\ Callers!Next
           \/ scene = "endedMemory" /\ EndedMemory!Next
           \/ scene = "endedRedis" /\ EndedRedis!Next
        /\ UNCHANGED <<retryVars, loaderVars, tenantVars, otherTenantVars, vars>>
     \/ scene = "loader" /\ Cached!Next /\ UNCHANGED <<retryVars, tenantVars, otherVars, vars>>
     \/ scene = "tenants" /\ Tenants!Next /\ UNCHANGED <<retryVars, loaderVars, otherVars, vars>>
     \/ /\ scene = "tenantsOff" /\ TenantsOff!Next
        /\ UNCHANGED <<retryVars, loaderVars, tenantVars, otherRetryVars, vars>>
     \/ scene = "rate" /\ Next /\ UNCHANGED <<retryVars, loaderVars, tenantVars, otherVars>>

MCSpec == MCInit /\ [][MCNext]_mcVars

-----------------------------------------------------------------------------
(* idempotency.go:91-94, 116-119, 159, cache.go:119-123: two callers never  *)
(* see each other's responses; a request whose context ends, before or after *)
(* it acts, in a store that minds or not, is replayed to its retry or acts   *)
(* anew, as RetriesReplay says; and where absences are not remembered every  *)
(* one that is served is news from the store.                                *)
OtherSettings ==
  /\ scene = "callers" => Callers!RetriesReplay
  /\ scene = "endedMemory" => EndedMemory!RetriesReplay
  /\ scene = "endedRedis" => EndedRedis!RetriesReplay
  /\ TenantsOff!TenantsTrue
=============================================================================
