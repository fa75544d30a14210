------------------------------ MODULE Timeout -------------------------------
(***************************************************************************)
(* httpx/middleware/timeout.go: one request under Timeout.  The request    *)
(* goroutine runs the handler, which writes into the buffer of a           *)
(* timeoutWriter; a watcher goroutine sends the 503 when the context ends; *)
(* a deferred function retires the watcher and decides what is left to     *)
(* send.  Methods of timeoutWriter hold its mutex and are single steps.    *)
(* `real` is gin's writer and what has gone to the client through it.      *)
(***************************************************************************)
EXTENDS Integers, Sequences

CONSTANTS
  Code,        \* status codes a handler sets
  MaxWrites,   \* bound: writes of one handler
  MayLeave     \* TRUE: the client may disconnect, which cancels the request's context

VARIABLES
  late,      \* the deadline has passed
  ctx,       \* ctx.Done() is closed
  state,     \* stBuffering, stPassthrough, stTimedOut
  code, buf, \* of the timeoutWriter
  header,    \* whether the handler has set a header of its own, in its private map
  real,      \* [status, sent, body, header]: gin's writer
  watcher,   \* "waiting", "firing" (has seen ctx.Done), "gone"
  main,      \* where the request goroutine is
  panicked, expired,  \* of the deferred function
  chan       \* done is closed

writer == <<state, code, buf, header, real>>
vars == <<late, ctx, writer, watcher, main, panicked, expired, chan>>

Init ==
  /\ late = FALSE /\ ctx = FALSE
  /\ state = "buffering" /\ code = 200 /\ buf = <<>> /\ header = FALSE
  /\ real = [status |-> 200, sent |-> FALSE, body |-> <<>>, header |-> FALSE]
  /\ watcher = "waiting" /\ main = "handler"
  /\ panicked = FALSE /\ expired = FALSE /\ chan = FALSE

-----------------------------------------------------------------------------
(* gin's writer: the status can change until something is sent.            *)

RealStatus(w, c) == IF w.sent THEN w ELSE [w EXCEPT !.status = c]
RealWrite(w, s) == [w EXCEPT !.sent = TRUE, !.body = @ \o s]

-----------------------------------------------------------------------------
(* timeoutWriter                                                           *)

WriteHeader(c) ==
  /\ code' = IF state = "buffering" THEN c ELSE code
  /\ real' = IF state = "passthrough" THEN RealStatus(real, c) ELSE real
  /\ UNCHANGED <<state, buf, header>>

Write(s) ==
  /\ buf' = IF state = "buffering" THEN buf \o s ELSE buf
  /\ real' = IF state = "passthrough" THEN RealWrite(real, s) ELSE real
  /\ UNCHANGED <<state, code, header>>

commit ==
  IF state # "buffering" THEN UNCHANGED writer
  ELSE /\ state' = "passthrough"
       /\ real' = LET w == RealStatus([real EXCEPT !.header = header], code)
                  IN  IF buf = <<>> THEN w ELSE RealWrite(w, buf)
       /\ UNCHANGED <<code, buf, header>>

writeTimeout ==
  IF state # "buffering" THEN UNCHANGED writer
  ELSE /\ state' = "timedOut" /\ code' = 503
       /\ real' = RealWrite(RealStatus(real, 503), <<"timeout">>)
       /\ UNCHANGED <<buf, header>>

enablePassthrough ==
  IF state # "buffering" THEN UNCHANGED writer
  ELSE state' = "passthrough" /\ buf' = <<>> /\ UNCHANGED <<code, header, real>>

-----------------------------------------------------------------------------
(* The handler, on the request goroutine                                   *)

HandlerWrites ==
  /\ main = "handler"
  /\ \/ \E c \in Code : WriteHeader(c)
     \/ header' = TRUE /\ UNCHANGED <<state, code, buf, real>>
     \/ Len(buf) < MaxWrites /\ Write(<<"handler">>)
  /\ UNCHANGED <<late, ctx, watcher, main, panicked, expired, chan>>

HandlerEnds(panics) ==
  /\ main = "handler"
  /\ main' = "deferred"
  /\ panicked' = panics
  /\ expired' = (ctx \/ late)
  /\ UNCHANGED <<late, ctx, writer, watcher, chan>>

CloseDone ==
  /\ main = "deferred"
  /\ chan' = TRUE
  /\ main' = "retire"
  /\ UNCHANGED <<late, ctx, writer, watcher, panicked, expired>>

\* watcher.Wait()
Retired ==
  /\ main = "retire" /\ watcher = "gone"
  /\ main' = "expire"
  /\ UNCHANGED <<late, ctx, writer, watcher, panicked, expired, chan>>

\* A fault of Expire: it is left to the watcher.
ExpireLeftToWatcher ==
  /\ main = "expire"
  /\ main' = "settle"
  /\ UNCHANGED <<late, ctx, writer, watcher, panicked, expired, chan>>

Expire ==
  /\ main = "expire"
  /\ IF expired THEN writeTimeout ELSE UNCHANGED writer
  /\ main' = "settle"
  /\ UNCHANGED <<late, ctx, watcher, panicked, expired, chan>>

Settle ==
  /\ main = "settle"
  /\ IF panicked THEN enablePassthrough ELSE commit
  /\ ctx' = TRUE
  /\ main' = "upstream"
  /\ UNCHANGED <<late, watcher, panicked, expired, chan>>

\* The middlewares around Timeout: Recovery answers a panic, Error an error
\* the handler has recorded; then the response is flushed.
Upstream(writes) ==
  /\ main = "upstream"
  /\ panicked => writes
  /\ IF writes
       THEN IF state = "passthrough"
              THEN real' = RealWrite(RealStatus(real, IF panicked THEN 500 ELSE 400), <<"upstream">>)
              ELSE UNCHANGED real
       ELSE real' = [real EXCEPT !.sent = TRUE]
  /\ main' = "end"
  /\ UNCHANGED <<late, ctx, state, code, buf, header, watcher, panicked, expired, chan>>

-----------------------------------------------------------------------------
(* The watcher and the world                                               *)

WatcherSees ==
  /\ watcher = "waiting"
  /\ \/ ctx /\ watcher' = "firing"
     \/ chan /\ watcher' = "gone"
  /\ UNCHANGED <<late, ctx, writer, main, panicked, expired, chan>>

\* A fault of WatcherFires: the 503 is left to the request goroutine.
WatcherFiresNothing ==
  /\ watcher = "firing"
  /\ watcher' = "gone"
  /\ UNCHANGED <<late, ctx, writer, main, panicked, expired, chan>>

WatcherFires ==
  /\ watcher = "firing"
  /\ writeTimeout
  /\ watcher' = "gone"
  /\ UNCHANGED <<late, ctx, main, panicked, expired, chan>>

DeadlinePasses ==
  /\ ~late
  /\ late' = TRUE
  /\ UNCHANGED <<ctx, writer, watcher, main, panicked, expired, chan>>

\* The timer of the context fires at or after the deadline.
TimerFires ==
  /\ late /\ ~ctx
  /\ ctx' = TRUE
  /\ UNCHANGED <<late, writer, watcher, main, panicked, expired, chan>>

ClientLeaves ==
  /\ MayLeave /\ ~ctx
  /\ ctx' = TRUE
  /\ UNCHANGED <<late, writer, watcher, main, panicked, expired, chan>>

Ended == main = "end" /\ UNCHANGED vars

Next ==
  \/ HandlerWrites \/ \E b \in BOOLEAN : HandlerEnds(b) \/ Upstream(b)
  \/ CloseDone \/ Retired \/ Expire \/ Settle
  \/ WatcherSees \/ WatcherFires \/ DeadlinePasses \/ TimerFires \/ ClientLeaves \/ Ended

Spec == Init /\ [][Next]_vars

\* Timers fire and goroutines run.  Nothing makes a handler return.
Fairness ==
  /\ WF_vars(DeadlinePasses) /\ WF_vars(TimerFires)
  /\ WF_vars(WatcherSees) /\ WF_vars(WatcherFires)
  /\ WF_vars(CloseDone) /\ WF_vars(Retired) /\ WF_vars(Expire) /\ WF_vars(Settle)
  /\ WF_vars(\E b \in BOOLEAN : Upstream(b))

FairSpec == Spec /\ Fairness

-----------------------------------------------------------------------------
TypeOK ==
  /\ late \in BOOLEAN /\ ctx \in BOOLEAN
  /\ state \in {"buffering", "passthrough", "timedOut"}
  /\ code \in Code \cup {503}
  /\ buf \in Seq({"handler"})
  /\ header \in BOOLEAN
  /\ real \in [status : Code \cup {400, 500, 503}, sent : BOOLEAN,
               body : Seq({"handler", "timeout", "upstream"}), header : BOOLEAN]
  /\ watcher \in {"waiting", "firing", "gone"}
  /\ main \in {"handler", "deferred", "retire", "expire", "settle", "upstream", "end"}
  /\ panicked \in BOOLEAN /\ expired \in BOOLEAN /\ chan \in BOOLEAN

TimedOut == \E i \in 1..Len(real.body) : real.body[i] = "timeout"

\* timeout.go:20-23, 119-121: the client never gets a mixture.  Once the 503 is
\* out it is all there is: its status, its one body, none of the handler's headers.
Unmixed ==
  TimedOut => real.status = 503 /\ real.body = <<"timeout">> /\ ~real.header

\* timeout.go:60-83: a handler that returns in time has its whole response sent,
\* one that panics in time has none of it sent, and one that is late gets the 503
\* however the watcher was scheduled.
RightAnswer ==
  main = "end" =>
    /\ expired => TimedOut
    /\ ~expired /\ ~panicked /\ ~TimedOut =>
         /\ \E s \in {<<>>, <<"upstream">>} : real.body = buf \o s
         /\ real.header = header
         /\ real.body = buf => real.status = code
    /\ ~expired /\ panicked /\ ~TimedOut =>
         real.status = 500 /\ real.body = <<"upstream">> /\ ~real.header

\* timeout.go:67-70: nothing writes to the connection behind the back of the
\* middlewares around Timeout.
WatcherRetired == main \in {"expire", "settle", "upstream", "end"} => watcher = "gone"

\* timeout.go:20-23, 60-83: in time, late or panicking, the client gets one
\* response and the right one, and the watcher is gone by the time it is decided.
OneRightResponse == TypeOK /\ Unmixed /\ RightAnswer /\ WatcherRetired

\* timeout.go:52-53: "Only a real deadline reaches here".
OnlyDeadlines == state = "timedOut" => late

\* timeout.go:14-16: when the deadline fires first the client gets the 503 at
\* once, even when the handler never returns.
Prompt == []((late /\ main = "handler") => <>(real.sent))
=============================================================================
