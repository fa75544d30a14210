------------------------------ MODULE Durables ------------------------------
(***************************************************************************)
(* messaging/jetstream/consumer.go: which durable consumer a subscription  *)
(* binds.  A durable is known to the server by its stream and its name and *)
(* carries one filter subject; creating it again overwrites the filter.    *)
(* A name is a sequence of tokens, separators among them.                  *)
(***************************************************************************)
EXTENDS Integers, Sequences

CONSTANTS
  Service,   \* deployments of the driver, each with its configuration
  Prefix,    \* Prefix[s]: its DurablePrefix, <<>> for none
  Subject,   \* subjects (sequences of tokens)
  StreamOf,  \* StreamOf[j]: the stream bound to subject j, or NoStream
  Groups,    \* Groups[s]: the <<subject, queue>> pairs service s subscribes, queue <<>> for none
  NoStream, NoSubject

VARIABLES
  filter,  \* filter[d]: the filter subject of durable d = <<stream, name>>
  bound    \* subscriptions: [svc, subject, queue, durable]

vars == <<filter, bound>>

-----------------------------------------------------------------------------
Forbidden == {".", "*", ">", "/", " "}

sanitizeDurable(n) == [i \in DOMAIN n |-> IF n[i] \in Forbidden THEN "_" ELSE n[i]]

\* A fault of durableName: the prefix is left out.
durableNameBare(s, base) == sanitizeDurable(base)

durableName(s, base) ==
  IF Prefix[s] = <<>> THEN sanitizeDurable(base)
  ELSE sanitizeDurable(Prefix[s]) \o <<"_">> \o sanitizeDurable(base)

\* What a queue or, without one, a subject calls its durable.
Base(g) == IF g[2] = <<>> THEN g[1] ELSE g[2]

Durable(s, g) == <<StreamOf[g[1]], durableName(s, Base(g))>>

\* Two different prefixes still differ, once sanitized, at a place they both have.
PrefixesApart ==
  \A s, t \in Service : Prefix[s] # Prefix[t] =>
    \E i \in 1..Len(Prefix[s]) : i <= Len(Prefix[t])
      /\ sanitizeDurable(Prefix[s])[i] # sanitizeDurable(Prefix[t])[i]

AllDurables ==
  {d \in {Durable(s, g) : s \in Service, g \in UNION {Groups[t] : t \in Service}} : d[1] # NoStream}

Init ==
  /\ filter = [d \in AllDurables |-> NoSubject]
  /\ bound = {}

\* consume: find the stream, create or update the durable, consume from it.
consume(s, g) ==
  /\ StreamOf[g[1]] # NoStream
  /\ filter' = [filter EXCEPT ![Durable(s, g)] = g[1]]
  /\ bound' = bound \cup {[svc |-> s, subject |-> g[1], queue |-> g[2], durable |-> Durable(s, g)]}

\* Unsubscribe stops the consumption; the durable stays on the server.
Unsubscribe(b) ==
  /\ bound' = bound \ {b}
  /\ UNCHANGED filter

Next ==
  \/ \E s \in Service : \E g \in Groups[s] : consume(s, g)
  \/ \E b \in bound : Unsubscribe(b)

Spec == Init /\ [][Next]_vars

-----------------------------------------------------------------------------
TypeOK ==
  /\ filter \in [AllDurables -> Subject \cup {NoSubject}]
  /\ bound \subseteq [svc : Service, subject : Subject, queue : {g[2] : g \in UNION {Groups[s] : s \in Service}},
                      durable : AllDurables]

\* Groups of services with one prefix, in one stream, that have one name once sanitized.
Namesake(s, g, t, h) ==
  /\ Prefix[s] = Prefix[t] /\ StreamOf[g[1]] = StreamOf[h[1]]
  /\ sanitizeDurable(Base(g)) = sanitizeDurable(Base(h))

\* consumer.go:17-31, 39-46: whoever subscribed before or after it, a subscription gets
\* the messages of its own subject or of a namesake's, and of nothing else: its own,
\* always, unless the queue or subject it is named after serves another subject of
\* the stream under the same prefix.
Served ==
  \A b \in bound : \E t \in Service : \E h \in Groups[t] :
    Namesake(b.svc, <<b.subject, b.queue>>, t, h) /\ filter[b.durable] = h[1]

\* consumer.go:26-28: "the durable equivalent of a core-NATS queue group", which is a
\* pair of subject and queue: a subscription gets its own subject.
ServedOwn == \A b \in bound : filter[b.durable] = b.subject

\* config.go:17-19: "two services consuming the same subject get distinct
\* durables", so that each sees every message.
OwnCopies ==
  \A b, c \in bound : Prefix[b.svc] # Prefix[c.svc] => b.durable # c.durable

\* consumer.go:17-46, config.go:17-19: both.
SubscriptionsOwn == TypeOK /\ Served /\ OwnCopies
=============================================================================
