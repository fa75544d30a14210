--------------------------- MODULE MessagingProofs --------------------------
(***************************************************************************)
(* The theorems about messages on their way: the JetStream driver          *)
(* (JetStream), core NATS (CoreNats), the durables of subscriptions        *)
(* (Durables) and what messages carry of their request (Lineage).          *)
(***************************************************************************)
EXTENDS Lineage, Integers, Sequences, TLAPS

-----------------------------------------------------------------------------
(* What messages carry of their request. *)

\* The id of the request a context, message or row goes back to.
IdOf(root) == IF root = Background THEN None ELSE root

Stories == [root : Cause, first : Nat \union {None}, plain : BOOLEAN, relayed : BOOLEAN]

\* What holds of every context, message and row: it carries its request's id and a
\* trace that was begun; one that only services with a tracer have seen has a trace.
Says(x) ==
  /\ x.story \in Stories
  /\ x.head.corr = IdOf(x.story.root)
  /\ x.head.trace \in (1..traces) \union {None}
  /\ x.story.plain \/ x.story.root = Background \/ x.story.first # None

\* It is in the trace of its request.
InTrace(x) ==
  x.story.plain \/ x.story.relayed \/ x.story.root = Background \/ x.head.trace = x.story.first

StoryInv ==
  /\ traces \in Nat
  /\ \A x \in work \union wire \union rows : Says(x)
  /\ \A x \in work \union wire : InTrace(x)
  /\ \A c \in work : /\ c.story.plain \/ c.svc \in Traced
                     /\ c.msg # None => c.msg \in wire /\ c.msg.story.root = c.story.root

\* A trace begun or gone on with has a number that was given out.
LEMMA TraceBegun ==
  ASSUME StoryAssumption, traces \in Nat, NEW svc, NEW old \in (1..traces) \union {None},
         NEW trace, trace = None \/ trace = Start(svc, old), Begun(trace)
  PROVE  /\ traces' \in Nat /\ traces <= traces'
         /\ trace \in (1..traces') \union {None}
         /\ old \in (1..traces') \union {None}
<1>1. trace \in (1..traces) \union {None, traces + 1}
  BY Zenon DEF Start
<1>2. traces' = IF trace = traces + 1 THEN traces + 1 ELSE traces
  BY Zenon DEF Begun
<1> QED BY <1>1, <1>2 DEF StoryAssumption

\* What was true before stays true when traces are begun.
LEMMA SaysStill ==
  ASSUME StoryInv, traces' \in Nat, traces <= traces'
  PROVE  /\ \A x \in work \union wire \union rows : Says(x)'
         /\ \A x \in work \union wire : InTrace(x)'
<1>1. (1..traces) \subseteq 1..traces'
  BY DEF StoryInv
<1>2. ASSUME NEW x \in work \union wire \union rows PROVE Says(x)'
  <2>1. Says(x)
    BY Zenon DEF StoryInv
  <2> QED BY <1>1, <2>1, Zenon DEF Says, IdOf, Stories
<1>3. \A x \in work \union wire : InTrace(x)'
  BY Zenon DEF StoryInv, InTrace
<1> QED BY <1>2, <1>3, Zenon

\* The headers a handler sends on have the id of its request, or none.
LEMMA OwnHeaders ==
  ASSUME StoryInv, NEW c \in work, NEW headers \in Own(c)
  PROVE  /\ headers.corr \in {None, IdOf(c.story.root)}
         /\ headers.trace \in (1..traces) \union {None}
<1>1. CASE headers = NoHeaders
  BY <1>1, Zenon DEF NoHeaders
<1>2. CASE c.msg # None /\ headers = c.msg.head
  <2>1. c.msg \in wire /\ c.msg.story.root = c.story.root
    BY <1>2, Zenon DEF StoryInv
  <2>2. Says(c.msg)
    BY <2>1, Zenon DEF StoryInv
  <2> QED BY <1>2, <2>1, <2>2, Zenon DEF Says
<1> QED BY <1>1, <1>2, Zenon DEF Own

LEMMA StoryBegin ==
  ASSUME StoryAssumption, StoryInv, NEW r \in Cause, NEW svc \in Service, Begin(r, svc)
  PROVE  StoryInv'
<1>1. PICK trace : trace = IF r = Background THEN None ELSE Start(svc, None)
  BY Zenon
<1>2. PICK c : c = [svc |-> svc, msg |-> None,
                    head |-> [corr |-> IF r = Background THEN None ELSE r, trace |-> trace],
                    story |-> [root |-> r, first |-> trace, plain |-> svc \notin Traced, relayed |-> FALSE]]
  BY Zenon
<1>3. Begun(trace) /\ work' = work \union {c} /\ UNCHANGED <<wire, rows>>
  BY <1>1, <1>2, Zenon DEF Begin
<1>4. /\ c.svc = svc /\ c.msg = None /\ c.head.corr = IdOf(r) /\ c.head.trace = trace
      /\ c.story.root = r /\ c.story.first = trace /\ (c.story.plain <=> svc \notin Traced)
  BY <1>2, Zenon DEF IdOf
<1>5. traces' \in Nat /\ traces <= traces' /\ trace \in (1..traces') \union {None}
  BY <1>1, <1>3, TraceBegun, Zenon DEF StoryInv
<1>6. trace # None \/ r = Background \/ svc \notin Traced
  BY <1>1 DEF Start, StoryAssumption, StoryInv
<1>7. c.story \in Stories
  BY <1>2, <1>5 DEF Stories
<1>s. Says(c)' /\ InTrace(c)'
  BY <1>4, <1>5, <1>6, <1>7, Zenon DEF Says, InTrace, IdOf, Stories
<1>8. /\ \A x \in work \union wire \union rows : Says(x)'
      /\ \A x \in work \union wire : InTrace(x)'
  BY <1>5, SaysStill, Zenon
<1>9. \A d \in work' : /\ d.story.plain \/ d.svc \in Traced
                       /\ d.msg # None => d.msg \in wire' /\ d.msg.story.root = d.story.root
  BY <1>3, <1>4, Zenon DEF StoryInv
<1> QED BY <1>3, <1>5, <1>s, <1>8, <1>9, Zenon DEF StoryInv

LEMMA StoryPublish ==
  ASSUME StoryAssumption, StoryInv, NEW c \in work, NEW headers \in Own(c),
         Publish(c, headers) \/ Enqueue(c, headers)
  PROVE  StoryInv'
<1>1. /\ headers.corr \in {None, IdOf(c.story.root)} /\ headers.trace \in (1..traces) \union {None}
      /\ Says(c) /\ InTrace(c) /\ (c.story.plain \/ c.svc \in Traced)
  BY OwnHeaders, Zenon DEF StoryInv
<1>2. CASE Publish(c, headers)
  <2>1. PICK trace : trace = Start(c.svc, c.head.trace)
    BY Zenon
  <2>2. PICK m : m = [dead |-> FALSE, head |-> InjectContext(c.svc, c.head.corr, trace, headers), story |-> c.story]
    BY Zenon
  <2>3. Begun(trace) /\ wire' = wire \union {m} /\ UNCHANGED <<work, rows>>
    BY <1>2, <2>1, <2>2, Zenon DEF Publish, Send
  <2>4. traces' \in Nat /\ traces <= traces' /\ trace \in (1..traces') \union {None}
    BY <1>1, <2>1, <2>3, TraceBegun, Zenon DEF StoryInv, Says
  <2>5. /\ m.story = c.story
        /\ m.head.corr = IF headers.corr # None THEN headers.corr ELSE c.head.corr
        /\ m.head.trace = IF c.svc \in Traced /\ trace # None THEN trace ELSE headers.trace
    BY <2>2, Zenon DEF InjectContext
  <2>6. (1..traces) \subseteq 1..traces'
    BY <2>4 DEF StoryInv
  <2>7. m.head.corr = IdOf(c.story.root)
    BY <1>1, <2>5, Zenon DEF Says
  <2>8. m.head.trace \in (1..traces') \union {None}
    BY <1>1, <2>4, <2>5, <2>6, Zenon
  <2>9. Says(m)'
    BY <1>1, <2>5, <2>7, <2>8, Zenon DEF Says, IdOf, Stories
  <2>10. InTrace(m)'
    <3> SUFFICES ASSUME ~c.story.plain, ~c.story.relayed, c.story.root # Background PROVE m.head.trace = c.story.first
      BY <2>5, Zenon DEF InTrace
    <3>1. c.head.trace = c.story.first /\ c.story.first # None /\ c.svc \in Traced
      BY <1>1, Zenon DEF InTrace, Says
    <3>2. trace = c.story.first
      BY <2>1, <3>1, Zenon DEF Start
    <3> QED BY <2>5, <3>1, <3>2, Zenon
  <2>11. /\ \A x \in work \union wire \union rows : Says(x)'
         /\ \A x \in work \union wire : InTrace(x)'
    BY <2>4, SaysStill, Zenon
  <2>12. \A d \in work' : /\ d.story.plain \/ d.svc \in Traced
                          /\ d.msg # None => d.msg \in wire' /\ d.msg.story.root = d.story.root
    BY <2>3, Zenon DEF StoryInv
  <2> QED BY <2>3, <2>4, <2>9, <2>10, <2>11, <2>12, Zenon DEF StoryInv
<1>3. CASE Enqueue(c, headers)
  <2>1. PICK row : row = [svc |-> c.svc, story |-> c.story,
                          head |-> InjectContext(c.svc, c.head.corr, c.head.trace, headers)]
    BY Zenon
  <2>2. rows' = rows \union {row} /\ UNCHANGED <<work, wire, traces>>
    BY <1>3, <2>1, Zenon DEF Enqueue
  <2>3. /\ row.story = c.story
        /\ row.head.corr = IF headers.corr # None THEN headers.corr ELSE c.head.corr
        /\ row.head.trace = IF c.svc \in Traced /\ c.head.trace # None THEN c.head.trace ELSE headers.trace
    BY <2>1, Zenon DEF InjectContext
  <2>4. Says(row)'
    BY <1>1, <2>2, <2>3, Zenon DEF Says, IdOf, Stories
  <2>5. /\ \A x \in work \union wire \union rows : Says(x)'
        /\ \A x \in work \union wire : InTrace(x)'
    BY <2>2, SaysStill DEF StoryInv
  <2> QED BY <2>2, <2>4, <2>5, Zenon DEF StoryInv
<1> QED BY <1>2, <1>3, Zenon

LEMMA StoryRelay ==
  ASSUME StoryAssumption, StoryInv, NEW row \in rows, NEW gone \in BOOLEAN, Relay(row, gone)
  PROVE  StoryInv'
<1>1. PICK trace : trace = Start(row.svc, None)
  BY Zenon
<1>2. PICK m : m = [dead |-> FALSE, head |-> InjectContext(row.svc, None, trace, row.head),
                    story |-> [row.story EXCEPT !.relayed = TRUE]]
  BY Zenon
<1>3. Begun(trace) /\ wire' = wire \union {m} /\ rows' \subseteq rows /\ UNCHANGED work
  BY <1>1, <1>2, Zenon DEF Relay, Send
<1>4. traces' \in Nat /\ traces <= traces' /\ trace \in (1..traces') \union {None}
  BY <1>1, <1>3, TraceBegun, Zenon DEF StoryInv
<1>5. Says(row) /\ row.story \in Stories
  BY Zenon DEF StoryInv, Says
<1>6. /\ m.story \in Stories /\ m.story.root = row.story.root /\ m.story.first = row.story.first
      /\ (m.story.plain <=> row.story.plain) /\ m.story.relayed
  BY <1>2, <1>5, Zenon DEF Stories
<1>7. /\ m.head.corr = IF row.head.corr # None THEN row.head.corr ELSE None
      /\ m.head.trace \in {trace, row.head.trace}
  BY <1>2, Zenon DEF InjectContext
<1>8. (1..traces) \subseteq 1..traces'
  BY <1>4 DEF StoryInv
<1>9. Says(m)' /\ InTrace(m)'
  BY <1>4, <1>5, <1>6, <1>7, <1>8, Zenon DEF Says, InTrace, IdOf, Stories
<1>10. /\ \A x \in work \union wire \union rows : Says(x)'
       /\ \A x \in work \union wire : InTrace(x)'
  BY <1>4, SaysStill, Zenon
<1>11. \A d \in work' : /\ d.story.plain \/ d.svc \in Traced
                        /\ d.msg # None => d.msg \in wire' /\ d.msg.story.root = d.story.root
  BY <1>3, Zenon DEF StoryInv
<1> QED BY <1>3, <1>4, <1>9, <1>10, <1>11, Zenon DEF StoryInv

LEMMA StoryDeliver ==
  ASSUME StoryAssumption, StoryInv, NEW m \in wire, NEW svc \in Service, Deliver(m, svc)
  PROVE  StoryInv'
<1>1. PICK old : old = IF svc \in Traced THEN m.head.trace ELSE None
  BY Zenon
<1>2. PICK trace : trace = Start(svc, old)
  BY Zenon
<1>3. PICK c : c = [svc |-> svc, msg |-> m, head |-> [corr |-> m.head.corr, trace |-> trace],
                    story |-> [m.story EXCEPT !.plain = m.story.plain \/ svc \notin Traced]]
  BY Zenon
<1>4. Begun(trace) /\ work' = work \union {c} /\ UNCHANGED <<wire, rows>>
  <2>1. ExtractContext(svc, m.head).corr = m.head.corr /\ ExtractContext(svc, m.head).trace = old
    BY <1>1, Zenon DEF ExtractContext
  <2> QED BY <1>2, <1>3, <2>1, Zenon DEF Deliver
<1>5. Says(m) /\ InTrace(m) /\ m.story \in Stories
  BY Zenon DEF StoryInv, Says
<1>6. traces' \in Nat /\ traces <= traces' /\ trace \in (1..traces') \union {None}
  <2>1. old \in (1..traces) \union {None}
    BY <1>1, <1>5, Zenon DEF Says
  <2> QED BY <1>2, <1>4, <2>1, TraceBegun, Zenon DEF StoryInv
<1>7. /\ c.svc = svc /\ c.msg = m /\ c.head.corr = m.head.corr /\ c.head.trace = trace
      /\ c.story \in Stories /\ c.story.root = m.story.root /\ c.story.first = m.story.first
      /\ (c.story.plain <=> m.story.plain \/ svc \notin Traced) /\ (c.story.relayed <=> m.story.relayed)
  BY <1>3, <1>5, Zenon DEF Stories
<1>8. Says(c)'
  BY <1>5, <1>6, <1>7, Zenon DEF Says, IdOf, Stories
<1>9. InTrace(c)'
  <2> SUFFICES ASSUME ~c.story.plain, ~c.story.relayed, c.story.root # Background PROVE c.head.trace = c.story.first
    BY Zenon DEF InTrace
  <2>1. m.head.trace = m.story.first /\ m.story.first # None /\ svc \in Traced
    BY <1>5, <1>7, Zenon DEF InTrace, Says
  <2> QED BY <1>1, <1>2, <1>7, <2>1, Zenon DEF Start
<1>10. /\ \A x \in work \union wire \union rows : Says(x)'
       /\ \A x \in work \union wire : InTrace(x)'
  BY <1>6, SaysStill, Zenon
<1>11. \A d \in work' : /\ d.story.plain \/ d.svc \in Traced
                        /\ d.msg # None => d.msg \in wire' /\ d.msg.story.root = d.story.root
  BY <1>4, <1>7, Zenon DEF StoryInv
<1> QED BY <1>4, <1>6, <1>8, <1>9, <1>10, <1>11, Zenon DEF StoryInv

LEMMA StoryDeadLetter ==
  ASSUME StoryAssumption, StoryInv, NEW m \in wire, deadLetter(m)
  PROVE  StoryInv'
<1>1. PICK d : d = [dead |-> TRUE, head |-> m.head, story |-> m.story]
  BY Zenon
<1>2. wire' = wire \union {d} /\ UNCHANGED <<work, rows, traces>>
  BY <1>1, Zenon DEF deadLetter, Send
<1>3. Says(m)' /\ InTrace(m)' /\ d.head = m.head /\ d.story = m.story
  BY <1>1, <1>2, SaysStill DEF StoryInv
<1>4. Says(d)' /\ InTrace(d)'
  BY <1>3, Zenon DEF Says, InTrace
<1>5. /\ \A x \in work \union wire \union rows : Says(x)'
      /\ \A x \in work \union wire : InTrace(x)'
  BY <1>2, SaysStill DEF StoryInv
<1> QED BY <1>2, <1>4, <1>5, Zenon DEF StoryInv

(* headers.go:5-8, nats.go:138-140, 230-235, consumer.go:111-124, outbox.go:78-94: *)
(* over any number of publishes, deliveries, dead letters and outbox rows, with    *)
(* or without tracers on the way, a message carries the id of the request it goes  *)
(* back to; and its trace where every service on the way has a tracer and the      *)
(* relay is not among them.                                                        *)
THEOREM LineageHolds ==
  ASSUME StoryAssumption
  PROVE  Spec => []LineageKept
<1>1. Init => StoryInv
  BY DEF Init, StoryInv
<1>2. StoryInv /\ [Next]_(vars) => StoryInv'
  <2> SUFFICES ASSUME StoryInv, [Next]_(vars) PROVE StoryInv'
    BY Zenon
  <2>1. CASE UNCHANGED vars
    <3>1. UNCHANGED <<work, wire, rows, traces>>
      BY <2>1, Zenon DEF vars
    <3>2. /\ \A x \in work \union wire \union rows : Says(x)'
          /\ \A x \in work \union wire : InTrace(x)'
      BY <3>1, SaysStill DEF StoryInv
    <3> QED BY <3>1, <3>2, Zenon DEF StoryInv
  <2>2. CASE Next
    BY <2>2, StoryBegin, StoryPublish, StoryRelay, StoryDeliver, StoryDeadLetter, Zenon DEF Next
  <2> QED BY <2>1, <2>2, Zenon
<1>3. StoryInv => LineageKept
  <2> SUFFICES ASSUME StoryInv PROVE LineageKept
    BY Zenon
  <2>1. \A x \in work \union wire \union rows :
          /\ x.head.corr \in Cause \union {None} /\ x.head.trace \in (1..traces) \union {None}
          /\ x.head.corr = IF x.story.root = Background THEN None ELSE x.story.root
    BY Zenon DEF StoryInv, Says, IdOf, Stories
  <2>2. TraceKept
    BY Zenon DEF StoryInv, InTrace, TraceKept
  <2> QED BY <2>1, <2>2, Zenon DEF LineageKept, TypeOK, CorrelationKept
<1> QED BY <1>1, <1>2, <1>3, PTL DEF Spec

-----------------------------------------------------------------------------
(* The durables of subscriptions. *)

CONSTANTS Prefix, Subject, StreamOf, Groups, NoStream, NoSubject

VARIABLES filter, bound

Names == INSTANCE Durables

(* consumer.go:17-46, config.go:17-19: a subscription gets the messages of   *)
(* its own subject, or of one that a namesake under its prefix subscribes,   *)
(* and services with prefixes of their own have durables of their own.       *)
SubscriptionsOwn == Names!SubscriptionsOwn

\* Names are sequences of tokens, the separator among them.
NamesTyped(Token) ==
  /\ Prefix \in [Service -> Seq(Token)] /\ Subject \subseteq Seq(Token)
  /\ Groups \in [Service -> SUBSET (Subject \X Seq(Token))]
SeparatorIn(Token) == "_" \in Token

NamesAssumption(Token) == NamesTyped(Token) /\ SeparatorIn(Token) /\ Names!PrefixesApart

\* A name with some of its tokens replaced is a name of the same length.
LEMMA Replaced ==
  ASSUME NEW Token, NEW F, NEW u \in Token, NEW n \in Seq(Token)
  PROVE  /\ [i \in DOMAIN n |-> IF n[i] \in F THEN u ELSE n[i]] \in Seq(Token)
         /\ Len([i \in DOMAIN n |-> IF n[i] \in F THEN u ELSE n[i]]) = Len(n)
         /\ <<u>> \in Seq(Token)
<1>1. DOMAIN n = 1..Len(n) /\ Len(n) \in Nat /\ \A i \in 1..Len(n) : n[i] \in Token
  OBVIOUS
<1> DEFINE r == [i \in DOMAIN n |-> IF n[i] \in F THEN u ELSE n[i]]
<1>2. r \in [1..Len(n) -> Token]
  BY <1>1, Zenon
<1> HIDE DEF r
<1>3. r \in Seq(Token) /\ Len(r) = Len(n)
  BY <1>1, <1>2
<1> QED BY <1>3 DEF r

\* Sanitizing keeps the length of a name.
LEMMA Sanitized ==
  ASSUME NEW Token, SeparatorIn(Token)
  PROVE  /\ \A n \in Seq(Token) : Names!sanitizeDurable(n) \in Seq(Token) /\ Len(Names!sanitizeDurable(n)) = Len(n)
         /\ <<"_">> \in Seq(Token)
<1>1. ASSUME NEW n \in Seq(Token)
      PROVE  Names!sanitizeDurable(n) \in Seq(Token) /\ Len(Names!sanitizeDurable(n)) = Len(n)
  <2>1. PICK u : u = "_"
    BY Zenon
  <2>u. u \in Token
    BY <2>1, Zenon DEF SeparatorIn
  <2>2. PICK F : F = Names!Forbidden
    BY Zenon
  <2>3. Names!sanitizeDurable(n) = [i \in DOMAIN n |-> IF n[i] \in F THEN u ELSE n[i]]
    BY <2>1, <2>2, Zenon DEF Names!sanitizeDurable
  <2>4. /\ [i \in DOMAIN n |-> IF n[i] \in F THEN u ELSE n[i]] \in Seq(Token)
        /\ Len([i \in DOMAIN n |-> IF n[i] \in F THEN u ELSE n[i]]) = Len(n)
    BY <2>u, Replaced
  <2> QED BY <2>3, <2>4, Zenon
<1>2. <<"_">> \in Seq(Token)
  <2>1. \A u \in Token : <<u>> \in Seq(Token)
    OBVIOUS
  <2> QED BY <2>1, Zenon DEF SeparatorIn
<1> QED BY <1>1, <1>2, Zenon

\* What follows the same beginning is the same.
LEMMA SameRest ==
  ASSUME NEW Token, NEW p \in Seq(Token), NEW x \in Seq(Token), NEW y \in Seq(Token), p \o x = p \o y
  PROVE  x = y
<1>1. Len(p) \in Nat /\ Len(x) \in Nat /\ Len(y) \in Nat /\ Len(x) = Len(y)
  <2>1. Len(p \o x) = Len(p) + Len(x) /\ Len(p \o y) = Len(p) + Len(y)
    OBVIOUS
  <2> QED BY <2>1
<1>2. \A i \in 1..Len(x) : x[i] = y[i]
  <2> TAKE i \in 1..Len(x)
  <2>1. (p \o x)[Len(p) + i] = x[i]
    BY <1>1
  <2>2. (p \o y)[Len(p) + i] = y[i]
    BY <1>1
  <2> QED BY <2>1, <2>2, Zenon
<1> QED BY <1>1, <1>2

\* A durable tells the prefix of its service and the stream and name of its group.
LEMMA DurableTells ==
  ASSUME NEW Token, NamesAssumption(Token), NEW s \in Service, NEW t \in Service, NEW g \in Groups[s], NEW h \in Groups[t],
         Names!Durable(s, g) = Names!Durable(t, h)
  PROVE  Names!Namesake(s, g, t, h)
<1> DEFINE p == Names!sanitizeDurable(Prefix[s])
           q == Names!sanitizeDurable(Prefix[t])
           x == Names!sanitizeDurable(Names!Base(g))
           y == Names!sanitizeDurable(Names!Base(h))
<1>1. Names!Base(g) \in Seq(Token) /\ Names!Base(h) \in Seq(Token) /\ Prefix[s] \in Seq(Token) /\ Prefix[t] \in Seq(Token)
  BY DEF NamesAssumption, NamesTyped, Names!Base
<1>2. /\ StreamOf[g[1]] = StreamOf[h[1]]
      /\ Names!durableName(s, Names!Base(g)) = Names!durableName(t, Names!Base(h))
  BY Zenon DEF Names!Durable, Names!Base
<1>3. /\ p \in Seq(Token) /\ q \in Seq(Token) /\ x \in Seq(Token) /\ y \in Seq(Token)
      /\ Len(p) = Len(Prefix[s]) /\ Len(q) = Len(Prefix[t])
  BY <1>1, Sanitized, Zenon DEF NamesAssumption
<1>4. /\ Names!durableName(s, Names!Base(g)) = IF Prefix[s] = <<>> THEN x ELSE p \o <<"_">> \o x
      /\ Names!durableName(t, Names!Base(h)) = IF Prefix[t] = <<>> THEN y ELSE q \o <<"_">> \o y
  BY Zenon DEF Names!durableName
<1>5. Prefix[s] # Prefix[t] => \E i \in 1..Len(Prefix[s]) : i <= Len(Prefix[t]) /\ p[i] # q[i]
  BY Zenon DEF NamesAssumption, Names!PrefixesApart
<1>6. Prefix[s] = Prefix[t] => p = q
  BY Zenon
<1> HIDE DEF p, q, x, y
<1>u. PICK u : u = <<"_">>
  BY Zenon
<1>v. u \in Seq(Token) /\ p \o u \in Seq(Token) /\ q \o u \in Seq(Token)
  <2>1. u \in Seq(Token)
    BY <1>u, Sanitized, Zenon DEF NamesAssumption
  <2> QED BY <1>3, <2>1
<1>7. Prefix[s] = Prefix[t]
  <2> SUFFICES ASSUME Prefix[s] # Prefix[t] PROVE FALSE
    BY Zenon
  <2>1. PICK i \in 1..Len(Prefix[s]) : i <= Len(Prefix[t]) /\ p[i] # q[i]
    BY <1>5, Zenon
  <2>2. i \in 1..Len(p) /\ i \in 1..Len(q)
    BY <1>1, <1>3, <2>1
  <2>3. Prefix[s] # <<>> /\ Prefix[t] # <<>>
    BY <1>1, <1>3, <2>2
  <2>4. ((p \o u) \o x)[i] = p[i]
    BY <1>3, <1>v, <2>2
  <2>5. ((q \o u) \o y)[i] = q[i]
    BY <1>3, <1>v, <2>2
  <2> QED BY <1>u, <1>2, <1>4, <2>1, <2>3, <2>4, <2>5, Zenon
<1>8. x = y
  <2>1. CASE Prefix[s] = <<>>
    BY <1>2, <1>4, <1>7, <2>1, Zenon
  <2>2. CASE Prefix[s] # <<>>
    <3>1. (p \o u) \o x = (p \o u) \o y
      BY <1>u, <1>2, <1>4, <1>6, <1>7, <2>2, Zenon
    <3> QED BY <1>3, <1>v, <3>1, SameRest, Zenon
  <2> QED BY <2>1, <2>2, Zenon
<1> QED BY <1>2, <1>7, <1>8, Zenon DEF Names!Namesake, x, y

\* A subscription is bound to the durable of one of its service's groups.
Subscribed(b) ==
  /\ b.svc \in Service
  /\ <<b.subject, b.queue>> \in Groups[b.svc]
  /\ b.durable = Names!Durable(b.svc, <<b.subject, b.queue>>)

NamesInv == Names!TypeOK /\ Names!Served /\ \A b \in bound : Subscribed(b)

LEMMA NamesConsume ==
  ASSUME NEW Token, NamesAssumption(Token), NamesInv, NEW s \in Service, NEW g \in Groups[s], Names!consume(s, g)
  PROVE  NamesInv'
<1>1. PICK d : d = Names!Durable(s, g)
  BY Zenon
<1>2. PICK b : b = [svc |-> s, subject |-> g[1], queue |-> g[2], durable |-> d]
  BY Zenon
<1>3. filter' = [filter EXCEPT ![d] = g[1]] /\ bound' = bound \cup {b}
  BY <1>1, <1>2, Zenon DEF Names!consume
<1>4. d \in Names!AllDurables /\ g[1] \in Subject /\ g \in UNION {Groups[t] : t \in Service}
  <2>1. g \in UNION {Groups[t] : t \in Service}
    BY Zenon
  <2>2. d[1] # NoStream
    BY <1>1, Zenon DEF Names!consume, Names!Durable
  <2>3. g[1] \in Subject
    BY DEF NamesAssumption, NamesTyped
  <2> QED BY <1>1, <2>1, <2>2, <2>3 DEF Names!AllDurables
<1>5. b.svc = s /\ b.subject = g[1] /\ b.queue = g[2] /\ b.durable = d
  BY <1>2, Zenon
<1>6. Names!TypeOK'
  <2>1. filter' \in [Names!AllDurables -> Subject \cup {NoSubject}]
    BY <1>3, <1>4, Zenon DEF NamesInv, Names!TypeOK
  <2>2. b \in [svc : Service, subject : Subject, queue : {h[2] : h \in UNION {Groups[t] : t \in Service}},
               durable : Names!AllDurables]
    BY <1>2, <1>4, Zenon
  <2>3. (Names!AllDurables)' = Names!AllDurables
    BY SMTT(30) DEF Names!AllDurables, Names!Durable, Names!Base, Names!durableName, Names!sanitizeDurable,
      Names!Forbidden
  <2> QED BY <1>3, <2>1, <2>2, <2>3, Zenon DEF NamesInv, Names!TypeOK
<1>p. g = <<g[1], g[2]>>
  BY DEF NamesAssumption, NamesTyped
<1>7. \A c \in bound' : Subscribed(c)
  BY <1>1, <1>3, <1>5, <1>p, Zenon DEF NamesInv, Subscribed
<1>8. \A c \in bound' : c.durable = d => Names!Namesake(c.svc, <<c.subject, c.queue>>, s, g)
  <2> SUFFICES ASSUME NEW c \in bound', c.durable = d PROVE Names!Namesake(c.svc, <<c.subject, c.queue>>, s, g)
    BY Zenon
  <2>1. PICK h : h = <<c.subject, c.queue>>
    BY Zenon
  <2>2. c.svc \in Service /\ h \in Groups[c.svc] /\ Names!Durable(c.svc, h) = Names!Durable(s, g)
    BY <1>1, <1>7, <2>1, Zenon DEF Subscribed
  <2> QED BY <2>1, <2>2, DurableTells, Zenon
<1>n. \A c, t, h : Names!Namesake(c.svc, <<c.subject, c.queue>>, t, h)' <=> Names!Namesake(c.svc, <<c.subject, c.queue>>, t, h)
  BY ZenonT(40) DEF Names!Namesake, Names!Base, Names!sanitizeDurable, Names!Forbidden
<1>9. Names!Served'
  <2> SUFFICES ASSUME NEW c \in bound'
               PROVE  \E t \in Service : \E h \in Groups[t] :
                        Names!Namesake(c.svc, <<c.subject, c.queue>>, t, h) /\ filter'[c.durable] = h[1]
    BY <1>n, Zenon DEF Names!Served
  <2>1. CASE c.durable = d
    <3>1. filter'[c.durable] = g[1]
      BY <1>3, <1>4, <2>1, Zenon DEF NamesInv, Names!TypeOK
    <3> QED BY <1>8, <2>1, <3>1, Zenon
  <2>2. CASE c.durable # d
    <3>1. c \in bound /\ filter'[c.durable] = filter[c.durable]
      BY <1>3, <1>5, <2>2, Zenon DEF NamesInv, Names!TypeOK
    <3> QED BY <3>1, Zenon DEF NamesInv, Names!Served
  <2> QED BY <2>1, <2>2, Zenon
<1>10. \A c : Subscribed(c)' <=> Subscribed(c)
  BY Zenon DEF Subscribed, Names!Durable, Names!durableName, Names!sanitizeDurable, Names!Forbidden
<1> QED BY <1>6, <1>7, <1>9, <1>10, Zenon DEF NamesInv

(* consumer.go:17-46, config.go:17-19: where different prefixes stay apart once *)
(* sanitized, and however queues are named, services with different prefixes    *)
(* never share a durable, and whoever subscribes before or after it, a          *)
(* subscription gets the messages of its own subject or of a namesake's: only   *)
(* a group of its own prefix, stream and sanitized name can take its durable.   *)
THEOREM SubscriptionsHold ==
  ASSUME NEW Token, NamesAssumption(Token)
  PROVE  Names!Spec => []SubscriptionsOwn
<1>1. Names!Init => NamesInv
  BY Zenon DEF Names!Init, NamesInv, Names!TypeOK, Names!Served
<1>2. NamesInv /\ [Names!Next]_(Names!vars) => NamesInv'
  <2> SUFFICES ASSUME NamesInv, [Names!Next]_(Names!vars) PROVE NamesInv'
    BY Zenon
  <2>1. ASSUME filter' = filter, bound' \subseteq bound PROVE NamesInv'
    <3>0. (Names!AllDurables)' = Names!AllDurables
      BY SMTT(30) DEF Names!AllDurables, Names!Durable, Names!Base, Names!durableName, Names!sanitizeDurable,
      Names!Forbidden
    <3>n. \A c, t, h : Names!Namesake(c.svc, <<c.subject, c.queue>>, t, h)'
                        <=> Names!Namesake(c.svc, <<c.subject, c.queue>>, t, h)
      BY ZenonT(40) DEF Names!Namesake, Names!Base, Names!sanitizeDurable, Names!Forbidden
    <3>1. Names!TypeOK' /\ Names!Served'
      BY <2>1, <3>0, <3>n, Zenon DEF NamesInv, Names!TypeOK, Names!Served
    <3>2. \A c : Subscribed(c)' <=> Subscribed(c)
      BY Zenon DEF Subscribed, Names!Durable, Names!Base, Names!durableName, Names!sanitizeDurable, Names!Forbidden
    <3> QED BY <2>1, <3>1, <3>2, Zenon DEF NamesInv
  <2>2. CASE \E b \in bound : Names!Unsubscribe(b)
    BY <2>1, <2>2, Zenon DEF Names!Unsubscribe
  <2>3. CASE UNCHANGED Names!vars
    BY <2>1, <2>3, Zenon DEF Names!vars
  <2> QED BY <2>2, <2>3, NamesConsume, Zenon DEF Names!Next
<1>3. NamesInv => Names!SubscriptionsOwn
  <2> SUFFICES ASSUME NamesInv PROVE Names!SubscriptionsOwn
    BY Zenon
  <2>1. ASSUME NEW b \in bound, NEW c \in bound, b.durable = c.durable PROVE Prefix[b.svc] = Prefix[c.svc]
    <3>1. PICK g \in Groups[b.svc] : b.durable = Names!Durable(b.svc, g) /\ b.svc \in Service
      BY Zenon DEF NamesInv, Subscribed
    <3>2. PICK h \in Groups[c.svc] : c.durable = Names!Durable(c.svc, h) /\ c.svc \in Service
      BY Zenon DEF NamesInv, Subscribed
    <3>3. \A s, t \in Service : \A k \in Groups[s], l \in Groups[t] :
            Names!Durable(s, k) = Names!Durable(t, l) => Prefix[s] = Prefix[t]
      BY DurableTells, ZenonT(40) DEF Names!Namesake
    <3> QED BY <2>1, <3>1, <3>2, <3>3, Zenon
  <2> QED BY <2>1, Zenon DEF NamesInv, Names!SubscriptionsOwn, Names!OwnCopies
<1> QED BY <1>1, <1>2, <1>3, PTL DEF Names!Spec, SubscriptionsOwn

-----------------------------------------------------------------------------
(* The JetStream driver. *)

CONSTANTS
  Msg, Replica, MaxDeliver, MaxAckPending, DeadLetterSet, MayStop, MayCrash, Slow, MayLose

VARIABLES pub, srv, delivered, sub, buf, cur, pc, handled, hopeless, dlq

Jet == INSTANCE JetStream

(* consumer.go:26-28, 64-106, config.go:27-28: a message is settled only for *)
(* cause; while handlers keep within AckWait it is in the hands of one       *)
(* replica; without faults one that exhausts MaxDeliver is copied to the     *)
(* dead-letter subject.                                                      *)
DeliveriesAccounted == Jet!DeliveriesAccounted

\* The deliveries a replica holds: 0 is the one in the callback, the others wait.
Places(r) == {i \in 0..Len(buf[r]) : i > 0 \/ cur[r] # None}
At(r, i) == IF i = 0 THEN cur[r] ELSE buf[r][i]

\* A callback is busy with a delivery, and what it is about to say of it is true.
Callbacks ==
  \A r \in Replica :
    /\ cur[r] # None <=> pc[r] # "idle"
    /\ pc[r] = "ack" => cur[r].m \in handled
    /\ pc[r] \in {"deadLetter", "term"} => cur[r].m \in hopeless
    /\ pc[r] = "nak" => ~Jet!Exhausts(cur[r])

\* The server counts deliveries from the publication up to MaxDeliver.
Counts ==
  \A m \in Msg :
    /\ pub[m] = "none" => srv[m] = "absent" /\ delivered[m] = 0
    /\ MaxDeliver > 0 => delivered[m] <= MaxDeliver /\ (srv[m] = "ready" => delivered[m] < MaxDeliver)

\* A delivery is one the server has counted, and, while handlers keep within
\* AckWait, the only one of its message and the last.
HeldOnce ==
  /\ \A r \in Replica : \A i \in Places(r) :
       /\ At(r, i) \in Jet!Delivery
       /\ At(r, i).n <= delivered[At(r, i).m]
       /\ ~Slow => srv[At(r, i).m] = "pending" /\ At(r, i).n = delivered[At(r, i).m]
  /\ ~Slow => \A r, s \in Replica : \A i \in Places(r), j \in Places(s) :
       At(r, i).m = At(s, j).m => r = s /\ i = j

\* Without faults a pending message is held by somebody, and none is given up
\* without a copy.
NothingDropped ==
  Jet!Faultless =>
    /\ \A r \in Replica : sub[r] \in {"down", "up"}
    /\ \A m \in Msg : srv[m] = "pending" => \E r \in Replica : \E i \in Places(r) : At(r, i).m = m
    /\ \A m \in Msg : srv[m] # "exhausted" /\ (srv[m] = "termed" /\ DeadLetterSet => m \in dlq)
    /\ \A r \in Replica : pc[r] = "term" /\ DeadLetterSet => cur[r].m \in dlq

JetInv == Jet!TypeOK /\ Jet!SettledForCause /\ Callbacks /\ Counts /\ HeldOnce /\ NothingDropped

LEMMA DeliveryFields ==
  \A d \in Jet!Delivery : d.m \in Msg /\ d.n \in Nat
  BY Zenon DEF Jet!Delivery

\* What a replica holds is a delivery.
LEMMA PlacesTyped ==
  ASSUME Jet!TypeOK, NEW r \in Replica
  PROVE  /\ Len(buf[r]) \in Nat /\ buf[r] \in Seq(Jet!Delivery)
         /\ 0 \in Places(r) <=> cur[r] # None
         /\ \A i \in 1..Len(buf[r]) : i \in Places(r) /\ At(r, i) = buf[r][i]
         /\ At(r, 0) = cur[r]
         /\ \A i \in Places(r) : i \in Nat /\ At(r, i) \in Jet!Delivery /\ At(r, i).m \in Msg
<1>1. buf[r] \in Seq(Jet!Delivery) /\ cur[r] \in Jet!Delivery \cup {None}
  BY Zenon DEF Jet!TypeOK
<1> QED BY <1>1, DeliveryFields DEF Places, At

\* A step after which every delivery held was held before, at its place or, at
\* replicas where the callback was free, one place further.
LEMMA HeldStill ==
  ASSUME JetInv, Jet!TypeOK', NEW d \in [Replica -> {0, 1}],
         \A r \in Replica : \A i \in Places(r)' : i + d[r] \in Places(r) /\ At(r, i)' = At(r, i + d[r]),
         delivered' = delivered,
         ~Slow => \A r \in Replica : \A i \in Places(r)' : srv'[At(r, i)'.m] = srv[At(r, i)'.m]
  PROVE  HeldOnce'
<1>1. \A r \in Replica : \A i \in Places(r)' : i \in Int
  BY DEF Places
<1>2. ASSUME NEW r \in Replica, NEW i \in Places(r)'
      PROVE  /\ At(r, i)' \in Jet!Delivery
             /\ At(r, i)'.n <= delivered'[At(r, i)'.m]
             /\ ~Slow => srv'[At(r, i)'.m] = "pending" /\ At(r, i)'.n = delivered'[At(r, i)'.m]
  BY <1>2 DEF JetInv, HeldOnce
<1>3. ASSUME ~Slow, NEW r \in Replica, NEW s \in Replica, NEW i \in Places(r)', NEW j \in Places(s)',
             At(r, i)'.m = At(s, j)'.m
      PROVE  r = s /\ i = j
  <2>1. r = s /\ i + d[r] = j + d[s]
    BY <1>3 DEF JetInv, HeldOnce
  <2> QED BY <2>1, <1>1
<1>4. (Jet!Delivery)' = Jet!Delivery
  BY Zenon DEF Jet!Delivery
<1> QED BY <1>2, <1>3, <1>4, Zenon DEF HeldOnce

\* Steps that touch neither the server nor what is held.
LEMMA JetQuiet ==
  ASSUME JetInv, UNCHANGED <<srv, delivered, buf, cur>>
  PROVE  HeldOnce'
  BY DEF JetInv, HeldOnce, Places, At, Jet!Delivery

LEMMA JetPublish ==
  ASSUME Jet!JetAssumption, JetInv, NEW m \in Msg, Jet!Publish(m)
  PROVE  JetInv'
<1>1. /\ pub[m] = "none" /\ srv[m] = "absent" /\ delivered[m] = 0
      /\ pub' \in {[pub EXCEPT ![m] = "ok"], [pub EXCEPT ![m] = "err"]}
      /\ srv' = srv \/ srv' = [srv EXCEPT ![m] = "ready"]
      /\ pub'[m] = "ok" => srv' = [srv EXCEPT ![m] = "ready"]
      /\ UNCHANGED <<delivered, sub, buf, cur, pc, handled, hopeless, dlq>>
  BY Zenon DEF Jet!Publish, Jet!replica, JetInv, Counts, Jet!TypeOK
<1>2. Jet!TypeOK'
  BY <1>1, Zenon DEF JetInv, Jet!TypeOK
<1>3. Jet!SettledForCause' /\ Callbacks' /\ Counts'
  BY <1>1 DEF JetInv, Jet!TypeOK, Jet!SettledForCause, Callbacks, Counts, Jet!Exhausts, Jet!JetAssumption
<1>4. \A x \in Msg : srv[x] = "pending" <=> srv'[x] = "pending"
  BY <1>1, Zenon DEF JetInv, Jet!TypeOK
<1>5. HeldOnce'
  <2>1. \A r \in Replica : Places(r)' = Places(r) /\ \A i \in Places(r) : At(r, i)' = At(r, i)
    BY <1>1, Zenon DEF Places, At
  <2>2. \A r \in Replica : \A i \in Places(r) : At(r, i).m \in Msg
    BY PlacesTyped, Zenon DEF JetInv
  <2> QED BY <1>1, <1>4, <2>1, <2>2 DEF JetInv, HeldOnce, Jet!Delivery
<1>6. NothingDropped'
  BY <1>1, <1>4 DEF JetInv, Jet!TypeOK, NothingDropped, Jet!Faultless, Places, At
<1> QED BY <1>2, <1>3, <1>5, <1>6, Zenon DEF JetInv

LEMMA JetAckWait ==
  ASSUME Jet!JetAssumption, JetInv, NEW m \in Msg, Jet!AckWaitExpires(m)
  PROVE  JetInv'
<1>1. /\ srv[m] = "pending" /\ (Slow \/ ~Jet!Held(m))
      /\ srv' = [srv EXCEPT ![m] = IF Jet!Last(m) THEN "exhausted" ELSE "ready"]
      /\ UNCHANGED <<pub, delivered, sub, buf, cur, pc, handled, hopeless, dlq>>
  BY Zenon DEF Jet!AckWaitExpires, Jet!Again, Jet!replica
<1>2. Jet!TypeOK'
  BY <1>1, Zenon DEF JetInv, Jet!TypeOK, Jet!Settled
<1>3. Jet!SettledForCause' /\ Callbacks'
  BY <1>1, Zenon DEF JetInv, Jet!TypeOK, Jet!SettledForCause, Callbacks, Jet!Exhausts
<1>4. Counts'
  BY <1>1 DEF JetInv, Jet!TypeOK, Counts, Jet!Last, Jet!JetAssumption
<1>5. ~Slow => \A r \in Replica : \A i \in Places(r) : At(r, i).m # m
  <2> SUFFICES ASSUME ~Slow, NEW r \in Replica, NEW i \in Places(r), At(r, i).m = m PROVE FALSE
    BY Zenon
  <2>1. Jet!Held(m)
    BY PlacesTyped DEF Jet!Held, JetInv, Places, At
  <2> QED BY <2>1, <1>1, Zenon
<1>6. HeldOnce'
  <2>1. \A r \in Replica : Places(r)' = Places(r) /\ \A i \in Places(r) : At(r, i)' = At(r, i)
    BY <1>1, Zenon DEF Places, At
  <2>2. \A r \in Replica : \A i \in Places(r) : At(r, i).m \in Msg
    BY PlacesTyped, Zenon DEF JetInv
  <2> QED BY <1>1, <1>5, <2>1, <2>2 DEF JetInv, Jet!TypeOK, HeldOnce, Jet!Delivery
<1>7. NothingDropped'
  BY <1>1, <1>5, Zenon DEF JetInv, NothingDropped, Jet!Faultless
<1> QED BY <1>2, <1>3, <1>4, <1>6, <1>7, Zenon DEF JetInv

LEMMA JetDeliver ==
  ASSUME Jet!JetAssumption, JetInv, NEW r \in Replica, NEW m \in Msg, Jet!Deliver(r, m)
  PROVE  JetInv'
<1> DEFINE e == [m |-> m, n |-> delivered[m] + 1]
<1>1. /\ sub[r] = "up" /\ srv[m] = "ready"
      /\ srv' = [srv EXCEPT ![m] = "pending"]
      /\ delivered' = [delivered EXCEPT ![m] = delivered[m] + 1]
      /\ buf' = [buf EXCEPT ![r] = Append(buf[r], e)]
      /\ UNCHANGED <<pub, sub, cur, pc, handled, hopeless, dlq>>
  BY Zenon DEF Jet!Deliver
<1>2. e \in Jet!Delivery /\ e.m = m /\ e.n = delivered[m] + 1 /\ delivered[m] \in Nat
  BY DEF Jet!Delivery, JetInv, Jet!TypeOK
<1> HIDE DEF e
<1>0. PICK last : last = Len(buf[r]) + 1
  BY Zenon
<1>3. Jet!TypeOK'
  <2>1. buf' \in [Replica -> Seq(Jet!Delivery)]
    BY <1>1, <1>2 DEF JetInv, Jet!TypeOK
  <2> QED BY <1>1, <1>2, <2>1, Zenon DEF JetInv, Jet!TypeOK, Jet!Delivery
<1>4. Jet!SettledForCause' /\ Callbacks'
  BY <1>1, Zenon DEF JetInv, Jet!TypeOK, Jet!SettledForCause, Callbacks, Jet!Exhausts
<1>5. Counts'
  BY <1>1, <1>2 DEF JetInv, Jet!TypeOK, Counts, Jet!JetAssumption
<1>6. /\ \A s \in Replica : \A i \in Places(s)' :
           \/ s = r /\ i = last /\ At(s, i)' = e
           \/ i \in Places(s) /\ At(s, i)' = At(s, i)
      /\ \A s \in Replica : \A i \in Places(s) : i \in Places(s)' /\ At(s, i)' = At(s, i)
      /\ last \in Places(r)' /\ At(r, last)' = e
  <2>1. buf[r] \in Seq(Jet!Delivery) /\ Len(buf[r]) \in Nat /\ last \in Nat /\ last = Len(buf[r]) + 1
    BY <1>0, PlacesTyped DEF JetInv
  <2>2. /\ Len(buf'[r]) = last /\ buf'[r][last] = e
        /\ \A i \in 1..Len(buf[r]) : buf'[r][i] = buf[r][i]
    BY <1>1, <2>1 DEF JetInv, Jet!TypeOK
  <2>3. \A s \in Replica : s # r => buf'[s] = buf[s]
    BY <1>1, Zenon DEF JetInv, Jet!TypeOK
  <2>4. \A s \in Replica : s # r => Places(s)' = Places(s) /\ \A i \in Places(s) : At(s, i)' = At(s, i)
    BY <1>1, <2>3 DEF Places, At
  <2>5. Places(r)' = Places(r) \cup {last} /\ last # 0
    BY <1>1, <2>1, <2>2 DEF Places
  <2>6. At(r, last)' = e
    BY <2>2, <2>5, Zenon DEF At
  <2>7. \A i \in Places(r) : At(r, i)' = At(r, i)
    BY <1>1, <2>1, <2>2 DEF Places, At
  <2> QED BY <2>4, <2>5, <2>6, <2>7, Zenon
<1>7. \A s \in Replica : \A i \in Places(s) : At(s, i).m \in Msg /\ At(s, i) \in Jet!Delivery /\ At(s, i).n \in Nat
  BY PlacesTyped, DeliveryFields, Zenon DEF JetInv
<1>8. ~Slow => \A s \in Replica : \A i \in Places(s) : At(s, i).m # m
  BY <1>1, Zenon DEF JetInv, HeldOnce
<1>9. HeldOnce'
  <2>1. ASSUME NEW s \in Replica, NEW i \in Places(s)'
        PROVE  /\ At(s, i)' \in Jet!Delivery
               /\ At(s, i)'.n <= delivered'[At(s, i)'.m]
               /\ ~Slow => srv'[At(s, i)'.m] = "pending" /\ At(s, i)'.n = delivered'[At(s, i)'.m]
    <3>1. CASE At(s, i)' = e
      BY <1>1, <1>2, <3>1 DEF JetInv, Jet!TypeOK
    <3>2. CASE i \in Places(s) /\ At(s, i)' = At(s, i)
      <4>1. /\ At(s, i).n <= delivered[At(s, i).m]
            /\ ~Slow => srv[At(s, i).m] = "pending" /\ At(s, i).n = delivered[At(s, i).m]
        BY <3>2, Zenon DEF JetInv, HeldOnce
      <4>2. delivered[At(s, i).m] \in Nat /\ delivered'[At(s, i).m] \in Nat /\ delivered'[At(s, i).m] >= delivered[At(s, i).m]
        BY <1>1, <1>2, <1>7, <3>2 DEF JetInv, Jet!TypeOK
      <4>3. ~Slow => srv'[At(s, i).m] = srv[At(s, i).m] /\ delivered'[At(s, i).m] = delivered[At(s, i).m]
        BY <1>1, <1>7, <1>8, <3>2, Zenon DEF JetInv, Jet!TypeOK
      <4>4. At(s, i).n <= delivered'[At(s, i).m]
        BY <3>2, <1>7, <4>1, <4>2
      <4>5. At(s, i) \in Jet!Delivery
        BY <3>2, <1>7, Zenon
      <4> QED BY <3>2, <4>1, <4>3, <4>4, <4>5, Zenon
    <3> QED BY <1>6, <3>1, <3>2, Zenon
  <2>2. ASSUME ~Slow, NEW p \in Replica, NEW s \in Replica, NEW i \in Places(p)', NEW j \in Places(s)',
               At(p, i)'.m = At(s, j)'.m
        PROVE  p = s /\ i = j
    BY <1>2, <1>6, <1>8, <2>2 DEF JetInv, HeldOnce
  <2> QED BY <2>1, <2>2, Zenon DEF HeldOnce, Jet!Delivery
<1>10. NothingDropped'
  <2> SUFFICES ASSUME Jet!Faultless PROVE NothingDropped'
    BY Zenon DEF NothingDropped, Jet!Faultless
  <2>1. \A x \in Msg : srv'[x] = "pending" => \E s \in Replica : \E i \in Places(s)' : At(s, i)'.m = x
    <3> SUFFICES ASSUME NEW x \in Msg, srv'[x] = "pending"
                 PROVE  \E s \in Replica : \E i \in Places(s)' : At(s, i)'.m = x
      BY Zenon
    <3>1. CASE x = m
      BY <1>2, <1>6, <3>1, Zenon
    <3>2. CASE x # m
      <4>1. srv[x] = "pending"
        BY <1>1, <3>2, Zenon DEF JetInv, Jet!TypeOK
      <4>2. PICK s \in Replica : \E i \in Places(s) : At(s, i).m = x
        BY <4>1, Zenon DEF JetInv, NothingDropped
      <4> QED BY <4>2, <1>6, Zenon
    <3> QED BY <3>1, <3>2, Zenon
  <2>2. \A x \in Msg : srv'[x] # "exhausted" /\ (srv'[x] = "termed" /\ DeadLetterSet => x \in dlq')
    BY <1>1 DEF JetInv, Jet!TypeOK, NothingDropped
  <2>3. \A s \in Replica : sub'[s] \in {"down", "up"} /\ (pc'[s] = "term" /\ DeadLetterSet => cur'[s].m \in dlq')
    BY <1>1, Zenon DEF JetInv, NothingDropped
  <2> QED BY <2>1, <2>2, <2>3, Zenon DEF NothingDropped
<1> QED BY <1>3, <1>4, <1>5, <1>9, <1>10, Zenon DEF JetInv

\* The driver's steps that neither take nor give up a delivery.
LEMMA JetKeeps ==
  ASSUME Jet!JetAssumption, JetInv, NEW r \in Replica,
         Jet!Start(r) \/ Jet!HandlerOk(r) \/ Jet!nakOrTerminate(r) \/ Jet!deadLetter(r) \/ Jet!Disconnect(r)
  PROVE  JetInv'
<1>1. /\ UNCHANGED <<pub, srv, delivered, buf, cur>>
      /\ handled \subseteq handled' /\ hopeless \subseteq hopeless' /\ dlq \subseteq dlq'
      /\ \A s \in Replica \ {r} : pc'[s] = pc[s] /\ sub'[s] = sub[s]
  BY Zenon DEF JetInv, Jet!TypeOK, Jet!server, Jet!Start, Jet!HandlerOk, Jet!nakOrTerminate, Jet!deadLetter, Jet!Disconnect
<1>2. pc[r] # "idle" => cur[r] \in Jet!Delivery /\ cur[r].m \in Msg /\ cur[r].n \in Nat /\ delivered[cur[r].m] \in Nat
  BY DeliveryFields, Zenon DEF JetInv, Jet!TypeOK, Callbacks
<1>3. pc[r] # "idle" /\ MaxDeliver > 0 => cur[r].n <= MaxDeliver
  <2> SUFFICES ASSUME pc[r] # "idle", MaxDeliver > 0 PROVE cur[r].n <= MaxDeliver
    BY Zenon
  <2>1. 0 \in Places(r) /\ At(r, 0) = cur[r]
    BY PlacesTyped, Zenon DEF JetInv, Callbacks
  <2>2. cur[r].n <= delivered[cur[r].m] /\ delivered[cur[r].m] <= MaxDeliver
    BY <1>2, <2>1, Zenon DEF JetInv, HeldOnce, Counts
  <2> QED BY <1>2, <2>2 DEF Jet!JetAssumption
<1>4. Jet!TypeOK'
  BY <1>2, Zenon DEF JetInv, Jet!TypeOK, Jet!server, Jet!Start, Jet!HandlerOk, Jet!nakOrTerminate, Jet!deadLetter, Jet!Disconnect
<1>5. Callbacks'
  <2>1. \A s \in Replica \ {r} :
          /\ cur'[s] # None <=> pc'[s] # "idle"
          /\ pc'[s] = "ack" => cur'[s].m \in handled'
          /\ pc'[s] \in {"deadLetter", "term"} => cur'[s].m \in hopeless'
          /\ pc'[s] = "nak" => ~Jet!Exhausts(cur'[s])
    BY <1>1, Zenon DEF JetInv, Callbacks
  <2>2. /\ cur'[r] # None <=> pc'[r] # "idle"
        /\ pc'[r] = "ack" => cur'[r].m \in handled'
    BY <1>1, Zenon DEF JetInv, Jet!TypeOK, Callbacks, Jet!Start, Jet!HandlerOk, Jet!nakOrTerminate, Jet!deadLetter, Jet!Disconnect
  <2>3. pc'[r] = "nak" => ~Jet!Exhausts(cur'[r])
    BY <1>1, Zenon DEF JetInv, Jet!TypeOK, Callbacks, Jet!Start, Jet!HandlerOk, Jet!nakOrTerminate, Jet!deadLetter, Jet!Disconnect
  <2>4. pc'[r] \in {"deadLetter", "term"} => cur'[r].m \in hopeless'
    <3>1. CASE Jet!nakOrTerminate(r)
      BY <1>1, <1>2, <1>3, <3>1 DEF JetInv, Jet!TypeOK, Jet!nakOrTerminate, Jet!Exhausts, Jet!JetAssumption
    <3>2. CASE ~Jet!nakOrTerminate(r)
      BY <1>1, <3>2, Zenon DEF JetInv, Jet!TypeOK, Callbacks, Jet!Start, Jet!HandlerOk, Jet!deadLetter, Jet!Disconnect
    <3> QED BY <3>1, <3>2, Zenon
  <2>5. \A s \in Replica : Jet!Exhausts(cur[s])' <=> Jet!Exhausts(cur'[s])
    BY Zenon DEF Jet!Exhausts
  <2> QED BY <2>1, <2>2, <2>3, <2>4, <2>5, Zenon DEF Callbacks
<1>6. Jet!SettledForCause'
  <2>1. \A m \in dlq' : m \in dlq \/ m \in hopeless
    BY Zenon DEF JetInv, Callbacks, Jet!Start, Jet!HandlerOk, Jet!nakOrTerminate, Jet!deadLetter, Jet!Disconnect
  <2> QED BY <1>1, <2>1, Zenon DEF JetInv, Jet!SettledForCause
<1>7. Counts'
  BY <1>1, Zenon DEF JetInv, Counts
<1>8. HeldOnce'
  BY <1>1, JetQuiet, Zenon
<1>9. NothingDropped'
  <2> SUFFICES ASSUME Jet!Faultless PROVE NothingDropped'
    BY Zenon DEF NothingDropped, Jet!Faultless
  <2>1. \A s \in Replica : sub'[s] \in {"down", "up"}
    BY <1>1, SMTT(30) DEF JetInv, NothingDropped, Jet!TypeOK, Jet!Start, Jet!HandlerOk, Jet!nakOrTerminate, Jet!deadLetter, Jet!Disconnect
  <2>2. \A m \in Msg : srv'[m] = "pending" => \E s \in Replica : \E i \in Places(s)' : At(s, i)'.m = m
    BY <1>1 DEF JetInv, NothingDropped, Places, At
  <2>3. \A m \in Msg : srv'[m] # "exhausted" /\ (srv'[m] = "termed" /\ DeadLetterSet => m \in dlq')
    BY <1>1, ZenonT(40) DEF JetInv, NothingDropped
  <2>4. \A s \in Replica : pc'[s] = "term" /\ DeadLetterSet => cur'[s].m \in dlq'
    BY <1>1 DEF JetInv, NothingDropped, Jet!Faultless, Jet!TypeOK,
                Jet!Start, Jet!HandlerOk, Jet!nakOrTerminate, Jet!deadLetter, Jet!Disconnect
  <2> QED BY <2>1, <2>2, <2>3, <2>4, Zenon DEF NothingDropped
<1> QED BY <1>4, <1>5, <1>6, <1>7, <1>8, <1>9, Zenon DEF JetInv

LEMMA JetHandle ==
  ASSUME Jet!JetAssumption, JetInv, NEW r \in Replica, Jet!handleMessage(r)
  PROVE  JetInv'
<1>1. /\ pc[r] = "idle" /\ buf[r] # <<>>
      /\ cur' = [cur EXCEPT ![r] = Head(buf[r])]
      /\ buf' = [buf EXCEPT ![r] = Tail(buf[r])]
      /\ pc' = [pc EXCEPT ![r] = "handling"]
      /\ UNCHANGED <<pub, srv, delivered, sub, handled, hopeless, dlq>>
  BY Zenon DEF Jet!handleMessage, Jet!server
<1>2. buf[r] \in Seq(Jet!Delivery) /\ Head(buf[r]) \in Jet!Delivery /\ Tail(buf[r]) \in Seq(Jet!Delivery)
  BY <1>1 DEF JetInv, Jet!TypeOK
<1>3. Jet!TypeOK'
  BY <1>1, <1>2, Zenon DEF JetInv, Jet!TypeOK, Jet!Delivery
<1>4. Jet!SettledForCause' /\ Counts'
  BY <1>1, Zenon DEF JetInv, Jet!SettledForCause, Counts
<1>5. Callbacks'
  BY <1>1, <1>2, Zenon DEF JetInv, Jet!TypeOK, Callbacks, Jet!Exhausts, Jet!JetAssumption
<1> DEFINE d == [s \in Replica |-> IF s = r THEN 1 ELSE 0]
<1>6. \A s \in Replica : \A i \in Places(s)' : i + d[s] \in Places(s) /\ At(s, i)' = At(s, i + d[s])
  <2>1. /\ Len(buf'[r]) = Len(buf[r]) - 1 /\ Len(buf[r]) \in Nat \ {0}
        /\ cur'[r] = buf[r][1]
        /\ \A i \in 1..Len(buf'[r]) : buf'[r][i] = buf[r][i + 1]
    BY <1>1, <1>2 DEF JetInv, Jet!TypeOK
  <2>2. \A i \in Places(r)' : i + 1 \in Places(r) /\ At(r, i)' = At(r, i + 1)
    BY <2>1 DEF Places, At
  <2>3. \A s \in Replica \ {r} : Len(buf[s]) \in Nat /\ buf'[s] = buf[s] /\ cur'[s] = cur[s]
    BY <1>1 DEF JetInv, Jet!TypeOK
  <2>4. \A s \in Replica \ {r} : \A i \in Places(s)' : i + 0 \in Places(s) /\ At(s, i)' = At(s, i + 0)
    BY <2>3 DEF Places, At
  <2> QED BY <2>2, <2>4, Zenon
<1>7. \A s \in Replica : \A i \in Places(s) :
        \E j \in Places(s)' : At(s, j)' = At(s, i)
  <2>1. /\ Len(buf'[r]) = Len(buf[r]) - 1 /\ Len(buf[r]) \in Nat \ {0}
        /\ cur'[r] = buf[r][1] /\ cur'[r] # None /\ cur[r] = None
        /\ \A i \in 1..Len(buf'[r]) : buf'[r][i] = buf[r][i + 1]
    BY <1>1, <1>2 DEF JetInv, Jet!TypeOK, Callbacks, Jet!JetAssumption
  <2>2. ASSUME NEW i \in Places(r) PROVE \E j \in Places(r)' : At(r, j)' = At(r, i)
    <3>1. i - 1 \in Places(r)' /\ At(r, i - 1)' = At(r, i)
      BY <2>1 DEF Places, At
    <3> QED BY <3>1, Zenon
  <2>3. \A s \in Replica \ {r} : Places(s)' = Places(s) /\ \A i \in Places(s) : At(s, i)' = At(s, i)
    BY <1>1, Zenon DEF JetInv, Jet!TypeOK, Places, At
  <2> QED BY <2>2, <2>3, Zenon
<1>8. HeldOnce'
  <2>1. d \in [Replica -> {0, 1}]
    BY Zenon
  <2> HIDE DEF d
  <2> QED BY <1>1, <1>3, <1>6, <2>1, HeldStill, Zenon
<1>9. NothingDropped'
  <2> SUFFICES ASSUME Jet!Faultless PROVE NothingDropped'
    BY Zenon DEF NothingDropped, Jet!Faultless
  <2>1. \A m \in Msg : srv'[m] = "pending" => \E s \in Replica : \E i \in Places(s)' : At(s, i)'.m = m
    BY <1>1, <1>7 DEF JetInv, NothingDropped
  <2>2. \A s \in Replica : pc'[s] = "term" /\ DeadLetterSet => cur'[s].m \in dlq'
    BY <1>1 DEF JetInv, NothingDropped, Jet!TypeOK
  <2> QED BY <1>1, <2>1, <2>2, Zenon DEF JetInv, NothingDropped
<1> QED BY <1>3, <1>4, <1>5, <1>8, <1>9, Zenon DEF JetInv

\* A callback that returns: the reply says of its delivery what is true.
LEMMA JetRelease ==
  ASSUME Jet!JetAssumption, JetInv, NEW r \in Replica, Jet!Ack(r) \/ Jet!Nak(r) \/ Jet!Term(r)
  PROVE  JetInv'
<1>1. PICK m : m = cur[r].m
  BY Zenon
<1>2. /\ pc[r] \in {"ack", "nak", "term"}
      /\ cur' = [cur EXCEPT ![r] = None]
      /\ pc' = [pc EXCEPT ![r] = "idle"]
      /\ UNCHANGED <<pub, delivered, sub, buf, handled, hopeless, dlq>>
  BY Zenon DEF Jet!Ack, Jet!Nak, Jet!Term, Jet!Finished
<1>3. /\ cur[r] # None /\ cur[r] \in Jet!Delivery /\ m \in Msg /\ cur[r].n \in Nat
      /\ delivered[m] \in Nat /\ 0 \in Places(r) /\ At(r, 0) = cur[r]
  BY <1>1, <1>2, DeliveryFields, PlacesTyped, Zenon DEF JetInv, Jet!TypeOK, Callbacks
<1>4. /\ srv' \in [Msg -> {"absent", "ready", "pending"} \cup Jet!Settled]
      /\ \A x \in Msg \ {m} : srv'[x] = srv[x]
      /\ srv'[m] = "absent" => srv[m] = "absent"
      /\ srv'[m] = "acked" => srv[m] = "acked" \/ pc[r] = "ack"
      /\ srv'[m] = "termed" => srv[m] = "termed" \/ pc[r] = "term"
      /\ srv'[m] = "ready" => srv[m] = "ready" \/ ~Jet!Last(m)
      /\ srv'[m] = "exhausted" => srv[m] = "exhausted" \/ (pc[r] = "nak" /\ Jet!Last(m))
  <2>1. \/ srv' = srv
        \/ pc[r] = "ack" /\ srv[m] \in {"pending", "ready"} /\ srv' = [srv EXCEPT ![m] = "acked"]
        \/ pc[r] = "term" /\ srv[m] \in {"pending", "ready"} /\ srv' = [srv EXCEPT ![m] = "termed"]
        \/ /\ pc[r] = "nak" /\ srv[m] = "pending"
           /\ \/ Jet!Last(m) /\ srv' = [srv EXCEPT ![m] = "exhausted"]
              \/ ~Jet!Last(m) /\ srv' = [srv EXCEPT ![m] = "ready"]
    <3>0. srv \in [Msg -> {"absent", "ready", "pending"} \cup Jet!Settled]
      BY Zenon DEF JetInv, Jet!TypeOK
    <3>1. CASE Jet!Ack(r)
      BY <1>1, <1>3, <3>0, <3>1, Zenon DEF Jet!Ack, Jet!Sent, Jet!Settle
    <3>2. CASE Jet!Nak(r)
      BY <1>1, <1>3, <3>0, <3>2, Zenon DEF Jet!Nak, Jet!Sent, Jet!Again
    <3>3. CASE Jet!Term(r)
      BY <1>1, <1>3, <3>0, <3>3, Zenon DEF Jet!Term, Jet!Sent, Jet!Settle
    <3> QED BY <3>1, <3>2, <3>3, Zenon
  <2>2. srv \in [Msg -> {"absent", "ready", "pending"} \cup Jet!Settled]
    BY Zenon DEF JetInv, Jet!TypeOK
  <2> QED BY <1>3, <2>1, <2>2, Zenon DEF Jet!Settled
<1>5. Jet!TypeOK'
  BY <1>2, <1>4, Zenon DEF JetInv, Jet!TypeOK, Jet!Delivery, Jet!Settled
<1>6. Jet!SettledForCause'
  BY <1>1, <1>2, <1>3, <1>4, Zenon DEF JetInv, Jet!SettledForCause, Callbacks
<1>7. Callbacks'
  BY <1>2, Zenon DEF JetInv, Jet!TypeOK, Callbacks, Jet!Exhausts
<1>8. Counts'
  <2>1. pub'[m] = "none" => srv'[m] = "absent"
    <3>1. srv[m] = "absent" => srv'[m] = "absent"
      BY <1>1, <1>3, Zenon DEF JetInv, Jet!TypeOK, Jet!Ack, Jet!Nak, Jet!Term, Jet!Sent, Jet!Settle, Jet!Again
    <3> QED BY <1>2, <1>3, <3>1, Zenon DEF JetInv, Counts
  <2>2. MaxDeliver > 0 /\ srv'[m] = "ready" => delivered[m] < MaxDeliver
    BY <1>3, <1>4 DEF JetInv, Counts, Jet!Last, Jet!JetAssumption
  <2> QED BY <1>2, <1>3, <1>4, <2>1, <2>2, Zenon DEF JetInv, Counts
<1>9. \A s \in Replica : /\ Places(s)' = IF s = r THEN Places(s) \ {0} ELSE Places(s)
                         /\ \A i \in Places(s)' : At(s, i)' = At(s, i)
  BY <1>2 DEF JetInv, Jet!TypeOK, Places, At
<1>10. HeldOnce'
  <2>1. PICK d : d = [s \in Replica |-> 0]
    BY Zenon
  <2>2. d \in [Replica -> {0, 1}] /\ \A s \in Replica : d[s] = 0
    BY <2>1, Zenon
  <2>3. \A s \in Replica : \A i \in Places(s) : i + 0 = i /\ At(s, i).m \in Msg
    BY PlacesTyped DEF JetInv
  <2>4. \A s \in Replica : \A i \in Places(s)' : i \in Places(s) /\ At(s, i)' = At(s, i)
    BY <1>9, Zenon
  <2>5. ~Slow => \A s \in Replica : \A i \in Places(s)' : srv'[At(s, i)'.m] = srv[At(s, i)'.m]
    <3> SUFFICES ASSUME ~Slow, NEW s \in Replica, NEW i \in Places(s)' PROVE srv'[At(s, i)'.m] = srv[At(s, i)'.m]
      BY Zenon
    <3>1. At(s, i).m # m
      BY <1>1, <1>3, <1>9, <2>4 DEF JetInv, HeldOnce
    <3> QED BY <3>1, <1>4, <2>3, <2>4, Zenon
  <2> QED BY <1>2, <1>5, <2>2, <2>3, <2>4, <2>5, HeldStill
<1>11. NothingDropped'
  <2> SUFFICES ASSUME Jet!Faultless PROVE NothingDropped'
    BY Zenon DEF NothingDropped, Jet!Faultless
  <2>1. srv[m] = "pending" /\ cur[r].n = delivered[m]
    BY <1>1, <1>3 DEF JetInv, HeldOnce, Jet!Faultless
  <2>2. pc[r] = "nak" => ~Jet!Last(m)
    BY <2>1, <1>1, <1>3, Zenon DEF JetInv, Callbacks, Jet!Exhausts, Jet!Last
  <2>3. srv'[m] # "pending"
    <3>1. ~MayLose /\ sub[r] # "gone"
      BY Zenon DEF Jet!Faultless, JetInv, NothingDropped
    <3> QED BY <1>1, <1>3, <2>1, <3>1, Zenon
            DEF JetInv, Jet!TypeOK, Jet!Ack, Jet!Nak, Jet!Term, Jet!Sent, Jet!Settle, Jet!Again
  <2>4. \A x \in Msg : srv'[x] = "pending" => \E s \in Replica : \E i \in Places(s)' : At(s, i)'.m = x
    <3> SUFFICES ASSUME NEW x \in Msg, srv'[x] = "pending"
                 PROVE  \E s \in Replica : \E i \in Places(s)' : At(s, i)'.m = x
      BY Zenon
    <3>1. x # m /\ srv[x] = "pending"
      BY <1>4, <2>3, Zenon
    <3>2. PICK s \in Replica : \E i \in Places(s) : At(s, i).m = x
      BY <3>1, Zenon DEF JetInv, NothingDropped
    <3>i. PICK i \in Places(s) : At(s, i).m = x
      BY <3>2, Zenon
    <3>3. ~(s = r /\ i = 0)
      BY <1>1, <1>3, <3>1, <3>i, ZenonT(40)
    <3> QED BY <1>9, <3>i, <3>3, Zenon
  <2>5. \A x \in Msg : srv'[x] # "exhausted" /\ (srv'[x] = "termed" /\ DeadLetterSet => x \in dlq')
    BY <1>1, <1>2, <1>3, <1>4, <2>1, <2>2, SMTT(30) DEF JetInv, NothingDropped
  <2>6. \A s \in Replica : sub'[s] \in {"down", "up"} /\ (pc'[s] = "term" /\ DeadLetterSet => cur'[s].m \in dlq')
    BY <1>2 DEF JetInv, Jet!TypeOK, NothingDropped
  <2> QED BY <2>4, <2>5, <2>6, Zenon DEF NothingDropped
<1> QED BY <1>5, <1>6, <1>7, <1>8, <1>10, <1>11, Zenon DEF JetInv

\* A replica that ends: its deliveries stay pending and nobody holds them.
LEMMA JetEnd ==
  ASSUME Jet!JetAssumption, JetInv, NEW r \in Replica, Jet!Close(r) \/ Jet!Exit(r)
  PROVE  JetInv'
<1>1. /\ buf' = [buf EXCEPT ![r] = <<>>]
      /\ sub' \in {[sub EXCEPT ![r] = "closed"], [sub EXCEPT ![r] = "down"]}
      /\ \/ cur' = cur /\ pc' = pc
         \/ cur' = [cur EXCEPT ![r] = None] /\ pc' = [pc EXCEPT ![r] = "idle"]
      /\ UNCHANGED <<pub, srv, delivered, handled, hopeless, dlq>>
  BY Zenon DEF Jet!Close, Jet!Exit, Jet!server
<1>2. Jet!TypeOK'
  <2>0. <<>> \in Seq(Jet!Delivery)
    OBVIOUS
  <2>1. buf' \in [Replica -> Seq(Jet!Delivery)]
    BY <1>1, <2>0, Zenon DEF JetInv, Jet!TypeOK
  <2>3. sub' \in [Replica -> {"down", "up", "closed", "gone"}]
    BY <1>1, Zenon DEF JetInv, Jet!TypeOK
  <2>2. /\ cur' \in [Replica -> Jet!Delivery \cup {None}]
        /\ pc' \in [Replica -> {"idle", "handling", "ack", "nak", "deadLetter", "term"}]
    BY <1>1, Zenon DEF JetInv, Jet!TypeOK
  <2> QED BY <1>1, <2>1, <2>2, <2>3, Zenon DEF JetInv, Jet!TypeOK, Jet!Delivery, Jet!Settled
<1>3. Jet!SettledForCause' /\ Counts'
  BY <1>1, Zenon DEF JetInv, Jet!SettledForCause, Counts
<1>4. Callbacks'
  BY <1>1 DEF JetInv, Jet!TypeOK, Callbacks, Jet!Exhausts
<1>5. HeldOnce'
  <2>1. PICK d : d = [s \in Replica |-> 0]
    BY Zenon
  <2>2. d \in [Replica -> {0, 1}] /\ \A s \in Replica : d[s] = 0
    BY <2>1, Zenon
  <2>3. \A s \in Replica : \A i \in Places(s) : i + 0 = i
    BY PlacesTyped DEF JetInv
  <2>4. \A s \in Replica : Len(buf[s]) \in Nat /\ (buf'[s] = buf[s] \/ Len(buf'[s]) = 0)
                           /\ (cur'[s] = cur[s] \/ cur'[s] = None)
    BY <1>1 DEF JetInv, Jet!TypeOK
  <2>5. \A s \in Replica : \A i \in Places(s)' : i \in Places(s) /\ At(s, i)' = At(s, i)
    BY <2>4 DEF Places, At
  <2> QED BY <1>1, <1>2, <2>2, <2>3, <2>5, HeldStill
<1>6. ~Jet!Faultless
  BY Zenon DEF Jet!Close, Jet!Exit, Jet!Faultless, JetInv, NothingDropped
<1>7. NothingDropped'
  BY <1>6, Zenon DEF NothingDropped, Jet!Faultless
<1> QED BY <1>2, <1>3, <1>4, <1>5, <1>7, Zenon DEF JetInv

LEMMA JetInvariant ==
  ASSUME Jet!JetAssumption
  PROVE  Jet!Spec => []JetInv
<1>1. Jet!Init => JetInv
  <2> SUFFICES ASSUME Jet!Init PROVE JetInv
    BY Zenon
  <2>1. \A r \in Replica : Places(r) = {}
    BY DEF Jet!Init, Places
  <2> QED BY <2>1 DEF Jet!Init, JetInv, Jet!TypeOK, Jet!SettledForCause, Callbacks, Counts, HeldOnce, NothingDropped,
                      Jet!Delivery, Jet!JetAssumption
<1>2. JetInv /\ [Jet!Next]_(Jet!vars) => JetInv'
  <2> SUFFICES ASSUME JetInv, [Jet!Next]_(Jet!vars) PROVE JetInv'
    BY Zenon
  <2>1. CASE UNCHANGED Jet!vars
    <3>1. UNCHANGED <<pub, srv, delivered, sub, buf, cur, pc, handled, hopeless, dlq>>
      BY <2>1, Zenon DEF Jet!vars, Jet!server, Jet!replica
    <3>2. Jet!TypeOK' /\ Jet!SettledForCause' /\ Callbacks' /\ Counts'
      BY <3>1, Zenon DEF JetInv, Jet!TypeOK, Jet!SettledForCause, Callbacks, Counts, Jet!Delivery, Jet!Settled, Jet!Exhausts
    <3>3. HeldOnce'
      BY <3>1, JetQuiet, Zenon
    <3>4. NothingDropped'
      BY <3>1 DEF JetInv, NothingDropped, Jet!Faultless, Places, At
    <3> QED BY <3>2, <3>3, <3>4, Zenon DEF JetInv
  <2>2. CASE Jet!Next
    BY <2>2, JetPublish, JetAckWait, JetDeliver, JetKeeps, JetHandle, JetRelease, JetEnd, Zenon
       DEF Jet!Next, Jet!ReplicaStep
  <2> QED BY <2>1, <2>2, Zenon
<1> QED BY <1>1, <1>2, PTL DEF Jet!Spec

(* consumer.go:26-28, 64-106, config.go:27-28: whatever replicas are closed or  *)
(* die and whatever they send gets lost, a message is acknowledged only after   *)
(* a handler returned nil for it and given up only after its MaxDeliver-th      *)
(* delivery failed; while handlers keep within AckWait it is in the hands of    *)
(* one replica; and without faults one that exhausts MaxDeliver is copied.      *)
THEOREM DeliveriesHold ==
  ASSUME Jet!JetAssumption
  PROVE  Jet!Spec => []DeliveriesAccounted
<1>1. JetInv => Jet!DeliveriesAccounted
  <2> SUFFICES ASSUME JetInv PROVE Jet!DeliveriesAccounted
    BY Zenon
  <2>1. Jet!OneAtATime
    <3> SUFFICES ASSUME ~Slow, NEW r \in Replica, NEW s \in Replica,
                        cur[r] # None, cur[s] # None, cur[r].m = cur[s].m
                 PROVE  r = s
      BY Zenon DEF Jet!OneAtATime
    <3>1. 0 \in Places(r) /\ 0 \in Places(s) /\ At(r, 0) = cur[r] /\ At(s, 0) = cur[s]
      BY PlacesTyped, Zenon DEF JetInv
    <3> QED BY <3>1 DEF JetInv, HeldOnce
  <2>2. Jet!Faultless => Jet!ExhaustedIsCopied
    BY Zenon DEF JetInv, NothingDropped, Jet!ExhaustedIsCopied
  <2> QED BY <2>1, <2>2, Zenon DEF JetInv, Jet!DeliveriesAccounted
<1> QED BY <1>1, JetInvariant, PTL DEF DeliveriesAccounted

-----------------------------------------------------------------------------
(* Core NATS. *)

CONSTANTS Sub, Group, Packet, Req

VARIABLES conn, closed, nSub, queue, busy, nHandled, sent, inbox, result

Nats == INSTANCE CoreNats WITH Msg <- Packet, sub <- nSub, handled <- nHandled

(* nats.go:171-183, 222-223, 255-258: a message is handled at most once,     *)
(* within a queue group by one member only, and a request is answered by a   *)
(* responder that has handled this request.                                  *)
ExchangesMatch == Nats!ExchangesMatch

In(q, x) == \E i \in 1..Len(q) : q[i] = x
Once(q) == \A i, j \in 1..Len(q) : q[i] = q[j] => i = j

\* The messages that have come to a subscription.
Came(s, m) == In(nHandled[s], m) \/ busy[s] = m \/ In(queue[s], m)

\* A message comes to a subscription once, after it was sent, and to one member
\* of a group.
Lines ==
  /\ \A s \in Sub : Once(nHandled[s]) /\ Once(queue[s])
  /\ \A s \in Sub, m \in Nats!Message :
       /\ In(nHandled[s], m) => busy[s] # m /\ ~In(queue[s], m)
       /\ busy[s] = m => ~In(queue[s], m)
       /\ Came(s, m) => sent[m]
  /\ \A s, t \in Sub, m \in Nats!Message :
       s # t /\ Group[s] # None /\ Group[s] = Group[t] /\ Came(s, m) => ~Came(t, m)

\* Replies in a request's inbox are from those who handled it.
Replies ==
  /\ \A q \in Req, s \in Sub : In(inbox[q], s) => In(nHandled[s], q)
  /\ \A q \in Req : result[q] \in Sub => In(nHandled[result[q]], q)

NatsInv == Nats!TypeOK /\ Lines /\ Replies

LEMMA InAppended ==
  ASSUME NEW T, NEW q \in Seq(T), NEW m \in T
  PROVE  /\ Append(q, m) \in Seq(T)
         /\ \A x : In(Append(q, m), x) <=> In(q, x) \/ x = m
         /\ Once(q) /\ ~In(q, m) => Once(Append(q, m))
<1>1. /\ Append(q, m) \in Seq(T) /\ Len(q) \in Nat /\ Len(Append(q, m)) = Len(q) + 1
      /\ Append(q, m)[Len(q) + 1] = m
      /\ \A i \in 1..Len(q) : Append(q, m)[i] = q[i]
  OBVIOUS
<1>2. \A i : i \in 1..(Len(q) + 1) <=> i \in 1..Len(q) \/ i = Len(q) + 1
  BY <1>1
<1>3. \A x : In(Append(q, m), x) <=> In(q, x) \/ x = m
  BY <1>1, <1>2, Zenon DEF In
<1>4. ASSUME Once(q), ~In(q, m) PROVE Once(Append(q, m))
  BY <1>1, <1>2, <1>4, Zenon DEF Once, In
<1> QED BY <1>1, <1>3, <1>4, Zenon

LEMMA InRest ==
  ASSUME NEW T, NEW q \in Seq(T), q # <<>>
  PROVE  /\ Head(q) \in T /\ Tail(q) \in Seq(T)
         /\ \A x : In(q, x) <=> x = Head(q) \/ In(Tail(q), x)
         /\ Once(q) => Once(Tail(q)) /\ ~In(Tail(q), Head(q))
<1>1. /\ Head(q) \in T /\ Tail(q) \in Seq(T) /\ Len(q) \in Nat \ {0} /\ Len(Tail(q)) = Len(q) - 1
      /\ Head(q) = q[1]
      /\ \A i \in 1..(Len(q) - 1) : Tail(q)[i] = q[i + 1]
  OBVIOUS
<1>2. \A x : In(q, x) => x = Head(q) \/ In(Tail(q), x)
  <2> SUFFICES ASSUME NEW x, NEW i \in 1..Len(q), q[i] = x, x # Head(q) PROVE In(Tail(q), x)
    BY Zenon DEF In
  <2>1. i - 1 \in 1..(Len(q) - 1) /\ (i - 1) + 1 = i
    BY <1>1
  <2>2. Tail(q)[i - 1] = x
    BY <1>1, <2>1, Zenon
  <2> QED BY <1>1, <2>1, <2>2, Zenon DEF In
<1>3. \A x : x = Head(q) \/ In(Tail(q), x) => In(q, x)
  <2>1. \A i \in 1..(Len(q) - 1) : i + 1 \in 1..Len(q)
    BY <1>1
  <2>2. 1 \in 1..Len(q)
    BY <1>1
  <2> QED BY <1>1, <2>1, <2>2, Zenon DEF In
<1>4. ASSUME Once(q) PROVE Once(Tail(q)) /\ ~In(Tail(q), Head(q))
  <2>1. \A i, j \in 1..(Len(q) - 1) : i + 1 \in 1..Len(q) /\ i + 1 # 1 /\ (i + 1 = j + 1 => i = j)
    BY <1>1
  <2>2. Once(Tail(q))
    BY <1>1, <1>4, <2>1 DEF Once
  <2>3. ~In(Tail(q), Head(q))
    <3>1. 1 \in 1..Len(q)
      BY <1>1
    <3> QED BY <1>1, <1>4, <2>1, <3>1 DEF Once, In
  <2> QED BY <2>2, <2>3, Zenon
<1> QED BY <1>1, <1>2, <1>3, <1>4, Zenon

\* One member of a group receives a message.
LEMMA OneReceiver ==
  ASSUME Nats!NatsAssumption, NEW R \in SUBSET Sub, Nats!Receivers(R),
         NEW s \in R, NEW t \in R, Group[s] # None, Group[s] = Group[t]
  PROVE  s = t
<1>1. Group[s] \in {Group[x] : x \in Nats!Interested} \ {None}
  BY Zenon DEF Nats!Receivers
<1> QED BY <1>1, Zenon DEF Nats!Receivers

\* A message on its way to its receivers, or lost.
LEMMA NatsSend ==
  ASSUME Nats!NatsAssumption, NatsInv, NEW m \in Nats!Message, ~sent[m],
         sent' = [sent EXCEPT ![m] = TRUE], Nats!Send(m) \/ UNCHANGED queue, UNCHANGED <<busy, nHandled>>
  PROVE  queue' \in [Sub -> Seq(Nats!Message)] /\ Lines'
<1> DEFINE M == Nats!Message
<1>1. PICK R \in SUBSET Sub :
        /\ \A s, t \in R : Group[s] # None /\ Group[s] = Group[t] => s = t
        /\ queue' = [s \in Sub |-> IF s \in R THEN Append(queue[s], m) ELSE queue[s]]
  <2>1. CASE Nats!Send(m)
    BY <2>1, OneReceiver, Zenon DEF Nats!Send
  <2>2. CASE UNCHANGED queue
    <3>1. queue' = [s \in Sub |-> IF s \in {} THEN Append(queue[s], m) ELSE queue[s]]
      BY <2>2, Zenon DEF NatsInv, Nats!TypeOK
    <3>2. {} \in SUBSET Sub
      BY Zenon
    <3> QED BY <3>1, <3>2, Zenon
  <2> QED BY <2>1, <2>2, Zenon
<1>2. \A s \in Sub : queue[s] \in Seq(M)
  BY Zenon DEF NatsInv, Nats!TypeOK
<1>3. \A s \in Sub : ~Came(s, m)
  BY Zenon DEF NatsInv, Lines
<1>4. \A s \in Sub : \A x : In(queue'[s], x) <=> In(queue[s], x) \/ (s \in R /\ x = m)
  BY <1>1, <1>2, InAppended
<1>5. queue' \in [Sub -> Seq(M)]
  BY <1>1, <1>2, InAppended, Zenon
<1>6. \A s \in Sub : Once(queue'[s])
  BY <1>1, <1>2, <1>3, InAppended, Zenon DEF NatsInv, Lines, Came
<1>7. \A s \in Sub : \A x : Came(s, x)' <=> Came(s, x) \/ (s \in R /\ x = m)
  <2> SUFFICES ASSUME NEW s \in Sub, NEW x PROVE Came(s, x)' <=> Came(s, x) \/ (s \in R /\ x = m)
    BY Zenon
  <2>1. Came(s, x)' <=> In(nHandled'[s], x) \/ busy'[s] = x \/ In(queue'[s], x)
    BY Zenon DEF Came, In
  <2>2. nHandled'[s] = nHandled[s] /\ busy'[s] = busy[s]
    BY ZenonT(40)
  <2> QED BY <1>4, <2>1, <2>2, Zenon DEF Came
<1>8. ASSUME NEW s \in Sub, NEW x \in M
      PROVE  /\ In(nHandled'[s], x) => busy'[s] # x /\ ~In(queue'[s], x)
             /\ busy'[s] = x => ~In(queue'[s], x)
             /\ Came(s, x)' => sent'[x]
  <2>1. sent'[m] /\ (sent[x] => sent'[x])
    BY ZenonT(40) DEF NatsInv, Nats!TypeOK
  <2> QED BY <1>3, <1>4, <1>7, <2>1 DEF NatsInv, Lines, Came
<1>9. ASSUME NEW s \in Sub, NEW t \in Sub, NEW x \in M,
             s # t, Group[s] # None, Group[s] = Group[t], Came(s, x)'
      PROVE  ~Came(t, x)'
  BY <1>1, <1>3, <1>7, <1>9 DEF NatsInv, Lines
<1>10. Lines'
  <2>1. \A s \in Sub : Once(nHandled[s])' /\ Once(queue[s])'
    BY <1>6, Zenon DEF NatsInv, Lines, Once
  <2>2. (Nats!Message)' = M
    BY Zenon DEF Nats!Message
  <2>3. \A s \in Sub : \A x : (In(nHandled[s], x)' <=> In(nHandled'[s], x)) /\ (In(queue[s], x)' <=> In(queue'[s], x))
    BY Zenon DEF In
  <2> QED BY <1>8, <1>9, <2>1, <2>2, <2>3, Zenon DEF Lines
<1> QED BY <1>5, <1>10, Zenon

LEMMA NatsDispatch ==
  ASSUME Nats!NatsAssumption, NatsInv, NEW s \in Sub, Nats!Dispatch(s)
  PROVE  NatsInv'
<1>1. PICK m : m = Head(queue[s])
  BY Zenon
<1>2. /\ busy[s] = None /\ queue[s] # <<>>
      /\ busy' = [busy EXCEPT ![s] = m]
      /\ queue' = [queue EXCEPT ![s] = Tail(queue[s])]
      /\ UNCHANGED <<conn, closed, nSub, nHandled, sent, inbox, result>>
  BY <1>1, Zenon DEF Nats!Dispatch
<1>3. /\ queue[s] \in Seq(Nats!Message) /\ m \in Nats!Message /\ Tail(queue[s]) \in Seq(Nats!Message)
      /\ \A x : In(queue[s], x) <=> x = m \/ In(Tail(queue[s]), x)
      /\ Once(Tail(queue[s])) /\ ~In(Tail(queue[s]), m)
  <2>1. queue[s] \in Seq(Nats!Message) /\ Once(queue[s])
    BY Zenon DEF NatsInv, Nats!TypeOK, Lines
  <2> QED BY <1>1, <1>2, <2>1, InRest, Zenon
<1>4. Nats!TypeOK'
  BY <1>2, <1>3, Zenon DEF NatsInv, Nats!TypeOK, Nats!Message
<1>5. \A t \in Sub : \A x \in Nats!Message :
        /\ In(nHandled[t], x)' <=> In(nHandled[t], x)
        /\ In(queue[t], x)' <=> In(queue[t], x) /\ ~(t = s /\ x = m)
        /\ busy'[t] = x <=> busy[t] = x \/ (t = s /\ x = m)
  <2>1. \A t \in Sub : \A x : (In(nHandled[t], x)' <=> In(nHandled'[t], x)) /\ (In(queue[t], x)' <=> In(queue'[t], x))
    BY Zenon DEF In
  <2>2. \A t \in Sub : queue'[t] = IF t = s THEN Tail(queue[s]) ELSE queue[t]
    BY <1>2, Zenon DEF NatsInv, Nats!TypeOK
  <2>3. \A t \in Sub : busy'[t] = IF t = s THEN m ELSE busy[t]
    BY <1>2, Zenon DEF NatsInv, Nats!TypeOK
  <2> QED BY <1>2, <1>3, <2>1, <2>2, <2>3 DEF Nats!NatsAssumption
<1>6. \A t \in Sub : \A x \in Nats!Message : Came(t, x)' <=> Came(t, x)
  <2>1. In(queue[s], m)
    BY <1>3, Zenon
  <2> QED BY <1>5, <2>1, Zenon DEF Came
<1>7. \A t \in Sub : Once(nHandled[t])' /\ Once(queue[t])'
  BY <1>2, <1>3, ZenonT(40) DEF NatsInv, Nats!TypeOK, Lines, Once
<1>8. Lines'
  <2>1. \A t \in Sub, x \in Nats!Message :
          /\ In(nHandled[t], x)' => busy'[t] # x /\ ~In(queue[t], x)'
          /\ busy'[t] = x => ~In(queue[t], x)'
    <3>1. In(queue[s], m)
      BY <1>3, Zenon
    <3> QED BY <1>5, <3>1 DEF NatsInv, Lines
  <2>2. \A t \in Sub, x \in Nats!Message : Came(t, x)' => sent'[x]
    BY <1>2, <1>6, Zenon DEF NatsInv, Lines
  <2>3. (Nats!Message)' = Nats!Message
    BY Zenon DEF Nats!Message
  <2>4. \A t, u \in Sub, x \in Nats!Message :
          t # u /\ Group[t] # None /\ Group[t] = Group[u] /\ Came(t, x)' => ~Came(u, x)'
    BY <1>6, Zenon DEF NatsInv, Lines
  <2> QED BY <1>7, <2>1, <2>2, <2>3, <2>4, Zenon DEF Lines
<1>9. Replies'
  BY <1>2, ZenonT(40) DEF NatsInv, Replies, In
<1> QED BY <1>4, <1>8, <1>9, Zenon DEF NatsInv

LEMMA NatsHandle ==
  ASSUME Nats!NatsAssumption, NatsInv, NEW s \in Sub, Nats!Handle(s)
  PROVE  NatsInv'
<1>1. PICK m : m = busy[s]
  BY Zenon
<1>2. /\ m # None /\ m \in Nats!Message
      /\ nHandled' = [nHandled EXCEPT ![s] = Append(nHandled[s], m)]
      /\ busy' = [busy EXCEPT ![s] = None]
      /\ UNCHANGED <<conn, closed, nSub, queue, sent, result>>
  BY <1>1, Zenon DEF Nats!Handle, NatsInv, Nats!TypeOK
<1>3. /\ inbox' \in [Req -> Seq(Sub)]
      /\ \A q \in Req : inbox'[q] = inbox[q] \/ (q = m /\ inbox'[q] = Append(inbox[q], s))
  <2>1. \A q \in Req : inbox[q] \in Seq(Sub) /\ Append(inbox[q], s) \in Seq(Sub)
    BY DEF NatsInv, Nats!TypeOK
  <2>2. \/ inbox' = [q \in Req |-> IF q \in Nats!Inbox(m) /\ conn \in {"open", "draining"} THEN Append(inbox[q], s) ELSE inbox[q]]
        \/ inbox' = inbox
    BY <1>1, Zenon DEF Nats!Handle
  <2>3. CASE inbox' = inbox
    BY <2>3, Zenon DEF NatsInv, Nats!TypeOK
  <2>4. CASE inbox' = [q \in Req |-> IF q \in Nats!Inbox(m) /\ conn \in {"open", "draining"} THEN Append(inbox[q], s) ELSE inbox[q]]
    <3>1. inbox' \in [Req -> Seq(Sub)]
      BY <2>1, <2>4, Zenon
    <3>2. \A q \in Nats!Inbox(m) : q = m
      BY Zenon DEF Nats!Inbox
    <3>3. \A q \in Req : inbox'[q] = inbox[q] \/ (q \in Nats!Inbox(m) /\ inbox'[q] = Append(inbox[q], s))
      BY <2>4, Zenon
    <3> QED BY <3>1, <3>2, <3>3, Zenon
  <2> QED BY <2>2, <2>3, <2>4, Zenon
<1>4. /\ nHandled[s] \in Seq(Nats!Message) /\ Append(nHandled[s], m) \in Seq(Nats!Message)
      /\ \A x : In(Append(nHandled[s], m), x) <=> In(nHandled[s], x) \/ x = m
      /\ Once(Append(nHandled[s], m))
  <2>1. nHandled[s] \in Seq(Nats!Message) /\ Once(nHandled[s]) /\ ~In(nHandled[s], m)
    BY <1>1, <1>2, Zenon DEF NatsInv, Nats!TypeOK, Lines
  <2> QED BY <1>2, <2>1, InAppended, Zenon
<1>5. Nats!TypeOK'
  BY <1>2, <1>3, <1>4, ZenonT(40) DEF NatsInv, Nats!TypeOK, Nats!Message
<1>6. \A t \in Sub : \A x \in Nats!Message :
        /\ In(nHandled[t], x)' <=> In(nHandled[t], x) \/ (t = s /\ x = m)
        /\ In(queue[t], x)' <=> In(queue[t], x)
        /\ busy'[t] = x <=> busy[t] = x /\ t # s
  <2>1. \A t \in Sub : \A x : (In(nHandled[t], x)' <=> In(nHandled'[t], x)) /\ (In(queue[t], x)' <=> In(queue'[t], x))
    BY Zenon DEF In
  <2>2. \A t \in Sub : nHandled'[t] = IF t = s THEN Append(nHandled[s], m) ELSE nHandled[t]
    BY <1>2, Zenon DEF NatsInv, Nats!TypeOK
  <2>3. \A t \in Sub : busy'[t] = IF t = s THEN None ELSE busy[t]
    BY <1>2, Zenon DEF NatsInv, Nats!TypeOK
  <2> QED BY <1>2, <1>4, <2>1, <2>2, <2>3 DEF Nats!NatsAssumption
<1>7. \A t \in Sub : \A x \in Nats!Message : Came(t, x)' <=> Came(t, x)
  BY <1>1, <1>6, Zenon DEF Came
<1>8. \A t \in Sub : Once(nHandled[t])' /\ Once(queue[t])'
  <2>1. \A t \in Sub : (Once(nHandled[t])' <=> Once(nHandled'[t])) /\ (Once(queue[t])' <=> Once(queue'[t]))
    BY Zenon DEF Once
  <2>2. \A t \in Sub : Once(nHandled[t]) /\ Once(queue[t])
    BY Zenon DEF NatsInv, Lines
  <2>3. \A t \in Sub : nHandled'[t] = IF t = s THEN Append(nHandled[s], m) ELSE nHandled[t]
    BY <1>2, Zenon DEF NatsInv, Nats!TypeOK
  <2>4. queue' = queue
    BY <1>2, Zenon
  <2> QED BY <1>4, <2>1, <2>2, <2>3, <2>4, Zenon
<1>9. Lines'
  <2>1. \A t \in Sub, x \in Nats!Message :
          /\ In(nHandled[t], x)' => busy'[t] # x /\ ~In(queue[t], x)'
          /\ busy'[t] = x => ~In(queue[t], x)'
    BY <1>1, <1>6, Zenon DEF NatsInv, Lines
  <2>2. \A t \in Sub, x \in Nats!Message : Came(t, x)' => sent'[x]
    BY <1>2, <1>7, Zenon DEF NatsInv, Lines
  <2>3. (Nats!Message)' = Nats!Message
    BY Zenon DEF Nats!Message
  <2>4. \A t, u \in Sub, x \in Nats!Message :
          t # u /\ Group[t] # None /\ Group[t] = Group[u] /\ Came(t, x)' => ~Came(u, x)'
    BY <1>7, Zenon DEF NatsInv, Lines
  <2> QED BY <1>8, <2>1, <2>2, <2>3, <2>4, Zenon DEF Lines
<1>10. Replies'
  <2>0. \A q \in Req : q \in Nats!Message
    BY Zenon DEF Nats!Message
  <2>1. \A q \in Req, t \in Sub : In(inbox[q], t)' => In(inbox[q], t) \/ (q = m /\ t = s)
    <3> SUFFICES ASSUME NEW q \in Req, NEW t \in Sub PROVE In(inbox'[q], t) => In(inbox[q], t) \/ (q = m /\ t = s)
      BY Zenon DEF In
    <3>1. inbox[q] \in Seq(Sub)
      BY Zenon DEF NatsInv, Nats!TypeOK
    <3>2. \A x : In(Append(inbox[q], s), x) <=> In(inbox[q], x) \/ x = s
      BY <3>1, InAppended, Zenon
    <3> QED BY <1>3, <3>2, Zenon
  <2>2. \A q \in Req, t \in Sub : In(inbox[q], t)' => In(nHandled[t], q)'
    BY <1>6, <2>0, <2>1, Zenon DEF NatsInv, Replies
  <2>3. \A q \in Req : result'[q] \in Sub => In(nHandled[result[q]], q)'
    BY <1>2, <1>6, <2>0, Zenon DEF NatsInv, Replies
  <2> QED BY <2>2, <2>3, Zenon DEF Replies
<1> QED BY <1>5, <1>9, <1>10, Zenon DEF NatsInv

\* The queue of a subscription, or of all, is dropped.
LEMMA NatsDrop ==
  ASSUME NatsInv, UNCHANGED <<busy, nHandled, sent>>, \A s \in Sub : queue'[s] \in {queue[s], <<>>}
  PROVE  Lines'
<1>1. \A s \in Sub : \A x : In(queue[s], x)' => In(queue[s], x)
  BY DEF In
<1>2. \A s \in Sub : \A x : In(nHandled[s], x)' <=> In(nHandled[s], x)
  BY Zenon DEF In
<1>3. \A s \in Sub : \A x : Came(s, x)' => Came(s, x)
  BY <1>1, <1>2, ZenonT(40) DEF Came
<1>4. \A s \in Sub : Once(nHandled[s])' /\ Once(queue[s])'
  BY DEF NatsInv, Lines, Once
<1>5. (Nats!Message)' = Nats!Message
  BY Zenon DEF Nats!Message
<1>6. \A s \in Sub, m \in Nats!Message :
        /\ In(nHandled[s], m)' => busy'[s] # m /\ ~In(queue[s], m)'
        /\ busy'[s] = m => ~In(queue[s], m)'
        /\ Came(s, m)' => sent'[m]
  BY <1>1, <1>2, <1>3, Zenon DEF NatsInv, Lines
<1>7. \A s, t \in Sub, m \in Nats!Message :
        s # t /\ Group[s] # None /\ Group[s] = Group[t] /\ Came(s, m)' => ~Came(t, m)'
  BY <1>3, Zenon DEF NatsInv, Lines
<1> QED BY <1>4, <1>5, <1>6, <1>7, Zenon DEF Lines

LEMMA NatsInvariant ==
  ASSUME Nats!NatsAssumption
  PROVE  Nats!Spec => []NatsInv
<1>1. Nats!Init => NatsInv
  <2> SUFFICES ASSUME Nats!Init PROVE NatsInv
    BY Zenon
  <2>1. Nats!TypeOK
    <3>1. <<>> \in Seq(Nats!Message) /\ <<>> \in Seq(Sub)
      OBVIOUS
    <3>2. /\ queue \in [Sub -> Seq(Nats!Message)] /\ nHandled \in [Sub -> Seq(Nats!Message)]
          /\ inbox \in [Req -> Seq(Sub)]
      BY <3>1, Zenon DEF Nats!Init
    <3>3. /\ nSub \in [Sub -> {"off", "on", "gone"}] /\ busy \in [Sub -> Nats!Message \cup {None}]
          /\ result \in [Req -> Sub \cup {"none", "waiting", "ErrTimeout", "deadline"}]
      BY Zenon DEF Nats!Init
    <3>4. closed \in BOOLEAN /\ sent \in [Nats!Message -> BOOLEAN] /\ conn \in {"open", "draining", "closed", "expired"}
      BY Zenon DEF Nats!Init
    <3> QED BY <3>2, <3>3, <3>4, Zenon DEF Nats!TypeOK
  <2>2. \A s \in Sub : \A x : ~In(nHandled[s], x) /\ ~In(queue[s], x)
    BY DEF Nats!Init, In
  <2>3. Lines
    <3>1. \A s \in Sub : Once(nHandled[s]) /\ Once(queue[s])
      BY DEF Nats!Init, Once
    <3>2. \A s \in Sub, m \in Nats!Message : ~Came(s, m) /\ busy[s] # m
      BY <2>2, Zenon DEF Nats!Init, Came, Nats!NatsAssumption
    <3> QED BY <2>2, <3>1, <3>2, Zenon DEF Lines
  <2>4. Replies
    <3>1. \A q \in Req : \A x : ~In(inbox[q], x)
      BY DEF Nats!Init, In
    <3>2. \A q \in Req : result[q] \notin Sub
      BY Zenon DEF Nats!Init, Nats!NatsAssumption
    <3> QED BY <3>1, <3>2, Zenon DEF Replies
  <2> QED BY <2>1, <2>3, <2>4, Zenon DEF NatsInv
<1>2. NatsInv /\ [Nats!Next]_(Nats!vars) => NatsInv'
  <2> SUFFICES ASSUME NatsInv, [Nats!Next]_(Nats!vars) PROVE NatsInv'
    BY Zenon
  <2>1. ASSUME NEW s \in Sub, Nats!Subscribe(s) \/ Nats!Unsubscribe(s) PROVE NatsInv'
    <3>1. /\ UNCHANGED <<conn, closed, busy, nHandled, sent, inbox, result>>
          /\ nSub' \in {[nSub EXCEPT ![s] = "on"], [nSub EXCEPT ![s] = "gone"]}
          /\ queue' \in {queue, [queue EXCEPT ![s] = <<>>]}
      BY <2>1, Zenon DEF Nats!Subscribe, Nats!Unsubscribe
    <3>2. queue' \in [Sub -> Seq(Nats!Message)] /\ \A t \in Sub : queue'[t] \in {queue[t], <<>>}
      <4>1. <<>> \in Seq(Nats!Message)
        OBVIOUS
      <4> QED BY <3>1, <4>1, Zenon DEF NatsInv, Nats!TypeOK
    <3>3. nSub' \in [Sub -> {"off", "on", "gone"}]
      BY <3>1, Zenon DEF NatsInv, Nats!TypeOK
    <3>4. Nats!TypeOK'
      BY <3>1, <3>2, <3>3, Zenon DEF NatsInv, Nats!TypeOK, Nats!Message
    <3>5. Lines'
      BY <3>1, <3>2, NatsDrop, Zenon
    <3>6. Replies'
      BY <3>1 DEF NatsInv, Replies, In
    <3> QED BY <3>4, <3>5, <3>6, Zenon DEF NatsInv
  <2>2. ASSUME NEW m \in Packet, Nats!Publish(m) PROVE NatsInv'
    <3>0. m \in Nats!Message
      BY Zenon DEF Nats!Message
    <3>1. /\ ~sent[m] /\ sent' = [sent EXCEPT ![m] = TRUE] /\ (Nats!Send(m) \/ UNCHANGED queue)
          /\ UNCHANGED <<conn, closed, nSub, busy, nHandled, inbox, result>>
      BY <2>2, Zenon DEF Nats!Publish, Nats!Send
    <3>2. queue' \in [Sub -> Seq(Nats!Message)] /\ Lines'
      BY <3>0, <3>1, NatsSend, Zenon
    <3>3. Nats!TypeOK'
      BY <3>0, <3>1, <3>2, Zenon DEF NatsInv, Nats!TypeOK, Nats!Message
    <3>4. Replies'
      BY <3>1, Zenon DEF NatsInv, Replies, In
    <3> QED BY <3>2, <3>3, <3>4, Zenon DEF NatsInv
  <2>3. ASSUME NEW q \in Req, Nats!Request(q) PROVE NatsInv'
    <3>0. q \in Nats!Message
      BY Zenon DEF Nats!Message
    <3>1. /\ ~sent[q] /\ sent' = [sent EXCEPT ![q] = TRUE] /\ (Nats!Send(q) \/ UNCHANGED queue)
          /\ result' \in {[result EXCEPT ![q] = "ErrTimeout"], [result EXCEPT ![q] = "waiting"]}
          /\ UNCHANGED <<conn, closed, nSub, busy, nHandled, inbox>>
      BY <2>3, Zenon DEF Nats!Request, Nats!Send
    <3>2. queue' \in [Sub -> Seq(Nats!Message)] /\ Lines'
      BY <3>0, <3>1, NatsSend, Zenon
    <3>3. /\ result' \in [Req -> Sub \cup {"none", "waiting", "ErrTimeout", "deadline"}]
          /\ \A p \in Req : result'[p] \in Sub => result'[p] = result[p]
      BY <3>1, ZenonT(40) DEF NatsInv, Nats!TypeOK, Nats!NatsAssumption
    <3>4. Nats!TypeOK'
      BY <3>0, <3>1, <3>2, <3>3, Zenon DEF NatsInv, Nats!TypeOK, Nats!Message
    <3>5. Replies'
      BY <3>1, <3>3, SMTT(30) DEF NatsInv, Replies, In
    <3> QED BY <3>2, <3>4, <3>5, Zenon DEF NatsInv
  <2>4. ASSUME NEW q \in Req, Nats!Answered(q) \/ Nats!Deadline(q) PROVE NatsInv'
    <3>1. /\ \/ inbox[q] # <<>> /\ result' = [result EXCEPT ![q] = Head(inbox[q])]
             \/ result' = [result EXCEPT ![q] = "deadline"]
          /\ UNCHANGED <<conn, closed, nSub, queue, busy, nHandled, sent, inbox>>
      BY <2>4, Zenon DEF Nats!Answered, Nats!Deadline
    <3>2. inbox[q] # <<>> => Head(inbox[q]) \in Sub /\ In(inbox[q], Head(inbox[q]))
      <4>1. inbox[q] \in Seq(Sub)
        BY Zenon DEF NatsInv, Nats!TypeOK
      <4> QED BY <4>1, InRest, Zenon
    <3>3. result' \in [Req -> Sub \cup {"none", "waiting", "ErrTimeout", "deadline"}]
      BY <3>1, <3>2, Zenon DEF NatsInv, Nats!TypeOK
    <3>4. Nats!TypeOK'
      BY <3>1, <3>3, Zenon DEF NatsInv, Nats!TypeOK, Nats!Message
    <3>5. Lines'
      BY <3>1, NatsDrop, Zenon
    <3>6. \A p \in Req : result'[p] \in Sub => result'[p] = result[p] \/ In(inbox[p], result'[p])
      BY <3>1, <3>2, ZenonT(40) DEF NatsInv, Nats!TypeOK, Nats!NatsAssumption
    <3>7. Replies'
      <4>1. \A p \in Req : result'[p] \in Sub => In(nHandled[result'[p]], p)
        BY <3>6, Zenon DEF NatsInv, Replies
      <4> QED BY <3>1, <4>1 DEF NatsInv, Replies, In
    <3> QED BY <3>4, <3>5, <3>7, Zenon DEF NatsInv
  <2>5. ASSUME Nats!Disconnect \/ Nats!Drained \/ Nats!DrainTimesOut \/ Nats!Over \/ UNCHANGED Nats!vars PROVE NatsInv'
    <3>1. /\ UNCHANGED <<busy, nHandled, sent, inbox, result>>
          /\ queue' = queue \/ queue' = [s \in Sub |-> <<>>]
          /\ nSub' = nSub \/ nSub' = Nats!NoSubscriptions
      BY <2>5, Zenon DEF Nats!Disconnect, Nats!Drained, Nats!DrainTimesOut, Nats!Over, Nats!vars
    <3>2. conn' \in {"open", "draining", "closed", "expired"}
      BY <2>5, Zenon DEF Nats!Disconnect, Nats!Drained, Nats!DrainTimesOut, Nats!Over, Nats!vars, NatsInv, Nats!TypeOK
    <3>3. closed' \in BOOLEAN
      BY <2>5, Zenon DEF Nats!Disconnect, Nats!Drained, Nats!DrainTimesOut, Nats!Over, Nats!vars, NatsInv, Nats!TypeOK
    <3>4. queue' \in [Sub -> Seq(Nats!Message)] /\ \A t \in Sub : queue'[t] \in {queue[t], <<>>}
      <4>1. <<>> \in Seq(Nats!Message)
        OBVIOUS
      <4> QED BY <3>1, <4>1, Zenon DEF NatsInv, Nats!TypeOK
    <3>5. nSub' \in [Sub -> {"off", "on", "gone"}]
      BY <3>1, Zenon DEF NatsInv, Nats!TypeOK, Nats!NoSubscriptions
    <3>6. Nats!TypeOK'
      BY <3>1, <3>2, <3>3, <3>4, <3>5, Zenon DEF NatsInv, Nats!TypeOK, Nats!Message
    <3>7. Lines'
      BY <3>1, <3>4, NatsDrop, ZenonT(40)
    <3>8. Replies'
      BY <3>1 DEF NatsInv, Replies, In
    <3> QED BY <3>6, <3>7, <3>8, Zenon DEF NatsInv
  <2> QED BY <2>1, <2>2, <2>3, <2>4, <2>5, NatsDispatch, NatsHandle, ZenonT(40) DEF Nats!Next
<1> QED BY <1>1, <1>2, PTL DEF Nats!Spec

(* nats.go:171-183, 222-223, 255-258: a subscription handles a message at most  *)
(* once, and of a queue group one member does, while members come and go; a     *)
(* request is answered by a responder that handled it.                           *)
THEOREM ExchangesHold ==
  ASSUME Nats!NatsAssumption
  PROVE  Nats!Spec => []ExchangesMatch
<1>1. NatsInv => Nats!ExchangesMatch
  <2> SUFFICES ASSUME NatsInv PROVE Nats!ExchangesMatch
    BY Zenon
  <2>1. \A s \in Sub, m \in Nats!Message : Nats!Has(s, m) => Came(s, m)
    BY Zenon DEF Nats!Has, Came, In
  <2>2. Nats!AtMostOnce
    <3>1. \A s \in Sub : \A i, j \in 1..Len(nHandled[s]) : nHandled[s][i] = nHandled[s][j] => i = j
      BY Zenon DEF NatsInv, Lines, Once
    <3> QED BY <2>1, <3>1, Zenon DEF NatsInv, Lines, Nats!AtMostOnce
  <2>3. Nats!AnsweredByHandler
    BY Zenon DEF NatsInv, Replies, In, Nats!AnsweredByHandler
  <2> QED BY <2>2, <2>3, Zenon DEF NatsInv, Nats!ExchangesMatch
<1> QED BY <1>1, NatsInvariant, PTL DEF ExchangesMatch
=============================================================================
