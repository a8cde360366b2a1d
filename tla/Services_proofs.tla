--------------------------- MODULE Services_proofs ---------------------------
(***************************************************************************)
(* The services among the programs, for any commands, statements, clients, *)
(* topics, messages, threads, requests, descriptors and segments.          *)
(***************************************************************************)
EXTENDS MCPrograms, SequenceLemmas, SequenceTheorems, FiniteSetTheorems

-----------------------------------------------------------------------------
(* The MySQL wrapper. *)

Writes == Nat \X Nat

Links == [vio : BOOLEAN, alive : BOOLEAN, reconnect : BOOLEAN, inTrans : BOOLEAN,
          auto : BOOLEAN, open : BOOLEAN, pending : SUBSET Writes, db : SUBSET Writes]

-----------------------------------------------------------------------------
(* Queries. *)

\* A write is none of the other queries, nor is any of those another.
LEMMA QueriesDiffer ==
  /\ \A w \in Writes : w \notin Sql!Control /\ w # <<"select">>
  /\ \A a, b : a # b => <<a>> # <<b>>
<1>1. \A w \in Writes : \A a : w # <<a>>
  <2> SUFFICES ASSUME NEW w \in Writes, NEW a, w = <<a>>
               PROVE  FALSE
    OBVIOUS
  <2>1. PICK c \in Nat, i \in Nat : w = <<c, i>>
    BY DEF Writes
  <2>2. Len(<<c, i>>) = 2 /\ Len(<<a>>) = 1
    OBVIOUS
  <2> QED
    BY <2>1, <2>2
<1>2. \A a, b : a # b => <<a>> # <<b>>
  <2> SUFFICES ASSUME NEW a, NEW b, <<a>> = <<b>> PROVE a = b
    OBVIOUS
  <2>1. <<a>>[1] = a /\ <<b>>[1] = b
    OBVIOUS
  <2> QED
    BY <2>1
<1>3. \A w \in Writes : w \notin Sql!Control /\ w # <<"select">>
  BY <1>1, Zenon DEF Sql!Control
<1> QED
  BY <1>2, <1>3, Zenon

\* A new session has nothing pending and no transaction, and the writes so far.
LEMMA NewSessionFacts ==
  ASSUME NEW l \in Links
  PROVE  /\ Sql!NewSession(l) \in Links /\ Sql!NewSession(l).db = l.db
         /\ Sql!NewSession(l).pending = {} /\ Sql!NewSession(l).vio
         /\ Sql!NewSession(l).alive /\ ~Sql!NewSession(l).inTrans
BY DEF Sql!NewSession, Links

\* A connection that breaks loses what is pending and nothing else.
LEMMA BrokenFacts ==
  ASSUME NEW l \in Links
  PROVE  /\ Sql!Broken(l) \in Links /\ Sql!Broken(l).db = l.db /\ Sql!Broken(l).pending = {}
         /\ ~Sql!Broken(l).alive /\ Sql!Broken(l).inTrans = l.inTrans
         /\ Sql!Dropped(l) \in Links /\ Sql!Dropped(l).db = l.db /\ Sql!Dropped(l).pending = {}
         /\ ~Sql!Dropped(l).alive /\ Sql!Dropped(l).inTrans = l.inTrans
         /\ Sql!Dropped(l).vio = l.vio
BY DEF Sql!Broken, Sql!Dropped, Links

\* A write is committed at once without a transaction, and pending in one.
LEMMA AppliedWrite ==
  ASSUME NEW l \in Links, NEW w \in Writes
  PROVE  Sql!Applied(w, l) = IF l.auto /\ ~l.open
                         THEN [l EXCEPT !.db = @ \union {w}]
                         ELSE [l EXCEPT !.pending = @ \union {w}, !.open = TRUE]
BY QueriesDiffer DEF Sql!Applied, Sql!Control

\* The other queries.
LEMMA AppliedControl ==
  ASSUME NEW l \in Links
  PROVE  /\ Sql!Applied(<<"autocommit">>, l) = [l EXCEPT !.auto = FALSE]
         /\ Sql!Applied(<<"begin">>, l) =
              [l EXCEPT !.db = @ \union l.pending, !.pending = {}, !.open = TRUE]
         /\ Sql!Applied(<<"commit">>, l) =
              [l EXCEPT !.db = @ \union l.pending, !.pending = {}, !.open = FALSE]
         /\ Sql!Applied(<<"rollback">>, l) = [l EXCEPT !.pending = {}, !.open = FALSE]
         /\ Sql!Applied(<<"select">>, l) = [l EXCEPT !.open = @ \/ ~l.auto]
BY QueriesDiffer DEF Sql!Applied

\* What a write does to the committed and the pending writes.
LEMMA WriteEffect ==
  ASSUME NEW l \in Links, NEW w \in Writes
  PROVE  \/ /\ ~l.open
            /\ Sql!Applied(w, l).db = l.db \union {w} /\ Sql!Applied(w, l).pending = l.pending
         \/ /\ Sql!Applied(w, l).db = l.db /\ Sql!Applied(w, l).pending = l.pending \union {w}
            /\ Sql!Applied(w, l).open
<1>1. CASE l.auto /\ ~l.open
  <2>1. Sql!Applied(w, l) = [l EXCEPT !.db = @ \union {w}]
    BY <1>1, AppliedWrite
  <2> QED
    BY <1>1, <2>1 DEF Links
<1>2. CASE ~(l.auto /\ ~l.open)
  <2>1. Sql!Applied(w, l) = [l EXCEPT !.pending = @ \union {w}, !.open = TRUE]
    BY <1>2, AppliedWrite
  <2> QED
    BY <2>1 DEF Links
<1> QED
  BY <1>1, <1>2

\* What the other queries do to them.
LEMMA ControlEffect ==
  ASSUME NEW l \in Links
  PROVE  /\ \A q \in {<<"autocommit">>, <<"select">>} :
              Sql!Applied(q, l).db = l.db /\ Sql!Applied(q, l).pending = l.pending
         /\ \A q \in {<<"begin">>, <<"commit">>} :
              Sql!Applied(q, l).db = l.db \union l.pending /\ Sql!Applied(q, l).pending = {}
         /\ Sql!Applied(<<"begin">>, l).open
         /\ Sql!Applied(<<"rollback">>, l).db = l.db
         /\ Sql!Applied(<<"rollback">>, l).pending = {}
<1>1. /\ [l EXCEPT !.auto = FALSE].db = l.db
      /\ [l EXCEPT !.auto = FALSE].pending = l.pending
      /\ [l EXCEPT !.open = @ \/ ~l.auto].db = l.db
      /\ [l EXCEPT !.open = @ \/ ~l.auto].pending = l.pending
  BY DEF Links
<1>2. \A o \in BOOLEAN :
        LET d == [l EXCEPT !.db = @ \union l.pending, !.pending = {}, !.open = o]
        IN  d.db = l.db \union l.pending /\ d.pending = {} /\ d.open = o
  BY DEF Links
<1>3. LET d == [l EXCEPT !.pending = {}, !.open = FALSE]
      IN  d.db = l.db /\ d.pending = {}
  BY DEF Links
<1>4. \A q \in {<<"autocommit">>, <<"select">>} :
        Sql!Applied(q, l).db = l.db /\ Sql!Applied(q, l).pending = l.pending
  BY <1>1, AppliedControl, Zenon
<1>5. \A q \in {<<"begin">>, <<"commit">>} :
        Sql!Applied(q, l).db = l.db \union l.pending /\ Sql!Applied(q, l).pending = {}
  BY <1>2, AppliedControl, Zenon
<1>6. Sql!Applied(<<"begin">>, l).open
  BY <1>2, AppliedControl, Zenon
<1>7. Sql!Applied(<<"rollback">>, l).db = l.db /\ Sql!Applied(<<"rollback">>, l).pending = {}
  BY <1>3, AppliedControl, Zenon
<1> QED
  BY <1>4, <1>5, <1>6, <1>7

Queries == Writes \union Sql!Control \union {<<"select">>}

\* A link whose server is gone has nothing pending.
Sound(l) == l \in Links /\ (l.alive => l.vio) /\ (~l.alive => l.pending = {})

\* The session that a query on l can be executed in: the one there is, or one
\* that the query itself has started outside a transaction.
Serves(m, l) ==
  \/ m = l /\ l.vio /\ l.alive
  \/ m = Sql!NewSession(l) /\ ~(l.vio /\ l.alive) /\ ~l.inTrans

\* Whatever is applied to a link in use leaves one.
LEMMA AppliedSound ==
  ASSUME NEW l \in Links, NEW q \in Queries
  PROVE  /\ Sql!Applied(q, l) \in Links
         /\ Sql!Applied(q, l).vio = l.vio /\ Sql!Applied(q, l).alive = l.alive
<1> DEFINE Alike(d) == d \in Links /\ d.vio = l.vio /\ d.alive = l.alive
<1>1. ASSUME NEW w \in Writes
      PROVE  /\ Alike([l EXCEPT !.db = @ \union {w}])
             /\ Alike([l EXCEPT !.pending = @ \union {w}, !.open = TRUE])
  BY DEF Links
<1>2. /\ Alike([l EXCEPT !.auto = FALSE])
      /\ Alike([l EXCEPT !.pending = {}, !.open = FALSE])
  BY DEF Links
<1>3. /\ Alike([l EXCEPT !.db = @ \union l.pending, !.pending = {}, !.open = TRUE])
      /\ Alike([l EXCEPT !.db = @ \union l.pending, !.pending = {}, !.open = FALSE])
  BY DEF Links
<1>4. Alike([l EXCEPT !.open = @ \/ ~l.auto])
  <2>1. (l.open \/ ~l.auto) \in BOOLEAN
    OBVIOUS
  <2> QED
    BY <2>1 DEF Links
<1> HIDE DEF Alike
<1>5. ASSUME q \in Writes PROVE Alike(Sql!Applied(q, l))
  BY <1>1, <1>5, AppliedWrite
<1>6. ASSUME q = <<"select">> \/ q \in Sql!Control PROVE Alike(Sql!Applied(q, l))
  BY <1>2, <1>3, <1>4, <1>6, AppliedControl, Zenon DEF Sql!Control
<1>7. Alike(Sql!Applied(q, l))
  BY <1>5, <1>6 DEF Queries
<1> QED
  BY <1>7 DEF Alike

\* A query that is answered has been done; one that is lost, before or after it
\* was done, leaves nothing pending; one that is refused has changed nothing.
Outcome(q, l, r) ==
  \/ r.err # "ok" /\ r.link.db = l.db /\ r.link.pending = {}
  \/ \E m \in Links : Serves(m, l) /\
       \/ /\ r.err = "ok" /\ r.link.vio /\ r.link.alive
          /\ r.link.db = Sql!Applied(q, m).db /\ r.link.pending = Sql!Applied(q, m).pending
          /\ r.link.open = Sql!Applied(q, m).open /\ r.link.inTrans = Sql!Applied(q, m).open
       \/ /\ r.err = "lost"
          /\ r.link.db = Sql!Applied(q, m).db /\ r.link.pending = {}
       \/ r.err = "refused" /\ q \notin Sql!Control /\ r.link = m

\* The answers of a session that serves the query.
LEMMA AnswerOutcome ==
  ASSUME NEW l \in Links, NEW q \in Queries, NEW m \in Links, Serves(m, l),
         m.vio, m.alive, m.db = l.db, NEW r \in Sql!Answers(q, m)
  PROVE  Sound(r.link) /\ Outcome(q, l, r)
<1> DEFINE d == Sql!Applied(q, m)
<1>1. d \in Links /\ d.vio /\ d.alive
  BY AppliedSound
<1>2. CASE r = [err |-> "refused", link |-> m] /\ q \notin Sql!Control
  BY <1>2 DEF Sound, Outcome
<1> HIDE DEF d
<1>3. CASE r = [err |-> "ok", link |-> [d EXCEPT !.inTrans = d.open]]
  <2>1. /\ r.link \in Links /\ r.link.vio /\ r.link.alive
        /\ r.link.db = d.db /\ r.link.pending = d.pending
        /\ r.link.open = d.open /\ r.link.inTrans = d.open /\ r.err = "ok"
    BY <1>1, <1>3 DEF Links
  <2> QED
    BY <2>1 DEF Sound, Outcome, d
<1>4. CASE r = [err |-> "lost", link |-> [Sql!Broken(d) EXCEPT !.inTrans = m.inTrans]]
  <2>1. /\ Sql!Broken(d) \in Links /\ Sql!Broken(d).db = d.db /\ Sql!Broken(d).pending = {}
        /\ ~Sql!Broken(d).alive
    BY <1>1, BrokenFacts
  <2>2. /\ r.link \in Links /\ ~r.link.alive
        /\ r.link.db = d.db /\ r.link.pending = {} /\ r.err = "lost"
    BY <1>4, <2>1 DEF Links
  <2> QED
    BY <2>2 DEF Sound, Outcome, d
<1>5. CASE r = [err |-> "lost", link |-> Sql!Broken(m)]
  <2>1. r.link \in Links /\ ~r.link.alive
        /\ r.link.db = l.db /\ r.link.pending = {} /\ r.err = "lost"
    BY <1>5, BrokenFacts
  <2> QED
    BY <2>1 DEF Sound, Outcome
<1> QED
  BY <1>2, <1>3, <1>4, <1>5 DEF Sql!Answers, d

\* The answers that any query can get.
LEMMA QueryOutcome ==
  ASSUME NEW l, Sound(l), NEW q \in Queries, NEW r \in Sql!Query(q, l)
  PROVE  Sound(r.link) /\ Outcome(q, l, r)
<1>1. l \in Links
  BY DEF Sound
<1>2. CASE r \in Sql!Answers(q, l) /\ l.vio /\ l.alive
  BY <1>1, <1>2, AnswerOutcome DEF Serves
<1>3. CASE r \in Sql!Answers(q, Sql!NewSession(l)) /\ ~(l.vio /\ l.alive) /\ ~l.inTrans
  <2>1. Serves(Sql!NewSession(l), l)
    BY <1>3 DEF Serves
  <2> QED
    BY <1>1, <1>3, <2>1, NewSessionFacts, AnswerOutcome
<1>4. CASE r = [err |-> "lost", link |-> Sql!Broken(l)]
  BY <1>1, <1>4, BrokenFacts DEF Sound, Outcome
<1>5. CASE r = [err |-> "gone", link |-> [Sql!Broken(l) EXCEPT !.inTrans = FALSE]]
  <2>1. /\ r.link \in Links /\ r.link.db = l.db /\ r.link.pending = {}
        /\ ~r.link.alive /\ r.err = "gone"
    BY <1>1, <1>5, BrokenFacts DEF Links
  <2> QED
    BY <2>1 DEF Sound, Outcome
<1> QED
  BY <1>2, <1>3, <1>4, <1>5 DEF Sql!Query

-----------------------------------------------------------------------------
(* Transactions. *)

\* The statements of call t that are in a set of writes.
Of(t, writes) == { i \in 1..Size : <<t, i>> \in writes }

\* Only the call under way can have statements pending, and those it has sent;
\* none of its statements is committed before its commit. A session that serves
\* it must still be in its transaction.
CallUnderWay ==
  LET sent == Of(calls, link.pending)
  IN  \/ job.at = "idle" /\ sent = {}
      \/ job.at \in {"autocommit", "begin"} /\ sent = {} /\ Of(calls, link.db) = {}
      \/ /\ job.at = "statement" /\ Of(calls, link.db) = {} /\ link.vio /\ link.inTrans
         /\ job.i \in 1..Size
         /\ link.alive => link.open /\ sent = 1..(job.i - 1)
      \/ /\ job.at = "commit" /\ Of(calls, link.db) = {} /\ link.vio /\ link.inTrans
         /\ link.alive => sent = 1..Size
      \/ job.at = "rollback" /\ Of(calls, link.db) = {}

\* The committed calls are whole, and those reported as done are committed.
Committed ==
  /\ \A t \in Nat : Of(t, link.db) \in {{}, 1..Size}
  /\ \A t \in Nat : t > calls => Of(t, link.db) = {}
  /\ \A t \in Nat : <<"transaction", t>> \in told => Of(t, link.db) = 1..Size
  /\ \A t \in Nat : t # calls => Of(t, link.pending) = {}

SqlInv == calls \in Nat /\ Sound(link) /\ CallUnderWay /\ Committed

\* The statements in a union of sets of writes.
LEMMA OfFacts ==
  /\ \A t : Of(t, {}) = {}
  /\ \A t, v, w : Of(t, v \union w) = Of(t, v) \union Of(t, w)
  /\ \A t, c \in Nat : t # c => \A i \in Nat : Of(t, {<<c, i>>}) = {}
  /\ \A c \in Nat : Of(c, {<<c, 0>>}) = {}
  /\ \A c \in Nat, i \in 1..Size : Of(c, {<<c, i>>}) = {i}
<1>1. \A t, c, i, j : <<t, j>> = <<c, i>> <=> t = c /\ j = i
  OBVIOUS
<1>2. 0 \notin 1..Size
  OBVIOUS
<1> QED
  BY <1>1, <1>2 DEF Of

\* A call between transactions: it commits nothing of one and leaves none open.
Untouched ==
  /\ Sound(link')
  /\ \A t \in Nat : Of(t, link'.db) = Of(t, link.db) /\ Of(t, link'.pending) = {}

LEMMA UntouchedKeeps ==
  ASSUME SqlInv, Untouched, job.at = "idle", job' = job, calls' \in {calls, calls + 1},
         \A t : <<"transaction", t>> \in told' => <<"transaction", t>> \in told
  PROVE  SqlInv'
<1>1. calls' \in Nat /\ \A t \in Nat : t > calls' => t > calls
  BY DEF SqlInv
<1>2. CallUnderWay'
  BY <1>1 DEF CallUnderWay, Untouched
<1>3. Committed'
  BY <1>1 DEF SqlInv, Committed, Untouched
<1> QED
  BY <1>1, <1>2, <1>3 DEF SqlInv, Untouched

\* When nothing is pending, a write outside transactions touches none.
LEMMA SingleQuery ==
  ASSUME SqlInv, \A t \in Nat : Of(t, link.pending) = {},
         NEW q \in {<<"select">>, <<"autocommit">>, <<"begin">>, <<calls, 0>>},
         NEW r \in Sql!Query(q, link)
  PROVE  /\ Sound(r.link)
         /\ \A t \in Nat : Of(t, r.link.db) = Of(t, link.db)
         /\ \A t \in Nat : Of(t, r.link.pending) = {}
<1>1. q \in Queries /\ Sound(link)
  BY DEF Queries, Sql!Control, Writes, SqlInv
<1>2. Sound(r.link) /\ Outcome(q, link, r)
  BY <1>1, QueryOutcome
<1>3. ASSUME NEW m \in Links, Serves(m, link), NEW t \in Nat
      PROVE  /\ Of(t, m.db) = Of(t, link.db) /\ Of(t, m.pending) = {}
             /\ Of(t, Sql!Applied(q, m).db) = Of(t, link.db)
             /\ Of(t, Sql!Applied(q, m).pending) = {}
  <2>1. Of(t, m.db) = Of(t, link.db) /\ Of(t, m.pending) = {}
    BY <1>1, <1>3, NewSessionFacts, OfFacts DEF Serves, Sound
  <2>2. CASE q = <<calls, 0>>
    <3>1. calls \in Nat /\ <<calls, 0>> \in Writes
      BY DEF SqlInv, Writes
    <3>2. Of(t, {<<calls, 0>>}) = {}
      BY <3>1, OfFacts
    <3>3. \/ Sql!Applied(q, m).db = m.db \/ Sql!Applied(q, m).db = m.db \union {q}
      BY <2>2, <3>1, WriteEffect, Zenon
    <3>4. \/ Sql!Applied(q, m).pending = m.pending
          \/ Sql!Applied(q, m).pending = m.pending \union {q}
      BY <2>2, <3>1, WriteEffect, Zenon
    <3>5. /\ Of(t, m.db \union {q}) = Of(t, link.db)
          /\ Of(t, m.pending \union {q}) = {}
      <4>1. /\ Of(t, m.db \union {q}) = Of(t, m.db) \union Of(t, {q})
            /\ Of(t, m.pending \union {q}) = Of(t, m.pending) \union Of(t, {q})
        BY DEF Of
      <4>2. Of(t, {q}) = {}
        BY <2>2, <3>2, Zenon
      <4> QED
        BY <2>1, <4>1, <4>2
    <3> QED
      BY <2>1, <3>3, <3>4, <3>5, Zenon
  <2>3. CASE q \in {<<"select">>, <<"autocommit">>}
    BY <2>1, <2>3, ControlEffect, Zenon
  <2>4. CASE q = <<"begin">>
    <3>1. Sql!Applied(q, m).db = m.db \union m.pending /\ Sql!Applied(q, m).pending = {}
      BY <2>4, ControlEffect, Zenon
    <3>2. Of(t, m.db \union m.pending) = Of(t, link.db) /\ Of(t, {}) = {}
      <4>1. Of(t, m.db \union m.pending) = Of(t, m.db) \union Of(t, m.pending)
        BY DEF Of
      <4>2. Of(t, {}) = {}
        BY OfFacts, Zenon
      <4> QED
        BY <2>1, <4>1, <4>2
    <3> QED
      BY <2>1, <3>1, <3>2, Zenon
  <2> QED
    BY <2>1, <2>2, <2>3, <2>4, Zenon
<1>4. ASSUME NEW t \in Nat
      PROVE  Of(t, r.link.db) = Of(t, link.db) /\ Of(t, r.link.pending) = {}
  <2>1. Of(t, {}) = {}
    BY OfFacts
  <2> QED
    BY <1>2, <1>3, <2>1, Zenon DEF Outcome
<1> QED
  BY <1>2, <1>4

-----------------------------------------------------------------------------
(* The calls. *)

\* Between calls no statement of a transaction is pending.
LEMMA IdleClean ==
  ASSUME SqlInv, job.at = "idle"
  PROVE  \A t \in Nat : Of(t, link.pending) = {}
<1>1. Of(calls, link.pending) = {}
  BY DEF SqlInv, CallUnderWay
<1> QED
  BY <1>1 DEF SqlInv, Committed

\* Reconnecting, with whatever result, leaves nothing pending.
LEMMA ReconnectFacts ==
  ASSUME NEW l \in Links, NEW n \in Sql!Reconnect(l)
  PROVE  Sound(n) /\ n.db = l.db /\ n.pending = {}
BY NewSessionFacts, BrokenFacts DEF Sql!Reconnect, Sound

\* The calls outside transactions.
LEMMA OtherCalls ==
  ASSUME SqlInv, Sql!Delete \/ Sql!InitConnection \/ Sql!Execute \/ Sql!ExecuteRecords \/ Sql!Close
  PROVE  SqlInv'
<1>1. job.at = "idle" /\ job' = job /\ calls' = calls + 1
  BY DEF Sql!Delete, Sql!InitConnection, Sql!Execute, Sql!ExecuteRecords, Sql!Close, Sql!Misuse, Sql!Called
<1>2. \A t \in Nat : Of(t, link.pending) = {}
  BY <1>1, IdleClean
<1>3. Sound(link) /\ link \in Links
  BY DEF SqlInv, Sound
<1>4. \A t : Of(t, {}) = {}
  BY OfFacts, Zenon
<1>5. \A t : <<"transaction", t>> \in told' => <<"transaction", t>> \in told
  <2>1. \A t, c : <<"transaction", t>> # <<"execute", c>>
    OBVIOUS
  <2>2. \A t, c : <<"transaction", t>> # <<"select", c>>
    OBVIOUS
  <2> QED
    BY <2>1, <2>2
       DEF Sql!Delete, Sql!InitConnection, Sql!Execute, Sql!ExecuteRecords, Sql!Close, Sql!Misuse
<1>6. ASSUME Sql!Delete \/ Sql!Close PROVE Untouched
  <2>1. link' = Sql!Broken(link)
    BY <1>6 DEF Sql!Delete, Sql!Close
  <2>2. Sound(link') /\ link'.db = link.db /\ link'.pending = {}
    BY <1>3, <2>1, BrokenFacts DEF Sound
  <2> QED
    BY <1>4, <2>2, Zenon DEF Untouched
<1>7. ASSUME Sql!InitConnection PROVE Untouched
  <2>1. ASSUME link' = [Sql!NewSession(link) EXCEPT !.reconnect = TRUE] PROVE Untouched
    <3>1. link' \in Links /\ link'.vio /\ link'.alive
          /\ link'.db = link.db /\ link'.pending = {}
      BY <1>3, <2>1, NewSessionFacts DEF Links
    <3> QED
      BY <1>4, <3>1 DEF Untouched, Sound
  <2>2. ASSUME link' = [Sql!Broken(link) EXCEPT !.reconnect = FALSE, !.inTrans = FALSE]
       PROVE  Untouched
    <3>1. link' \in Links /\ ~link'.alive /\ link'.db = link.db /\ link'.pending = {}
      BY <1>3, <2>2, BrokenFacts DEF Links
    <3> QED
      BY <1>4, <3>1 DEF Untouched, Sound
  <2> QED
    BY <1>7, <2>1, <2>2 DEF Sql!InitConnection
<1>8. ASSUME Sql!Misuse PROVE Untouched
  BY <1>2, <1>3, <1>8, Zenon DEF Sql!Misuse, Untouched
<1>9. ASSUME (Sql!Execute /\ ~Sql!Misuse) \/ Sql!ExecuteRecords PROVE Untouched
  <2>1. PICK q \in {<<"select">>, <<calls, 0>>} : \E r \in Sql!Query(q, link) :
          link' \in IF r.err = "gone" THEN Sql!Reconnect(r.link) ELSE {r.link}
    BY <1>9 DEF Sql!Execute, Sql!ExecuteRecords
  <2>2. PICK r \in Sql!Query(q, link) :
          link' \in IF r.err = "gone" THEN Sql!Reconnect(r.link) ELSE {r.link}
    BY <2>1
  <2>3. /\ Sound(r.link)
        /\ \A t \in Nat : Of(t, r.link.db) = Of(t, link.db)
        /\ \A t \in Nat : Of(t, r.link.pending) = {}
    BY <1>2, SingleQuery
  <2>4. ASSUME link' = r.link PROVE Untouched
    BY <2>3, <2>4, Zenon DEF Untouched
  <2>5. ASSUME link' \in Sql!Reconnect(r.link) PROVE Untouched
    <3>1. Sound(link') /\ link'.db = r.link.db /\ link'.pending = {}
      BY <2>3, <2>5, ReconnectFacts DEF Sound
    <3> QED
      BY <1>4, <2>3, <3>1, Zenon DEF Untouched
  <2> QED
    BY <2>2, <2>4, <2>5
<1> QED
  BY <1>1, <1>5, <1>6, <1>7, <1>8, <1>9, UntouchedKeeps DEF Sql!Execute

\* A lost session takes what is pending with it.
LEMMA DropStep == ASSUME SqlInv, Sql!ServerDrops PROVE SqlInv'
<1>1. link \in Links /\ link' = Sql!Dropped(link) /\ UNCHANGED <<job, calls, told>>
  BY DEF Sql!ServerDrops, SqlInv, Sound
<1>2. /\ link'.db = link.db /\ link'.pending = {} /\ ~link'.alive /\ link' \in Links
      /\ link'.inTrans <=> link.inTrans
      /\ link'.vio <=> link.vio
  <2>1. link \in Links /\ link' = [link EXCEPT !.alive = FALSE, !.open = FALSE, !.pending = {}]
    BY <1>1 DEF Sql!Dropped
  <2>2. link'.db = link.db /\ link'.pending = {}
    BY <2>1 DEF Links
  <2>3. link' \in Links
    BY <2>1 DEF Links
  <2>4. ~link'.alive
    BY <2>1 DEF Links
  <2>5. link'.inTrans = link.inTrans
    BY <2>1 DEF Links
  <2>6. link'.vio = link.vio
    BY <2>1 DEF Links
  <2> QED
    BY <2>2, <2>3, <2>4, <2>5, <2>6, Zenon
<1>3. \A t : Of(t, link'.pending) = {}
  BY <1>2, OfFacts, Zenon
<1>4. Sound(link')
  BY <1>2 DEF Sound
<1>5. CallUnderWay'
  BY <1>1, <1>2, <1>3, Zenon DEF SqlInv, CallUnderWay
<1>6. Committed'
  BY <1>1, <1>2, <1>3, Zenon DEF SqlInv, Committed
<1> QED
  BY <1>1, <1>4, <1>5, <1>6 DEF SqlInv

-----------------------------------------------------------------------------
(* The steps of Transaction. *)

\* A transaction starts with a call that has sent nothing.
LEMMA BeginStep == ASSUME SqlInv, Sql!Begin PROVE SqlInv'
<1>1. /\ job.at = "idle" /\ job'.at = "autocommit" /\ calls' = calls + 1
      /\ UNCHANGED <<link, told>>
  BY DEF Sql!Begin, Sql!Called
<1>2. calls' \in Nat /\ calls' > calls /\ \A t \in Nat : t > calls' => t > calls
  BY <1>1 DEF SqlInv
<1>3. \A t \in Nat : Of(t, link.pending) = {}
  BY <1>1, IdleClean
<1>4. CallUnderWay'
  BY <1>1, <1>2, <1>3 DEF SqlInv, Committed, CallUnderWay
<1>5. Committed'
  BY <1>1, <1>2, <1>3 DEF SqlInv, Committed
<1> QED
  BY <1>1, <1>2, <1>4, <1>5 DEF SqlInv

\* autocommit and begin commit nothing of the call, and leave it nothing to
\* undo if they fail.
LEMMA AutocommitStep ==
  ASSUME SqlInv, job.at = "autocommit",
         Sql!Step(<<"autocommit">>, [at |-> "begin", i |-> 0], Sql!Idle)
  PROVE  SqlInv'
<1>1. PICK r \in Sql!Query(<<"autocommit">>, link) :
        /\ link' = r.link /\ UNCHANGED <<calls, told>>
        /\ job' \in {[at |-> "begin", i |-> 0], Sql!Idle}
  <2>1. <<"autocommit">> # <<"commit">>
    BY QueriesDiffer, Zenon
  <2> QED
    BY <2>1 DEF Sql!Step
<1>2. Of(calls, link.pending) = {} /\ Of(calls, link.db) = {}
  BY DEF SqlInv, CallUnderWay
<1>3. \A t \in Nat : Of(t, link.pending) = {}
  BY <1>2 DEF SqlInv, Committed
<1>4. /\ Sound(r.link)
      /\ \A t \in Nat : Of(t, r.link.db) = Of(t, link.db)
      /\ \A t \in Nat : Of(t, r.link.pending) = {}
  BY <1>3, SingleQuery
<1>5. calls \in Nat
  BY DEF SqlInv
<1>6. job'.at \in {"begin", "idle"}
  BY <1>1 DEF Sql!Idle
<1>7. CallUnderWay'
  BY <1>1, <1>2, <1>4, <1>5, <1>6 DEF CallUnderWay
<1>8. Committed'
  BY <1>1, <1>4 DEF SqlInv, Committed
<1> QED
  BY <1>1, <1>4, <1>5, <1>7, <1>8 DEF SqlInv

LEMMA BeginQueryStep ==
  ASSUME Size \in Nat \ {0}, SqlInv, job.at = "begin",
         Sql!Step(<<"begin">>, [at |-> "statement", i |-> 1], Sql!Idle)
  PROVE  SqlInv'
<1>1. PICK r \in Sql!Query(<<"begin">>, link) :
        /\ link' = r.link /\ UNCHANGED <<calls, told>>
        /\ job' = IF r.err = "ok" THEN [at |-> "statement", i |-> 1] ELSE Sql!Idle
  <2>1. <<"begin">> # <<"commit">>
    BY QueriesDiffer, Zenon
  <2> QED
    BY <2>1 DEF Sql!Step
<1>2. Of(calls, link.pending) = {} /\ Of(calls, link.db) = {} /\ calls \in Nat
  BY DEF SqlInv, CallUnderWay
<1>3. \A t \in Nat : Of(t, link.pending) = {}
  BY <1>2 DEF SqlInv, Committed
<1>4. /\ Sound(r.link)
      /\ \A t \in Nat : Of(t, r.link.db) = Of(t, link.db)
      /\ \A t \in Nat : Of(t, r.link.pending) = {}
  BY <1>3, SingleQuery
<1>5. ASSUME r.err = "ok" PROVE r.link.vio /\ r.link.inTrans /\ r.link.open
  <2>1. Outcome(<<"begin">>, link, r)
    BY QueryOutcome DEF Queries, Sql!Control, SqlInv
  <2> QED
    BY <1>5, <2>1, ControlEffect DEF Outcome
<1>6. CallUnderWay'
  <2>1. CASE r.err = "ok"
    <3>1. job'.at = "statement" /\ job'.i = 1 /\ 1 \in 1..Size /\ 1..(1 - 1) = {}
      BY <1>1, <2>1
    <3>2. Of(calls, link'.pending) = {} /\ Of(calls, link'.db) = {} /\ calls' = calls
      BY <1>1, <1>2, <1>4
    <3> QED
      BY <1>1, <1>5, <2>1, <3>1, <3>2, Zenon DEF CallUnderWay
  <2>2. CASE r.err # "ok"
    <3>1. job'.at = "idle" /\ Of(calls, link'.pending) = {} /\ calls' = calls
      BY <1>1, <1>2, <1>4, <2>2 DEF Sql!Idle
    <3> QED
      BY <3>1, Zenon DEF CallUnderWay
  <2> QED
    BY <2>1, <2>2
<1>7. Committed'
  BY <1>1, <1>4 DEF SqlInv, Committed
<1> QED
  BY <1>1, <1>2, <1>4, <1>6, <1>7 DEF SqlInv

\* A session that serves a query within a transaction is the one it began in.
LEMMA SameSession ==
  ASSUME SqlInv, link.vio, link.inTrans, NEW m \in Links, Serves(m, link)
  PROVE  m = link /\ link.alive
BY NewSessionFacts DEF Serves, SqlInv, Sound

\* A statement is pending when it succeeds, and nothing is committed.
LEMMA StatementStep ==
  ASSUME Size \in Nat \ {0}, SqlInv, job.at = "statement", Sql!Statement
  PROVE  SqlInv'
<1> DEFINE w == <<calls, job.i>>
<1>1. /\ link \in Links /\ Sound(link) /\ Of(calls, link.db) = {}
      /\ link.vio /\ link.inTrans /\ job.i \in 1..Size /\ calls \in Nat
  BY DEF SqlInv, Sound, CallUnderWay
<1>2. link.alive => link.open /\ Of(calls, link.pending) = 1..(job.i - 1)
  BY DEF SqlInv, CallUnderWay
<1>3. w \in Writes /\ w \in Queries
  BY <1>1 DEF Writes, Queries
<1>4. PICK r \in Sql!Query(w, link) :
        /\ link' = r.link /\ UNCHANGED <<calls, told>>
        /\ job' = IF r.err = "ok" THEN Sql!NextStatement ELSE [at |-> "rollback", i |-> 0]
  <2>1. w # <<"commit">>
    BY <1>3, QueriesDiffer, Zenon DEF Sql!Control
  <2> QED
    BY <2>1 DEF Sql!Statement, Sql!Step
<1> HIDE DEF w
<1>5. Sound(r.link) /\ Outcome(w, link, r)
  BY <1>1, <1>3, QueryOutcome
<1>6. /\ link'.db = link.db
      /\ \/ r.err # "ok" /\ link'.pending \in {{}, link.pending}
         \/ /\ r.err = "ok" /\ link'.vio /\ link'.inTrans /\ link'.open
            /\ link'.pending = link.pending \union {w} /\ link.alive
  <2>1. ASSUME NEW m \in Links, Serves(m, link)
        PROVE  /\ m = link /\ link.alive
               /\ Sql!Applied(w, m).db = link.db /\ Sql!Applied(w, m).open
               /\ Sql!Applied(w, m).pending = link.pending \union {w}
    <3>1. m = link /\ link.alive
      BY <1>1, <2>1, SameSession
    <3>2. link.open
      BY <1>2, <3>1
    <3> QED
      BY <1>3, <3>1, <3>2, WriteEffect
  <2> QED
    BY <1>4, <1>5, <2>1 DEF Outcome
<1>7. \A t \in Nat : t # calls => Of(t, link'.pending) = {}
  <2>1. \A t \in Nat : t # calls => Of(t, {w}) = {}
    <3>1. job.i \in Nat
      BY <1>1
    <3> QED
      BY <1>1, <3>1, OfFacts DEF w
  <2>2. \A t : /\ Of(t, link.pending \union {w}) = Of(t, link.pending) \union Of(t, {w})
               /\ Of(t, {}) = {}
    BY DEF Of
  <2> QED
    BY <1>6, <2>1, <2>2 DEF SqlInv, Committed
<1>8. CallUnderWay'
  <2>1. CASE r.err = "ok"
    <3>1. Of(calls, link'.pending) = 1..job.i
      <4>1. Of(calls, {w}) = {job.i}
        BY <1>1, OfFacts DEF w
      <4>2. Of(calls, link'.pending) = Of(calls, link.pending) \union Of(calls, {w})
        BY <1>6, <2>1 DEF Of
      <4>3. 1..job.i = 1..(job.i - 1) \union {job.i}
        BY <1>1
      <4> QED
        BY <1>2, <1>6, <2>1, <4>1, <4>2, <4>3
    <3>2. /\ link'.vio /\ link'.inTrans /\ link'.open
          /\ Of(calls', link'.db) = {} /\ calls' = calls
      BY <1>1, <1>4, <1>6, <2>1
    <3>3. CASE job.i = Size
      <4>1. job'.at = "commit" /\ Of(calls', link'.pending) = 1..Size
        BY <1>4, <2>1, <3>1, <3>2, <3>3 DEF Sql!NextStatement
      <4> QED
        BY <3>2, <4>1, Zenon DEF CallUnderWay
    <3>4. CASE job.i # Size
      <4>1. /\ job'.at = "statement" /\ job'.i = job.i + 1 /\ job'.i \in 1..Size
            /\ job'.i - 1 = job.i
        BY <1>1, <1>4, <2>1, <3>4 DEF Sql!NextStatement
      <4>2. Of(calls', link'.pending) = 1..(job'.i - 1)
        BY <3>1, <3>2, <4>1
      <4> QED
        BY <3>2, <4>1, <4>2, Zenon DEF CallUnderWay
    <3> QED
      BY <3>3, <3>4
  <2>2. CASE r.err # "ok"
    <3>1. job'.at = "rollback" /\ Of(calls', link'.db) = {}
      BY <1>1, <1>4, <1>6, <2>2
    <3> QED
      BY <3>1, Zenon DEF CallUnderWay
  <2> QED
    BY <2>1, <2>2
<1>9. Committed'
  BY <1>4, <1>6, <1>7 DEF SqlInv, Committed
<1> QED
  BY <1>1, <1>4, <1>5, <1>8, <1>9 DEF SqlInv

\* After a rollback nothing is pending, whether it was done or the session lost.
LEMMA RollbackStep ==
  ASSUME SqlInv, job.at = "rollback", Sql!Step(<<"rollback">>, Sql!Idle, Sql!Idle)
  PROVE  SqlInv'
<1>1. PICK r \in Sql!Query(<<"rollback">>, link) :
        link' = r.link /\ job' = Sql!Idle /\ UNCHANGED <<calls, told>>
  <2>1. <<"rollback">> # <<"commit">>
    BY QueriesDiffer, Zenon
  <2> QED
    BY <2>1 DEF Sql!Step
<1>2. Sound(r.link) /\ Outcome(<<"rollback">>, link, r) /\ link \in Links
  BY QueryOutcome DEF Queries, Sql!Control, SqlInv, Sound
<1>3. link'.db = link.db /\ link'.pending = {}
  <2>1. \A m \in Links : Serves(m, link) => m.db = link.db
    BY <1>2, NewSessionFacts DEF Serves
  <2> QED
    BY <1>1, <1>2, <2>1, ControlEffect DEF Outcome, Sql!Control
<1>4. \A t : Of(t, {}) = {}
  BY DEF Of
<1>5. CallUnderWay'
  BY <1>1, <1>3, <1>4 DEF CallUnderWay, Sql!Idle
<1>6. Committed'
  BY <1>1, <1>3, <1>4 DEF SqlInv, Committed
<1> QED
  BY <1>1, <1>2, <1>5, <1>6 DEF SqlInv

\* A commit that is done commits all statements, even when its answer is lost.
LEMMA CommitStep ==
  ASSUME SqlInv, job.at = "commit", Sql!Step(<<"commit">>, Sql!Idle, Sql!Idle)
  PROVE  SqlInv'
<1>1. PICK r \in Sql!Query(<<"commit">>, link) :
        /\ link' = r.link /\ job' = Sql!Idle /\ calls' = calls
        /\ told' = IF r.err = "ok" THEN told \union {<<"transaction", calls>>} ELSE told
  BY DEF Sql!Step
<1>2. Sound(r.link) /\ Outcome(<<"commit">>, link, r)
  BY QueryOutcome DEF Queries, Sql!Control, SqlInv
<1>3. /\ link.vio /\ link.inTrans /\ Of(calls, link.db) = {} /\ calls \in Nat
      /\ link.alive => Of(calls, link.pending) = 1..Size
  BY DEF SqlInv, CallUnderWay
<1>4. /\ link'.pending = {}
      /\ \/ r.err # "ok" /\ link'.db = link.db
         \/ link.alive /\ link'.db = link.db \union link.pending
  <2>1. \A m \in Links : Serves(m, link) => m = link /\ link.alive
    BY <1>3, SameSession
  <2> QED
    BY <1>1, <1>2, <2>1, ControlEffect DEF Outcome, Sql!Control
<1>5. \A t : /\ Of(t, {}) = {}
             /\ Of(t, link.db \union link.pending) = Of(t, link.db) \union Of(t, link.pending)
  BY DEF Of
<1>6. \A t \in Nat : t # calls => Of(t, link'.db) = Of(t, link.db)
  BY <1>4, <1>5 DEF SqlInv, Committed
<1>7. \/ r.err # "ok" /\ Of(calls, link'.db) = {}
      \/ Of(calls, link'.db) = 1..Size
  BY <1>3, <1>4, <1>5
<1>8. CallUnderWay'
  BY <1>1, <1>4, <1>5 DEF CallUnderWay, Sql!Idle
<1>9. Committed'
  <2>1. \A t \in Nat : Of(t, link'.db) \in {{}, 1..Size}
    BY <1>6, <1>7 DEF SqlInv, Committed
  <2>2. \A t \in Nat : t > calls => Of(t, link'.db) = {}
    BY <1>3, <1>6 DEF SqlInv, Committed
  <2>3. \A t \in Nat : <<"transaction", t>> \in told' => Of(t, link'.db) = 1..Size
    <3> SUFFICES ASSUME NEW t \in Nat, <<"transaction", t>> \in told'
                 PROVE  Of(t, link'.db) = 1..Size
      OBVIOUS
    <3>1. CASE <<"transaction", t>> \in told
      <4>1. Of(t, link.db) = 1..Size
        BY <3>1 DEF SqlInv, Committed
      <4>2. t # calls \/ Of(calls, link'.db) = 1..Size
        BY <1>3, <1>7, <4>1
      <4> QED
        BY <1>6, <4>1, <4>2
    <3>2. CASE <<"transaction", t>> \notin told
      <4>1. r.err = "ok" /\ t = calls
        <5>1. <<"transaction", t>> = <<"transaction", calls>> => t = calls
          OBVIOUS
        <5> QED
          BY <1>1, <3>2, <5>1
      <4> QED
        BY <1>7, <4>1
    <3> QED
      BY <3>1, <3>2
  <2> QED
    BY <1>1, <1>4, <1>5, <2>1, <2>2, <2>3 DEF Committed
<1> QED
  BY <1>1, <1>2, <1>3, <1>8, <1>9 DEF SqlInv

-----------------------------------------------------------------------------
\* The invariant is inductive.
LEMMA SqlStep ==
  ASSUME Size \in Nat \ {0}
  PROVE  SqlInv /\ [Sql!Next]_sql => SqlInv'
<1> SUFFICES ASSUME SqlInv, [Sql!Next]_sql PROVE SqlInv'
  OBVIOUS
<1>1. CASE Sql!Transaction
  BY <1>1, BeginStep, AutocommitStep, BeginQueryStep, StatementStep, RollbackStep,
     CommitStep DEF Sql!Transaction
<1>2. CASE UNCHANGED sql
  BY <1>2 DEF sql, SqlInv, CallUnderWay, Committed
<1> QED
  BY <1>1, <1>2, OtherCalls, DropStep DEF Sql!Next

\* A new wrapper has no call and no link.
LEMMA SqlInit == Sql!Init => SqlInv
<1> SUFFICES ASSUME Sql!Init PROVE SqlInv
  OBVIOUS
<1>1. /\ link.pending = {} /\ link.db = {} /\ ~link.alive /\ link \in Links
      /\ job.at = "idle" /\ calls = 0 /\ told = {}
  BY DEF Sql!Init, Sql!Idle, Links
<1>2. \A t : Of(t, {}) = {}
  BY DEF Of
<1> QED
  BY <1>1, <1>2 DEF SqlInv, Sound, CallUnderWay, Committed

LEMMA SqlWhole == SqlInv => Sql!TransactionsWhole
<1> SUFFICES ASSUME SqlInv, NEW t \in 1..calls
             PROVE  /\ Of(t, link.db) \in {{}, 1..Size}
                    /\ <<"transaction", t>> \in told => Of(t, link.db) = 1..Size
  BY DEF Sql!TransactionsWhole, Of
<1>1. t \in Nat
  BY DEF SqlInv
<1> QED
  BY <1>1 DEF SqlInv, Committed

-----------------------------------------------------------------------------
(* Stretches of a stream of bytes. *)

\* A sequence of n bytes.
Long(bytes, n) == bytes \in Seq(Nat) /\ n \in Nat /\ Len(bytes) = n

Both(s, t) == s \o t

\* The bytes are what stands in the stream behind place a, up to place c.
Held(bytes, a, c, stream) ==
  /\ bytes \in Seq(Nat) /\ a \in Nat /\ c \in Nat /\ Len(bytes) = c - a
  /\ \A i \in 1..(c - a) : bytes[i] = stream[a + i]

LEMMA BothFacts ==
  ASSUME NEW s, NEW m, Long(s, m), NEW t, NEW n, Long(t, n)
  PROVE  /\ Long(Both(s, t), m + n)
         /\ \A i \in 1..m : Both(s, t)[i] = s[i]
         /\ \A i \in 1..n : Both(s, t)[m + i] = t[i]
<1>1. s \in Seq(Nat) /\ t \in Seq(Nat) /\ m \in Nat /\ n \in Nat /\ Len(s) = m /\ Len(t) = n
  BY DEF Long
<1>2. /\ s \o t \in Seq(Nat) /\ Len(s \o t) = Len(s) + Len(t)
      /\ \A i \in 1..Len(s) : (s \o t)[i] = s[i]
      /\ \A i \in 1..Len(t) : (s \o t)[Len(s) + i] = t[i]
  <2>1. s \in Seq(Nat) /\ t \in Seq(Nat)
    BY <1>1
  <2> QED
    BY <2>1
<1> QED
  BY <1>1, <1>2 DEF Both, Long

LEMMA PieceFacts ==
  ASSUME NEW s, NEW n, Long(s, n), NEW k \in Nat, NEW l \in Nat, k <= l, l <= n
  PROVE  /\ Long(SubSeq(s, k + 1, l), l - k)
         /\ \A i \in 1..(l - k) : SubSeq(s, k + 1, l)[i] = s[k + i]
<1>1. s \in Seq(Nat) /\ n \in Nat /\ Len(s) = n /\ l <= Len(s)
  BY DEF Long
<1>2. PICK d \in Nat : d = l - k
  OBVIOUS
<1>3. PICK piece : piece = SubSeq(s, k + 1, l)
  OBVIOUS
<1>4. piece = [i \in 1..d |-> s[k + i]]
  BY <1>1, <1>2, <1>3
<1>5. \A i \in 1..d : s[k + i] \in Nat
  <2>1. \A i \in 1..d : k + i \in 1..Len(s)
    BY <1>1, <1>2
  <2> QED
    BY <1>1, <2>1
<1>6. piece \in [1..d -> Nat]
  BY <1>4, <1>5
<1>7. piece \in Seq(Nat) /\ Len(piece) = d
  BY <1>6
<1>8. \A i \in 1..d : piece[i] = s[k + i]
  BY <1>4
<1> QED
  BY <1>2, <1>3, <1>7, <1>8, Zenon DEF Long

LEMMA HeldLong ==
  ASSUME NEW u, NEW a, NEW c, NEW f, Held(u, a, c, f)
  PROVE  Long(u, c - a) /\ a \in Nat /\ c \in Nat /\ a <= c
BY DEF Held, Long

\* Two stretches that follow each other make one.
LEMMA HeldBoth ==
  ASSUME NEW f, NEW u, NEW v, NEW a, NEW b, NEW c, Held(u, a, b, f), Held(v, b, c, f)
  PROVE  Held(Both(u, v), a, c, f)
<1>1. /\ a \in Nat /\ b \in Nat /\ c \in Nat /\ a <= b /\ b <= c
      /\ Long(u, b - a) /\ Long(v, c - b)
  BY HeldLong
<1>2. /\ \A i \in 1..(b - a) : u[i] = f[a + i]
      /\ \A i \in 1..(c - b) : v[i] = f[b + i]
  BY DEF Held
<1>3. /\ Long(Both(u, v), (b - a) + (c - b))
      /\ \A i \in 1..(b - a) : Both(u, v)[i] = u[i]
      /\ \A i \in 1..(c - b) : Both(u, v)[(b - a) + i] = v[i]
  BY <1>1, BothFacts
<1>4. Long(Both(u, v), c - a)
  BY <1>1, <1>3
<1>5. ASSUME NEW i \in 1..(c - a)
      PROVE  Both(u, v)[i] = f[a + i]
  <2>1. CASE i <= b - a
    BY <1>1, <1>2, <1>3, <2>1
  <2>2. CASE ~(i <= b - a)
    <3>1. PICK j \in 1..(c - b) : i = (b - a) + j
      <4>1. i - (b - a) \in 1..(c - b) /\ i = (b - a) + (i - (b - a))
        BY <1>1, <2>2
      <4> QED
        BY <4>1
    <3>2. a + i = b + j
      BY <1>1, <3>1
    <3> QED
      BY <1>2, <1>3, <3>1, <3>2
  <2> QED
    BY <2>1, <2>2
<1> QED
  BY <1>1, <1>4, <1>5 DEF Held, Long

\* A stretch that is two sequences is two stretches.
LEMMA HeldParts ==
  ASSUME NEW f, NEW u, NEW v, NEW m, NEW n, Long(u, m), Long(v, n),
         NEW a, NEW c, Held(Both(u, v), a, c, f)
  PROVE  Held(u, a, a + m, f) /\ Held(v, a + m, c, f) /\ c = a + m + n
<1>1. a \in Nat /\ c \in Nat /\ m \in Nat /\ n \in Nat /\ Long(Both(u, v), c - a)
  BY HeldLong DEF Long
<1>2. /\ Long(Both(u, v), m + n)
      /\ \A i \in 1..m : Both(u, v)[i] = u[i]
      /\ \A i \in 1..n : Both(u, v)[m + i] = v[i]
  BY BothFacts
<1>3. c - a = m + n /\ c = a + m + n
  BY <1>1, <1>2 DEF Long
<1>4. \A i \in 1..(m + n) : Both(u, v)[i] = f[a + i]
  BY <1>3 DEF Held
<1>5. \A i \in 1..m : u[i] = f[a + i]
  BY <1>1, <1>2, <1>4
<1>6. ASSUME NEW i \in 1..n
      PROVE  v[i] = f[(a + m) + i]
  <2>1. m + i \in 1..(m + n) /\ a + (m + i) = (a + m) + i
    BY <1>1
  <2> QED
    BY <1>2, <1>4, <2>1
<1>7. Held(u, a, a + m, f)
  BY <1>1, <1>5 DEF Held, Long
<1>8. Held(v, a + m, c, f)
  BY <1>1, <1>3, <1>6 DEF Held, Long
<1> QED
  BY <1>3, <1>7, <1>8

\* A stretch is cut after any of its bytes.
LEMMA HeldCut ==
  ASSUME NEW f, NEW u, NEW a, NEW c, Held(u, a, c, f), NEW n \in Nat, n <= c - a
  PROVE  /\ Held(SubSeq(u, 1, n), a, a + n, f)
         /\ Held(SubSeq(u, n + 1, Len(u)), a + n, c, f)
<1>1. a \in Nat /\ c \in Nat /\ Long(u, c - a) /\ a <= c
  BY HeldLong
<1>2. \A i \in 1..(c - a) : u[i] = f[a + i]
  BY DEF Held
<1>3. PICK l \in Nat : l = c - a
  BY <1>1
<1>4. Long(u, l) /\ n <= l /\ c = a + l /\ Len(u) = l
  BY <1>1, <1>3 DEF Long
<1>5. /\ Long(SubSeq(u, 0 + 1, n), n - 0)
      /\ \A i \in 1..(n - 0) : SubSeq(u, 0 + 1, n)[i] = u[0 + i]
  BY <1>4, PieceFacts
<1>6. /\ Long(SubSeq(u, n + 1, l), l - n)
      /\ \A i \in 1..(l - n) : SubSeq(u, n + 1, l)[i] = u[n + i]
  BY <1>4, PieceFacts
<1>7. Held(SubSeq(u, 1, n), a, a + n, f)
  <2>1. Long(SubSeq(u, 1, n), n) /\ \A i \in 1..n : SubSeq(u, 1, n)[i] = u[i]
    BY <1>5
  <2>2. \A i \in 1..n : SubSeq(u, 1, n)[i] = f[a + i]
    BY <1>2, <1>3, <1>4, <2>1
  <2>3. a + n \in Nat /\ (a + n) - a = n
    BY <1>1
  <2> QED
    BY <1>1, <2>1, <2>2, <2>3 DEF Held, Long
<1>8. Held(SubSeq(u, n + 1, l), a + n, c, f)
  <2>1. ASSUME NEW i \in 1..(l - n)
        PROVE  SubSeq(u, n + 1, l)[i] = f[(a + n) + i]
    <3>1. n + i \in 1..l /\ a + (n + i) = (a + n) + i
      BY <1>1, <1>4
    <3> QED
      BY <1>2, <1>3, <1>6, <3>1
  <2>2. a + n \in Nat /\ c - (a + n) = l - n
    BY <1>1, <1>4
  <2> QED
    BY <1>1, <1>6, <2>1, <2>2 DEF Held, Long
<1> QED
  BY <1>4, <1>7, <1>8

\* Only one sequence is in a stretch, and none in one of no length.
LEMMA HeldSame ==
  ASSUME NEW f, NEW u, NEW v, NEW a, NEW c, Held(u, a, c, f), Held(v, a, c, f)
  PROVE  u = v
<1>1. u \in Seq(Nat) /\ v \in Seq(Nat) /\ Len(u) = Len(v)
  BY DEF Held
<1>2. \A i \in 1..Len(u) : u[i] = v[i]
  BY DEF Held
<1> QED
  BY <1>1, <1>2, SeqEqual

LEMMA HeldEmpty ==
  ASSUME NEW f, NEW a \in Nat
  PROVE  Held(<<>>, a, a, f) /\ \A u, c : Held(u, a, c, f) => (u = <<>> <=> c = a)
<1>1. Held(<<>>, a, a, f)
  BY DEF Held
<1>2. ASSUME NEW u, NEW c, Held(u, a, c, f)
      PROVE  u = <<>> <=> c = a
  BY <1>2 DEF Held
<1> QED
  BY <1>1, <1>2

\* What is in a sequence itself is cut out of it.
LEMMA HeldPiece ==
  ASSUME NEW d, NEW n, Long(d, n), NEW u, NEW a, NEW c, Held(u, a, c, d), c <= n
  PROVE  SubSeq(d, a + 1, c) = u
<1>1. a \in Nat /\ c \in Nat /\ a <= c
  BY HeldLong
<1>2. /\ Long(SubSeq(d, a + 1, c), c - a)
      /\ \A i \in 1..(c - a) : SubSeq(d, a + 1, c)[i] = d[a + i]
  BY <1>1, PieceFacts
<1>3. Held(SubSeq(d, a + 1, c), a, c, d)
  BY <1>1, <1>2 DEF Held, Long
<1> QED
  BY <1>3, HeldSame

LEMMA PrefixFacts ==
  ASSUME NEW s, NEW n, Long(s, n), NEW l \in Nat, l <= n
  PROVE  Long(SubSeq(s, 1, l), l) /\ \A i \in 1..l : SubSeq(s, 1, l)[i] = s[i]
<1>1. s \in Seq(Nat) /\ n \in Nat /\ Len(s) = n
  BY DEF Long
<1>2. /\ SubSeq(s, 1, l) \in Seq(Nat) /\ Len(SubSeq(s, 1, l)) = l
      /\ \A i \in 1..l : SubSeq(s, 1, l)[i] = s[i]
  <2>1. s \in Seq(Nat) /\ l <= Len(s)
    BY <1>1
  <2> QED
    BY <2>1
<1> QED
  BY <1>2 DEF Long

\* The same at the beginning.
LEMMA HeldFirst ==
  ASSUME NEW f, NEW u, NEW v, NEW m, NEW n, Long(u, m), Long(v, n),
         NEW c, Held(Both(u, v), 0, c, f)
  PROVE  Held(u, 0, m, f) /\ Held(v, m, c, f)
<1>1. Held(u, 0, 0 + m, f) /\ Held(v, 0 + m, c, f)
  BY HeldParts
<1>2. 0 + m = m
  BY DEF Long
<1> QED
  BY <1>1, <1>2

LEMMA HeldPrefix ==
  ASSUME NEW d, NEW n, Long(d, n), NEW u, NEW c, Held(u, 0, c, d), c <= n
  PROVE  SubSeq(d, 1, c) = u
<1>1. c \in Nat /\ Long(u, c - 0) /\ c - 0 = c
  BY HeldLong
<1>2. Long(SubSeq(d, 1, c), c) /\ \A i \in 1..c : SubSeq(d, 1, c)[i] = d[i]
  BY <1>1, PrefixFacts
<1>3. \A i \in 1..c : 0 + i = i
  BY <1>1
<1>4. Held(SubSeq(d, 1, c), 0, c, d)
  BY <1>1, <1>2, <1>3 DEF Held, Long
<1> QED
  BY <1>4, HeldSame

-----------------------------------------------------------------------------
(* Commands and their bytes. *)

Letters == 1..(Base - 1)
Sent == [cmd : Seq(Letters), topic : Seq(Letters), msg : Seq(Letters)]

LEMMA LettersNat == Letters \subseteq Nat \ {0}
BY FramesAssumption DEF Letters

LEMMA WiderSeq ==
  ASSUME NEW S, NEW T, S \subseteq T, NEW s \in Seq(S)
  PROVE  s \in Seq(T)
OBVIOUS

LEMMA LettersLong ==
  ASSUME NEW t \in Seq(Letters)
  PROVE  Long(t, Len(t)) /\ \A i \in 1..Len(t) : t[i] # 0
<1>1. t \in Seq(Nat)
  BY LettersNat, WiderSeq
<1>2. \A i \in 1..Len(t) : t[i] \in Letters
  OBVIOUS
<1>3. \A i \in 1..Len(t) : t[i] # 0
  BY <1>2, LettersNat
<1> QED
  BY <1>1, <1>3 DEF Long

\* What is read from the two bytes of a word is what was written into them.
LEMMA WordFacts ==
  ASSUME NEW n \in Nat
  PROVE  Long(Frm!Word(n), 2) /\ Frm!Number(Frm!Word(n)) = n
<1> DEFINE low == n % Base
           high == n \div Base
<1>1. low \in Nat /\ high \in Nat /\ low + Base * high = n
  BY FramesAssumption
<1>2. Frm!Word(n) = <<low, high>>
  BY DEF Frm!Word
<1> HIDE DEF low, high
<1>3. Long(<<low, high>>, 2)
  BY <1>1 DEF Long
<1>4. Frm!Number(<<low, high>>) = low + Base * high
  BY <1>1 DEF Frm!Number
<1> QED
  BY <1>1, <1>2, <1>3, <1>4

\* A string that ends with a zero is read back.
LEMMA CStringFacts ==
  ASSUME NEW t \in Seq(Letters)
  PROVE  Frm!CString(Both(t, <<0>>)) = t
<1>1. PICK n : n = Len(t)
  OBVIOUS
<1>2. Long(t, n) /\ \A i \in 1..n : t[i] # 0
  BY <1>1, LettersLong
<1>3. n \in Nat
  BY <1>2 DEF Long
<1>4. PICK bytes : bytes = Both(t, <<0>>)
  OBVIOUS
<1>5. /\ Long(bytes, n + 1)
      /\ \A i \in 1..n : bytes[i] = t[i]
      /\ bytes[n + 1] = 0
  <2>1. Long(<<0>>, 1) /\ <<0>>[1] = 0
    BY DEF Long
  <2>2. \A i \in 1..1 : bytes[n + i] = <<0>>[i]
    BY <1>2, <1>4, <2>1, BothFacts
  <2> QED
    BY <1>2, <1>4, <2>1, <2>2, BothFacts
<1> DEFINE zeros == { i \in 1..Len(bytes) : bytes[i] = 0 }
<1>6. zeros = {n + 1}
  <2>1. Len(bytes) = n + 1
    BY <1>5 DEF Long
  <2>2. \A i \in 1..(n + 1) : bytes[i] = 0 <=> i = n + 1
    BY <1>2, <1>3, <1>5
  <2>3. n + 1 \in 1..(n + 1)
    BY <1>3
  <2> QED
    BY <2>1, <2>2, <2>3
<1> HIDE DEF zeros
<1>7. Frm!Min(zeros) = n + 1
  BY <1>3, <1>6 DEF Frm!Min
<1>8. Frm!SelectInSeq(bytes, LAMBDA b : b = 0) = n + 1
  BY <1>6, <1>7 DEF Frm!SelectInSeq, zeros
<1>9. Frm!CString(bytes) = SubSeq(bytes, 1, n)
  <2>1. Frm!CString(bytes) = SubSeq(bytes, 1, (n + 1) - 1)
    BY <1>8 DEF Frm!CString
  <2> QED
    BY <1>3, <2>1
<1>10. n <= n + 1
  BY <1>3
<1>11. Long(SubSeq(bytes, 1, n), n) /\ \A i \in 1..n : SubSeq(bytes, 1, n)[i] = t[i]
  BY <1>3, <1>5, <1>10, PrefixFacts
<1>12. SubSeq(bytes, 1, n) = t
  <2>1. /\ SubSeq(bytes, 1, n) \in Seq(Nat) /\ t \in Seq(Nat)
        /\ Len(SubSeq(bytes, 1, n)) = Len(t) /\ Len(t) = n
    BY <1>2, <1>11 DEF Long
  <2> QED
    BY <1>11, <2>1, SeqEqual
<1> QED
  BY <1>4, <1>9, <1>12

\* Where the parts of a command are in its bytes.
Parts(d, p, a, b, c) ==
  /\ Held(Frm!Word(a), 0, 2, d) /\ Held(Frm!Word(b), 2, 4, d) /\ Held(Frm!Word(c), 4, 6, d)
  /\ Held(Both(p.cmd, <<0>>), 6, 7 + a, d)
  /\ Held(Both(p.topic, <<0>>), 7 + a, 8 + a + b, d)
  /\ Held(Both(p.msg, <<0>>), 8 + a + b, 9 + a + b + c, d)

LEMMA Serialized ==
  ASSUME NEW p, NEW a, NEW b, NEW c, Long(p.cmd, a), Long(p.topic, b), Long(p.msg, c)
  PROVE  /\ Long(Frm!serialization(p), 9 + a + b + c)
         /\ Parts(Frm!serialization(p), p, a, b, c)
<1>0. a \in Nat /\ b \in Nat /\ c \in Nat
  BY DEF Long
<1> DEFINE d == Frm!serialization(p)
           z == <<0>>
           x == Frm!Word(a)
           y == Frm!Word(b)
           w == Frm!Word(c)
<1>1. Long(z, 1)
  BY DEF Long
<1>2. Long(x, 2) /\ Long(y, 2) /\ Long(w, 2)
  BY <1>0, WordFacts
<1>3. d = Both(Both(Both(Both(Both(Both(Both(Both(x, y), w), p.cmd), z), p.topic), z),
                    p.msg), z)
  <2>1. Len(p.cmd) = a /\ Len(p.topic) = b /\ Len(p.msg) = c
    BY DEF Long
  <2> QED
    BY <2>1, Zenon DEF Frm!serialization, Both
<1> HIDE DEF d, x, y, w, z
<1>4. PICK d1 : d1 = Both(x, y) OBVIOUS
<1>5. PICK d2 : d2 = Both(d1, w) OBVIOUS
<1>6. PICK d3 : d3 = Both(d2, p.cmd) OBVIOUS
<1>7. PICK d4 : d4 = Both(d3, z) OBVIOUS
<1>8. PICK d5 : d5 = Both(d4, p.topic) OBVIOUS
<1>9. PICK d6 : d6 = Both(d5, z) OBVIOUS
<1>10. PICK d7 : d7 = Both(d6, p.msg) OBVIOUS
<1>11. d = Both(d7, z)
  BY <1>3, <1>4, <1>5, <1>6, <1>7, <1>8, <1>9, <1>10
<1>12. PICK n1, n2, n3, n4, n5, n6, n7, n8 :
         /\ n1 = 2 + 2 /\ n2 = n1 + 2 /\ n3 = n2 + a /\ n4 = n3 + 1 /\ n5 = n4 + b
         /\ n6 = n5 + 1 /\ n7 = n6 + c /\ n8 = n7 + 1
  OBVIOUS
<1>13. /\ n1 = 4 /\ n2 = 6 /\ n4 = 7 + a /\ n6 = 8 + a + b /\ n8 = 9 + a + b + c
       /\ n8 \in Nat /\ n8 - 0 = n8
  BY <1>0, <1>12
<1>14. Long(d1, n1)
  BY <1>2, <1>4, <1>12, BothFacts
<1>15. Long(d2, n2)
  BY <1>2, <1>5, <1>12, <1>14, BothFacts
<1>16. Long(d3, n3)
  BY <1>6, <1>12, <1>15, BothFacts
<1>17. Long(d4, n4)
  BY <1>1, <1>7, <1>12, <1>16, BothFacts
<1>18. Long(d5, n5)
  BY <1>8, <1>12, <1>17, BothFacts
<1>19. Long(d6, n6)
  BY <1>1, <1>9, <1>12, <1>18, BothFacts
<1>20. Long(d7, n7)
  BY <1>10, <1>12, <1>19, BothFacts
<1>21. Long(d, n8)
  BY <1>1, <1>11, <1>12, <1>20, BothFacts
<1>22. Held(d, 0, n8, d)
  <2>1. \A i \in 1..n8 : 0 + i = i
    BY <1>13
  <2> QED
    BY <1>13, <1>21, <2>1 DEF Held, Long
<1>23. Held(d7, 0, n7, d) /\ Held(z, n7, n8, d)
  BY <1>1, <1>11, <1>20, <1>22, HeldFirst
<1>24. Held(d6, 0, n6, d) /\ Held(p.msg, n6, n7, d)
  BY <1>10, <1>19, <1>23, HeldFirst
<1>25. Held(d5, 0, n5, d) /\ Held(z, n5, n6, d)
  BY <1>1, <1>9, <1>18, <1>24, HeldFirst
<1>26. Held(d4, 0, n4, d) /\ Held(p.topic, n4, n5, d)
  BY <1>8, <1>17, <1>25, HeldFirst
<1>27. Held(d3, 0, n3, d) /\ Held(z, n3, n4, d)
  BY <1>1, <1>7, <1>16, <1>26, HeldFirst
<1>28. Held(d2, 0, n2, d) /\ Held(p.cmd, n2, n3, d)
  BY <1>6, <1>15, <1>27, HeldFirst
<1>29. Held(d1, 0, n1, d) /\ Held(w, n1, n2, d)
  BY <1>2, <1>5, <1>14, <1>28, HeldFirst
<1>30. Held(x, 0, 2, d) /\ Held(y, 2, n1, d)
  BY <1>2, <1>4, <1>29, HeldFirst
<1>31. /\ Held(Both(p.cmd, z), n2, n4, d) /\ Held(Both(p.topic, z), n4, n6, d)
       /\ Held(Both(p.msg, z), n6, n8, d)
  BY <1>23, <1>24, <1>25, <1>26, <1>27, <1>28, HeldBoth
<1>32. /\ Held(x, 0, 2, d) /\ Held(y, 2, 4, d) /\ Held(w, 4, 6, d)
       /\ Held(Both(p.cmd, z), 6, 7 + a, d)
       /\ Held(Both(p.topic, z), 7 + a, 8 + a + b, d)
       /\ Held(Both(p.msg, z), 8 + a + b, 9 + a + b + c, d)
  BY <1>13, <1>29, <1>30, <1>31
<1>33. Long(d, 9 + a + b + c)
  BY <1>13, <1>21
<1> QED
  BY <1>32, <1>33 DEF Parts, x, y, w, d, z

\* What is deserialized from the bytes of a command is the command.
LEMMA Deserialized ==
  ASSUME NEW p \in Sent
  PROVE  /\ Frm!deserialization(Frm!serialization(p)) = p
         /\ Long(Frm!serialization(p), Len(Frm!serialization(p)))
         /\ Len(Frm!serialization(p)) > 0
<1>0. p.cmd \in Seq(Letters) /\ p.topic \in Seq(Letters) /\ p.msg \in Seq(Letters)
  BY DEF Sent
<1>1. PICK a, b, c : Long(p.cmd, a) /\ Long(p.topic, b) /\ Long(p.msg, c)
  BY <1>0, LettersLong
<1>2. a \in Nat /\ b \in Nat /\ c \in Nat
  BY <1>1 DEF Long
<1>3. PICK d : d = Frm!serialization(p)
  OBVIOUS
<1>4. PICK n \in Nat : n = 9 + a + b + c
  BY <1>2
<1>5. Long(d, n) /\ Parts(d, p, a, b, c)
  BY <1>1, <1>3, <1>4, Serialized
<1>6. /\ 6 <= n /\ 4 <= n /\ 2 <= n /\ 7 + a <= n /\ 8 + a + b <= n /\ n <= n
      /\ (7 + a + 1) - 1 = 7 + a /\ 7 + a + 1 = 8 + a
      /\ (8 + a + b + 1) - 1 = 8 + a + b /\ 8 + a + b + 1 = 9 + a + b
      /\ 9 + a + b + c = n /\ n > 0
  BY <1>2, <1>4
<1>7. /\ SubSeq(d, 1, 2) = Frm!Word(a) /\ SubSeq(d, 3, 4) = Frm!Word(b)
      /\ SubSeq(d, 5, 6) = Frm!Word(c)
  <2>1. /\ Held(Frm!Word(a), 0, 2, d) /\ Held(Frm!Word(b), 2, 4, d)
        /\ Held(Frm!Word(c), 4, 6, d)
    BY <1>5 DEF Parts
  <2>2. SubSeq(d, 1, 2) = Frm!Word(a)
    BY <1>5, <1>6, <2>1, HeldPrefix
  <2>3. PICK two, four : two = 2 /\ four = 4
    OBVIOUS
  <2>4. SubSeq(d, two + 1, 4) = Frm!Word(b) /\ SubSeq(d, four + 1, 6) = Frm!Word(c)
    <3>1. Held(Frm!Word(b), two, 4, d) /\ Held(Frm!Word(c), four, 6, d)
      BY <2>1, <2>3
    <3> HIDE <2>1, <2>3
    <3> QED
      BY <1>5, <1>6, <3>1, HeldPiece
  <2> QED
    BY <2>2, <2>3, <2>4
<1>8. /\ SubSeq(d, 7, 7 + a) = Both(p.cmd, <<0>>)
      /\ SubSeq(d, 8 + a, 8 + a + b) = Both(p.topic, <<0>>)
      /\ SubSeq(d, 9 + a + b, 9 + a + b + c) = Both(p.msg, <<0>>)
  <2>1. /\ Held(Both(p.cmd, <<0>>), 6, 7 + a, d)
        /\ Held(Both(p.topic, <<0>>), 7 + a, 8 + a + b, d)
        /\ Held(Both(p.msg, <<0>>), 8 + a + b, 9 + a + b + c, d)
    BY <1>5 DEF Parts
  <2>2. /\ SubSeq(d, 6 + 1, 7 + a) = Both(p.cmd, <<0>>)
        /\ SubSeq(d, (7 + a) + 1, 8 + a + b) = Both(p.topic, <<0>>)
        /\ SubSeq(d, (8 + a + b) + 1, 9 + a + b + c) = Both(p.msg, <<0>>)
    BY <1>5, <1>6, <2>1, HeldPiece
  <2>3. 6 + 1 = 7
    OBVIOUS
  <2> QED
    BY <1>6, <2>2, <2>3
<1>9. /\ Frm!Number(SubSeq(d, 1, 2)) = a /\ Frm!Number(SubSeq(d, 3, 4)) = b
      /\ Frm!Number(SubSeq(d, 5, 6)) = c
  BY <1>2, <1>7, WordFacts
<1>10. /\ Frm!CString(SubSeq(d, 7, 7 + a)) = p.cmd
       /\ Frm!CString(SubSeq(d, 8 + a, 8 + a + b)) = p.topic
       /\ Frm!CString(SubSeq(d, 9 + a + b, 9 + a + b + c)) = p.msg
  BY <1>0, <1>8, CStringFacts
<1>11. Frm!deserialization(d) = [cmd |-> p.cmd, topic |-> p.topic, msg |-> p.msg]
  BY <1>6, <1>9, <1>10 DEF Frm!deserialization
<1>12. p = [cmd |-> p.cmd, topic |-> p.topic, msg |-> p.msg]
  BY DEF Sent
<1>13. Len(d) = n
  BY <1>5 DEF Long
<1> QED
  BY <1>3, <1>5, <1>6, <1>11, <1>12, <1>13

-----------------------------------------------------------------------------
(* The stream of all commands: a size and the bytes of each, in turn. *)

Frame(k) == Frm!serialization(Commands[k])
Bulk(k) == Len(Frame(k))

\* Where the frames of the first n commands begin, and where the last ends.
Places(n, at) ==
  /\ at \in [1..(n + 1) -> Nat] /\ at[1] = 0
  /\ \A k \in 1..n : at[k + 1] = at[k] + 2 + Bulk(k)
  /\ \A j, k \in 1..(n + 1) : j < k => at[j] + 2 + Bulk(j) =< at[k]

LEMMA CommandFacts ==
  /\ Len(Commands) \in Nat
  /\ \A k \in 1..Len(Commands) :
       /\ Commands[k] \in Sent /\ Bulk(k) \in Nat \ {0} /\ Long(Frame(k), Bulk(k))
       /\ Frm!deserialization(Frame(k)) = Commands[k]
<1>1. Commands \in Seq(Sent)
  BY FramesAssumption DEF Sent, Letters
<1>2. Len(Commands) \in Nat /\ \A k \in 1..Len(Commands) : Commands[k] \in Sent
  BY <1>1
<1>3. ASSUME NEW k \in 1..Len(Commands)
      PROVE  /\ Bulk(k) \in Nat \ {0} /\ Long(Frame(k), Bulk(k))
             /\ Frm!deserialization(Frame(k)) = Commands[k]
  <2>1. /\ Long(Frame(k), Bulk(k)) /\ Bulk(k) > 0
        /\ Frm!deserialization(Frame(k)) = Commands[k]
    BY <1>2, Deserialized DEF Frame, Bulk
  <2> QED
    BY <2>1 DEF Long
<1> QED
  BY <1>2, <1>3

LEMMA PlacesExist ==
  \A n \in Nat : n =< Len(Commands) => \E at : Places(n, at)
<1> DEFINE T == { n \in Nat : n =< Len(Commands) /\ ~\E at : Places(n, at) }
<1> SUFFICES ASSUME T # {} PROVE FALSE
  OBVIOUS
<1>1. T \subseteq Nat
  OBVIOUS
<1>2. PICK n \in T : \A y \in T : n =< y
  BY <1>1, MinOf
<1>3. n \in Nat /\ n =< Len(Commands) /\ ~\E at : Places(n, at)
  OBVIOUS
<1>4. CASE n = 0
  <2>1. PICK at : at = [i \in 1..1 |-> 0]
    OBVIOUS
  <2>2. at \in [1..1 -> Nat] /\ at[1] = 0
    BY <2>1
  <2>3. Places(0, at)
    BY <2>2 DEF Places
  <2> QED
    BY <1>3, <1>4, <2>3
<1>5. CASE n # 0
  <2>1. n - 1 \in Nat /\ n - 1 =< Len(Commands) /\ n - 1 \notin T
    BY <1>2, <1>3, <1>5, CommandFacts
  <2>2. PICK m \in Nat : m = n - 1
    BY <2>1
  <2>3. PICK at : Places(m, at)
    BY <2>1, <2>2
  <2> HIDE DEF T
  <2>4. /\ at \in [1..(m + 1) -> Nat] /\ at[1] = 0
        /\ \A k \in 1..m : at[k + 1] = at[k] + 2 + Bulk(k)
        /\ \A j, k \in 1..(m + 1) : j < k => at[j] + 2 + Bulk(j) =< at[k]
    BY <2>3 DEF Places
  <2>5. n = m + 1 /\ \A k \in 1..(m + 1) : Bulk(k) \in Nat
    BY <1>3, <2>2, CommandFacts
  <2>6. PICK end \in Nat : end = at[n] + 2 + Bulk(n)
    BY <2>4, <2>5
  <2>7. PICK more : more = [k \in 1..(n + 1) |-> IF k = n + 1 THEN end ELSE at[k]]
    OBVIOUS
  <2>8. /\ more \in [1..(n + 1) -> Nat] /\ more[n + 1] = end
        /\ \A k \in 1..n : more[k] = at[k] /\ at[k] \in Nat
    BY <2>4, <2>5, <2>7
  <2>9. \A k \in 1..n : more[k + 1] = more[k] + 2 + Bulk(k)
    <3> SUFFICES ASSUME NEW k \in 1..n PROVE more[k + 1] = more[k] + 2 + Bulk(k)
      OBVIOUS
    <3>1. CASE k = n
      BY <2>6, <2>8, <3>1
    <3>2. CASE k # n
      <4>1. k \in 1..m /\ k + 1 \in 1..n
        BY <2>5, <3>2
      <4> QED
        BY <2>4, <2>8, <4>1
    <3> QED
      BY <3>1, <3>2
  <2>10. \A j, k \in 1..(n + 1) : j < k => more[j] + 2 + Bulk(j) =< more[k]
    <3> SUFFICES ASSUME NEW j \in 1..(n + 1), NEW k \in 1..(n + 1), j < k
                 PROVE  more[j] + 2 + Bulk(j) =< more[k]
      OBVIOUS
    <3>1. j \in 1..n /\ more[j] = at[j] /\ at[j] \in Nat /\ Bulk(j) \in Nat
      BY <2>5, <2>8
    <3>2. CASE k # n + 1
      <4>1. k \in 1..n
        BY <1>3, <3>2
      <4> QED
        BY <2>4, <2>5, <2>8, <3>1, <4>1
    <3>3. CASE k = n + 1
      <4>1. CASE j = n
        BY <2>6, <2>8, <3>1, <3>3, <4>1
      <4>2. CASE j # n
        <5>1. j < n /\ n \in 1..(m + 1) /\ at[n] \in Nat /\ Bulk(n) \in Nat
          BY <2>4, <2>5, <3>1, <4>2
        <5>2. at[j] + 2 + Bulk(j) =< at[n]
          BY <2>4, <2>5, <3>1, <5>1
        <5>3. at[n] =< end
          BY <2>6, <5>1
        <5> QED
          BY <2>8, <3>1, <3>3, <5>1, <5>2, <5>3
      <4> QED
        BY <4>1, <4>2
    <3> QED
      BY <3>2, <3>3
  <2>11. more[1] = 0
    BY <2>4, <2>5, <2>8
  <2>12. Places(n, more)
    BY <2>8, <2>9, <2>10, <2>11 DEF Places
  <2> QED
    BY <1>3, <2>12
<1> QED
  BY <1>4, <1>5

\* Each frame of the stream is at its place.
Stream(at, s) ==
  /\ Places(Len(Commands), at)
  /\ \A k \in 1..Len(Commands) :
       /\ Held(Frm!Word(Bulk(k)), at[k], at[k] + 2, s)
       /\ Held(Frame(k), at[k] + 2, at[k + 1], s)

LEMMA StreamExists == \E at, s : Stream(at, s)
<1>1. PICK n \in Nat : n = Len(Commands)
  BY CommandFacts
<1>2. PICK at : Places(n, at)
  BY <1>1, PlacesExist
<1>3. /\ at \in [1..(n + 1) -> Nat]
      /\ \A k \in 1..n : at[k + 1] = at[k] + 2 + Bulk(k)
      /\ \A j, k \in 1..(n + 1) : j < k => at[j] + 2 + Bulk(j) =< at[k]
  BY <1>2 DEF Places
<1> DEFINE whole(k) == Both(Frm!Word(Bulk(k)), Frame(k))
           Here(x, v) == \E k \in 1..n : \E i \in 1..(2 + Bulk(k)) :
                           x = at[k] + i /\ v = whole(k)[i]
<1>4. \A k \in 1..n : /\ Bulk(k) \in Nat /\ Long(Frame(k), Bulk(k))
                      /\ Long(Frm!Word(Bulk(k)), 2) /\ Long(whole(k), 2 + Bulk(k))
  BY <1>1, CommandFacts, WordFacts, BothFacts
<1> HIDE DEF whole
<1>5. PICK s : s = [x \in Nat |-> CHOOSE v : Here(x, v)]
  OBVIOUS
<1>6. ASSUME NEW k \in 1..n, NEW i \in 1..(2 + Bulk(k))
      PROVE  s[at[k] + i] = whole(k)[i]
  <2>1. PICK x \in Nat : x = at[k] + i
    BY <1>3, <1>4
  <2>2. Here(x, whole(k)[i])
    BY <2>1
  <2>3. ASSUME NEW v, Here(x, v) PROVE v = whole(k)[i]
    <3>1. PICK j \in 1..n : \E h \in 1..(2 + Bulk(j)) : x = at[j] + h /\ v = whole(j)[h]
      BY <2>3
    <3>2. PICK h \in 1..(2 + Bulk(j)) : x = at[j] + h /\ v = whole(j)[h]
      BY <3>1
    <3>3. /\ at[j] \in Nat /\ at[k] \in Nat /\ Bulk(j) \in Nat /\ Bulk(k) \in Nat
          /\ j \in 1..(n + 1) /\ k \in 1..(n + 1)
      BY <1>3, <1>4
    <3>4. ~(j < k)
      <4> SUFFICES ASSUME j < k PROVE FALSE
        OBVIOUS
      <4>1. at[j] + 2 + Bulk(j) =< at[k]
        BY <1>3, <3>3
      <4> QED
        BY <2>1, <3>2, <3>3, <4>1
    <3>5. ~(k < j)
      <4> SUFFICES ASSUME k < j PROVE FALSE
        OBVIOUS
      <4>1. at[k] + 2 + Bulk(k) =< at[j]
        BY <1>3, <3>3
      <4> QED
        BY <2>1, <3>2, <3>3, <4>1
    <3>6. j = k
      BY <3>4, <3>5
    <3>7. h = i
      BY <2>1, <3>2, <3>3, <3>6
    <3> QED
      BY <3>2, <3>6, <3>7
  <2> HIDE DEF Here
  <2>4. (CHOOSE v : Here(x, v)) = whole(k)[i]
    BY <2>2, <2>3
  <2> QED
    BY <1>5, <2>1, <2>4
<1>7. ASSUME NEW k \in 1..n
      PROVE  /\ Held(Frm!Word(Bulk(k)), at[k], at[k] + 2, s)
             /\ Held(Frame(k), at[k] + 2, at[k + 1], s)
  <2>0. at[k] \in Nat /\ at[k + 1] \in Nat /\ Bulk(k) \in Nat
    <3>1. k \in 1..(n + 1) /\ k + 1 \in 1..(n + 1)
      OBVIOUS
    <3> QED
      BY <1>3, <1>4, <3>1
  <2>1. PICK a \in Nat, b \in Nat, c \in Nat : a = at[k] /\ b = Bulk(k) /\ c = at[k + 1]
    BY <2>0, Zenon
  <2>2. c = a + 2 + b /\ c - a = 2 + b
    BY <1>3, <2>0, <2>1
  <2>3. Long(whole(k), 2 + b) /\ \A i \in 1..(2 + b) : whole(k)[i] = s[a + i]
    BY <1>4, <1>6, <2>1
  <2>4. Held(whole(k), a, c, s)
    BY <2>2, <2>3 DEF Held, Long
  <2>5. Held(Both(Frm!Word(Bulk(k)), Frame(k)), a, c, s)
    BY <2>4 DEF whole
  <2>6. Long(Frm!Word(Bulk(k)), 2) /\ Long(Frame(k), Bulk(k))
    BY <1>4
  <2>7. Held(Frm!Word(Bulk(k)), a, a + 2, s) /\ Held(Frame(k), a + 2, c, s)
    BY <2>5, <2>6, HeldParts
  <2> QED
    BY <2>1, <2>7
<1>8. Stream(at, s)
  BY <1>1, <1>2, <1>7 DEF Stream
<1> QED
  BY <1>8

-----------------------------------------------------------------------------
(* Where the two ends of the connection are in the stream. *)

\* The program that sends is within a command that it has, or has sent all.
SenderOk ==
  /\ sender \in [msg : 1..(Len(Commands) + 1), part : {"size", "bytes"}, written : Nat]
  /\ sender.msg =< Len(Commands) =>
       sender.written < IF sender.part = "size" THEN 2 ELSE Bulk(sender.msg)
  /\ sender.msg > Len(Commands) => sender.part = "size" /\ sender.written = 0

SenderAt(at) ==
  at[sender.msg] + (IF sender.part = "size" THEN 0 ELSE 2) + sender.written

Receivers == [buffered : BOOLEAN, part : {"size", "bytes", "closed"}, left : Nat,
              data : Seq(Nat)]
Arrived == Sent \cup {Frm!Garbled}

FrameTypes ==
  /\ SenderOk /\ over \in {"open", "closed", "reset"}
  /\ receiver \in Receivers /\ received \in Seq(Arrived)

\* The program that reads waits for the k-th command, has what it needs of the
\* part up to place r, and all commands before.
ReaderAt(at, s, k, r) ==
  /\ k \in 1..(Len(Commands) + 1)
  /\ Len(received) = k - 1 /\ \A i \in 1..(k - 1) : received[i] = Commands[i]
  /\ r \in Nat /\ receiver.left > 0
  /\ \/ /\ receiver.part = "size" /\ r + receiver.left = at[k] + 2
        /\ Held(receiver.data, at[k], r, s)
     \/ /\ receiver.part = "bytes" /\ k =< Len(Commands)
        /\ r + receiver.left = at[k + 1]
        /\ Held(receiver.data, at[k] + 2, r, s)

\* The bytes between the two programs are those of the stream from place r.
CellsAt(at, s, r, q, e) ==
  /\ Held(rio, r, q, s) /\ Held(wire, q, e, s)
  /\ e =< SenderAt(at) /\ (over # "reset" => e = SenderAt(at))
  /\ receiver.buffered = FALSE => rio = <<>>

Whole == \A i \in 1..Len(received) : i =< Len(Commands) /\ received[i] = Commands[i]

Cut == over = "reset" \/ (over = "closed" /\ (sender.part # "size" \/ sender.written # 0))

\* Nothing comes any more. A size of which a part has come is followed by the
\* wait for a message, which ends with one that nobody sent.
Stopped ==
  /\ over # "open" /\ rio = <<>> /\ wire = <<>>
  /\ receiver.part # "closed" => receiver.data = <<>>
  /\ receiver.part = "bytes" => Cut /\ Whole /\ Len(received) < sender.msg
  /\ Frm!CommandsWhole

FrameInv(at, s) ==
  FrameTypes /\ (Stopped \/ \E k, r, q, e : ReaderAt(at, s, k, r) /\ CellsAt(at, s, r, q, e))

\* Places in the stream, in order.
LEMMA PlaceFacts ==
  ASSUME NEW at, NEW s, Stream(at, s)
  PROVE  /\ Len(Commands) \in Nat
         /\ \A k \in 1..(Len(Commands) + 1) : at[k] \in Nat
         /\ \A k \in 1..Len(Commands) :
              /\ k \in 1..(Len(Commands) + 1) /\ k + 1 \in 1..(Len(Commands) + 1)
              /\ Bulk(k) \in Nat \ {0} /\ at[k + 1] = at[k] + 2 + Bulk(k)
              /\ Held(Frm!Word(Bulk(k)), at[k], at[k] + 2, s)
              /\ Held(Frame(k), at[k] + 2, at[k + 1], s)
         /\ \A j \in 1..Len(Commands), k \in 1..(Len(Commands) + 1) :
              j < k => at[j] + 2 + Bulk(j) =< at[k]
<1>1. PICK n \in Nat : n = Len(Commands)
  BY CommandFacts
<1>2. /\ at \in [1..(n + 1) -> Nat]
      /\ \A k \in 1..n : at[k + 1] = at[k] + 2 + Bulk(k)
      /\ \A j, k \in 1..(n + 1) : j < k => at[j] + 2 + Bulk(j) =< at[k]
  BY <1>1 DEF Stream, Places
<1>3. \A k \in 1..n : /\ Held(Frm!Word(Bulk(k)), at[k], at[k] + 2, s)
                      /\ Held(Frame(k), at[k] + 2, at[k + 1], s)
  BY <1>1 DEF Stream
<1>4. \A k \in 1..n : Bulk(k) \in Nat \ {0}
  BY <1>1, CommandFacts
<1>5. \A k \in 1..n : k \in 1..(n + 1) /\ k + 1 \in 1..(n + 1)
  OBVIOUS
<1> QED
  BY <1>1, <1>2, <1>3, <1>4, <1>5

\* Within its command, the sender is before the next one's place.
LEMMA SenderPlace ==
  ASSUME NEW at, NEW s, Stream(at, s), SenderOk
  PROVE  /\ SenderAt(at) \in Nat /\ sender.msg \in Nat
         /\ \A k \in 1..(Len(Commands) + 1) : at[k] =< SenderAt(at) => k =< sender.msg
         /\ \A k \in 1..Len(Commands) :
              at[k] < SenderAt(at) /\ SenderAt(at) < at[k + 1]
                => sender.part # "size" \/ sender.written # 0
<1>1. PICK n \in Nat : n = Len(Commands)
  BY CommandFacts
<1>2. PICK m, part, w : m = sender.msg /\ part = sender.part /\ w = sender.written
  OBVIOUS
<1>3. /\ m \in 1..(n + 1) /\ part \in {"size", "bytes"} /\ w \in Nat
      /\ m =< n => w < IF part = "size" THEN 2 ELSE Bulk(m)
      /\ m > n => part = "size" /\ w = 0
  BY <1>1, <1>2 DEF SenderOk
<1>4. PICK x : x = at[m] + (IF part = "size" THEN 0 ELSE 2) + w
  OBVIOUS
<1>5. x = SenderAt(at)
  BY <1>2, <1>4 DEF SenderAt
<1>6. /\ \A k \in 1..(n + 1) : at[k] \in Nat
      /\ \A k \in 1..n : Bulk(k) \in Nat \ {0} /\ at[k + 1] = at[k] + 2 + Bulk(k)
      /\ \A j \in 1..n, k \in 1..(n + 1) : j < k => at[j] + 2 + Bulk(j) =< at[k]
  BY <1>1, PlaceFacts
<1>7. x \in Nat /\ at[m] =< x
  BY <1>3, <1>4, <1>6
<1>8. m =< n => x < at[m] + 2 + Bulk(m)
  BY <1>3, <1>4, <1>6
<1>9. ASSUME NEW k \in 1..(n + 1), at[k] =< x
      PROVE  k =< m
  <2> SUFFICES ASSUME m < k PROVE FALSE
    BY <1>3
  <2>1. m \in 1..n
    BY <1>3
  <2>2. at[m] + 2 + Bulk(m) =< at[k] /\ at[m] \in Nat /\ at[k] \in Nat /\ Bulk(m) \in Nat
    BY <1>3, <1>6, <2>1
  <2> QED
    BY <1>7, <1>8, <1>9, <2>1, <2>2
<1>10. ASSUME NEW k \in 1..n, at[k] < x, x < at[k + 1], part = "size", w = 0
       PROVE  FALSE
  <2>1. x = at[m] /\ at[m] \in Nat /\ at[k] \in Nat /\ Bulk(k) \in Nat
        /\ at[k + 1] = at[k] + 2 + Bulk(k)
    BY <1>3, <1>4, <1>6, <1>10
  <2>2. CASE k < m
    <3>1. at[k] + 2 + Bulk(k) =< at[m]
      BY <1>3, <1>6, <2>2
    <3> QED
      BY <1>10, <2>1, <3>1
  <2>3. CASE m < k
    <3>1. m \in 1..n /\ k \in 1..(n + 1)
      BY <1>3, <2>3
    <3>2. at[m] + 2 + Bulk(m) =< at[k] /\ Bulk(m) \in Nat
      BY <1>6, <2>3, <3>1
    <3> QED
      BY <1>10, <2>1, <3>2
  <2>4. CASE k = m
    BY <1>10, <2>1, <2>4
  <2> QED
    BY <1>3, <2>2, <2>3, <2>4
<1>11. m \in Nat
  BY <1>3
<1> QED
  BY <1>1, <1>2, <1>5, <1>7, <1>9, <1>10, <1>11

\* What the reader has is whole, and no more than was sent.
LEMMA ReaderWhole ==
  ASSUME NEW at, NEW s, Stream(at, s), FrameTypes, NEW k, NEW r,
         ReaderAt(at, s, k, r), r =< SenderAt(at)
  PROVE  /\ Whole /\ k =< sender.msg /\ Len(received) < sender.msg
         /\ Frm!CommandsWhole
<1>1. PICK n \in Nat : n = Len(Commands)
  BY CommandFacts
<1>2. /\ k \in 1..(n + 1) /\ r \in Nat
      /\ Len(received) = k - 1 /\ \A i \in 1..(k - 1) : received[i] = Commands[i]
  BY <1>1 DEF ReaderAt
<1>3. at[k] \in Nat /\ at[k] =< r
  <2>1. at[k] \in Nat
    BY <1>1, <1>2, PlaceFacts
  <2>2. Held(receiver.data, at[k], r, s) \/ Held(receiver.data, at[k] + 2, r, s)
    BY DEF ReaderAt
  <2>3. at[k] =< r \/ at[k] + 2 =< r
    BY <2>2, HeldLong
  <2> QED
    BY <1>2, <2>1, <2>3
<1>4. SenderAt(at) \in Nat /\ sender.msg \in Nat
  BY SenderPlace DEF FrameTypes
<1>5. at[k] =< SenderAt(at)
  BY <1>2, <1>3, <1>4
<1>6. k =< sender.msg
  BY <1>1, <1>2, <1>5, SenderPlace DEF FrameTypes
<1>7. Whole
  BY <1>1, <1>2 DEF Whole
<1>8. Len(received) < sender.msg
  BY <1>2, <1>4, <1>6
<1>9. Frm!CommandsWhole
  <2>1. Len(received) \in Nat /\ Len(received) =< sender.msg - 1
    BY <1>2, <1>4, <1>6
  <2>2. \A i \in 1..Len(received) : received[i] = Commands[i]
    BY <1>7 DEF Whole
  <2> QED
    BY <1>4, <2>1, <2>2 DEF Frm!CommandsWhole
<1> QED
  BY <1>6, <1>7, <1>8, <1>9

\* All that can be sent lies before the last place.
LEMMA SenderLast ==
  ASSUME NEW at, NEW s, Stream(at, s), SenderOk
  PROVE  SenderAt(at) =< at[Len(Commands) + 1]
<1>1. PICK n \in Nat : n = Len(Commands)
  BY CommandFacts
<1>2. PICK m, part, w : m = sender.msg /\ part = sender.part /\ w = sender.written
  OBVIOUS
<1>3. /\ m \in 1..(n + 1) /\ part \in {"size", "bytes"} /\ w \in Nat
      /\ m =< n => w < IF part = "size" THEN 2 ELSE Bulk(m)
      /\ m > n => part = "size" /\ w = 0
  BY <1>1, <1>2 DEF SenderOk
<1>4. SenderAt(at) = at[m] + (IF part = "size" THEN 0 ELSE 2) + w
  BY <1>2 DEF SenderAt
<1>5. at[m] \in Nat /\ at[n + 1] \in Nat
  BY <1>1, <1>3, PlaceFacts
<1>6. CASE m = n + 1
  BY <1>1, <1>3, <1>4, <1>5, <1>6
<1>7. CASE m # n + 1
  <2>1. m \in 1..n /\ m < n + 1 /\ n + 1 \in 1..(n + 1)
    BY <1>3, <1>7
  <2>2. at[m] + 2 + Bulk(m) =< at[n + 1] /\ Bulk(m) \in Nat
    BY <1>1, <2>1, PlaceFacts
  <2> QED
    BY <1>1, <1>3, <1>4, <1>5, <2>1, <2>2
<1> QED
  BY <1>6, <1>7

LEMMA SmallerOf ==
  ASSUME NEW a \in Nat, NEW b \in Nat
  PROVE  Frm!Min({a, b}) \in Nat /\ Frm!Min({a, b}) =< a /\ Frm!Min({a, b}) =< b
         /\ (Frm!Min({a, b}) = a \/ Frm!Min({a, b}) = b)
<1>1. \E x \in {a, b} : \A y \in {a, b} : x =< y
  BY SMT
<1>2. Frm!Min({a, b}) \in {a, b} /\ \A y \in {a, b} : Frm!Min({a, b}) =< y
  BY <1>1 DEF Frm!Min
<1> QED
  BY <1>2

\* The reader after more bytes: in the same part, in the next one, or with a
\* command more.
LEMMA GotFacts ==
  ASSUME NEW at, NEW s, Stream(at, s), FrameTypes, NEW k, NEW r, ReaderAt(at, s, k, r),
         NEW bytes, NEW r2, Held(bytes, r, r2, s), r < r2, r2 - r =< receiver.left,
         r2 =< SenderAt(at), Frm!Got(bytes)
  PROVE  /\ \E k2 : ReaderAt(at, s, k2, r2)'
         /\ receiver' \in Receivers /\ receiver'.buffered = receiver.buffered
         /\ received' \in Seq(Arrived)
<1>1. PICK n \in Nat : n = Len(Commands)
  BY CommandFacts
<1>2. PICK part, left, data : /\ part = receiver.part /\ left = receiver.left
                              /\ data = receiver.data
  OBVIOUS
<1>3. /\ receiver \in Receivers /\ received \in Seq(Arrived) /\ SenderOk
      /\ part \in {"size", "bytes", "closed"} /\ left \in Nat /\ data \in Seq(Nat)
  BY <1>2 DEF FrameTypes, Receivers
<1>4. /\ k \in 1..(n + 1) /\ Len(received) = k - 1
      /\ \A i \in 1..(k - 1) : received[i] = Commands[i]
      /\ r \in Nat /\ left > 0
  BY <1>1, <1>2 DEF ReaderAt
<1>5. r2 \in Nat /\ Long(bytes, r2 - r) /\ r2 - r =< left
  BY <1>2, HeldLong
<1>6. at[k] \in Nat
  BY <1>1, <1>4, PlaceFacts
<1>7. PICK more, rest : more = Both(data, bytes) /\ rest = left - Len(bytes)
  OBVIOUS
<1>8. rest = left - (r2 - r) /\ rest \in Nat /\ r2 + rest = r + left /\ rest < left
  BY <1>3, <1>4, <1>5, <1>7 DEF Long
<1>9. /\ rest = 0 => Frm!Returned(more, TRUE)
      /\ rest # 0 => /\ receiver' = [receiver EXCEPT !.left = rest, !.data = more]
                     /\ received' = received
  BY <1>2, <1>7 DEF Frm!Got, Both
<1>10. /\ part = "size" => r + left = at[k] + 2 /\ Held(more, at[k], r2, s)
       /\ part = "bytes" => /\ k =< n /\ r + left = at[k + 1]
                            /\ Held(more, at[k] + 2, r2, s)
       /\ part = "size" \/ part = "bytes"
  <2>1. \/ part = "size" /\ r + left = at[k] + 2 /\ Held(data, at[k], r, s)
        \/ part = "bytes" /\ k =< n /\ r + left = at[k + 1] /\ Held(data, at[k] + 2, r, s)
    BY <1>1, <1>2 DEF ReaderAt
  <2>2. \A a : Held(data, a, r, s) => Held(more, a, r2, s)
    BY <1>7, HeldBoth
  <2> QED
    BY <2>1, <2>2
<1>11. more \in Seq(Nat)
  BY <1>10 DEF Held
<1>12. CASE rest # 0
  <2>1. receiver' = [receiver EXCEPT !.left = rest, !.data = more] /\ received' = received
    BY <1>9, <1>12
  <2>2. /\ receiver' \in Receivers /\ receiver'.buffered = receiver.buffered
        /\ receiver'.part = part /\ receiver'.left = rest /\ receiver'.data = more
    BY <1>2, <1>3, <1>8, <1>11, <2>1 DEF Receivers
  <2>3. rest > 0
    BY <1>8, <1>12
  <2>4. ReaderAt(at, s, k, r2)'
    BY <1>1, <1>4, <1>5, <1>8, <1>10, <2>1, <2>2, <2>3 DEF ReaderAt
  <2> QED
    BY <1>3, <2>1, <2>2, <2>4
<1>13. CASE rest = 0 /\ part = "size"
  <2>1. r2 = at[k] + 2 /\ Held(more, at[k], at[k] + 2, s)
    BY <1>4, <1>5, <1>6, <1>8, <1>10, <1>13
  <2>2. k \in 1..n
    <3> SUFFICES ASSUME k = n + 1 PROVE FALSE
      BY <1>4
    <3>1. SenderAt(at) =< at[k] /\ SenderAt(at) \in Nat
      BY <1>1, <1>3, SenderLast, SenderPlace
    <3> QED
      BY <1>5, <1>6, <2>1, <3>1
  <2>3. /\ Bulk(k) \in Nat \ {0} /\ at[k + 1] = at[k] + 2 + Bulk(k)
        /\ Held(Frm!Word(Bulk(k)), at[k], at[k] + 2, s)
    BY <1>1, <2>2, PlaceFacts
  <2>4. more = Frm!Word(Bulk(k))
    BY <2>1, <2>3, HeldSame
  <2>5. Frm!Number(more) = Bulk(k)
    BY <2>3, <2>4, WordFacts
  <2>6. /\ receiver' = [receiver EXCEPT !.part = "bytes", !.left = Bulk(k), !.data = <<>>]
        /\ received' = received
    <3>1. Bulk(k) # 0 /\ receiver.part = "size" /\ Frm!Returned(more, TRUE)
      BY <1>2, <1>9, <1>13, <2>3
    <3> QED
      BY <2>5, <3>1 DEF Frm!Returned
  <2>7. /\ receiver' \in Receivers /\ receiver'.buffered = receiver.buffered
        /\ receiver'.part = "bytes" /\ receiver'.left = Bulk(k) /\ receiver'.data = <<>>
    <3> DEFINE none == <<>>
    <3>0. none \in Seq(Nat)
      OBVIOUS
    <3> HIDE DEF none
    <3>1. PICK b \in Nat : b = Bulk(k)
      BY <2>3
    <3>2. receiver' = [receiver EXCEPT !.part = "bytes", !.left = b, !.data = none]
      BY <2>6, <3>1 DEF none
    <3>3. /\ receiver' \in Receivers /\ receiver'.buffered = receiver.buffered
          /\ receiver'.part = "bytes" /\ receiver'.left = b /\ receiver'.data = none
      BY <1>3, <3>0, <3>2 DEF Receivers
    <3> QED
      BY <3>1, <3>3 DEF none
  <2>8. /\ Held(<<>>, at[k] + 2, r2, s) /\ r2 + Bulk(k) = at[k + 1] /\ Bulk(k) > 0
        /\ k =< n
    <3>1. Held(<<>>, r2, r2, s)
      BY <1>5, HeldEmpty
    <3> QED
      BY <1>5, <2>1, <2>2, <2>3, <3>1
  <2>9. ReaderAt(at, s, k, r2)'
    BY <1>1, <1>4, <1>5, <2>6, <2>7, <2>8 DEF ReaderAt
  <2> QED
    BY <1>3, <2>6, <2>7, <2>9
<1>14. CASE rest = 0 /\ part = "bytes"
  <2>1. k \in 1..n /\ r2 = at[k + 1] /\ Held(more, at[k] + 2, at[k + 1], s)
    <3>1. k \in 1..n /\ r + left = at[k + 1] /\ Held(more, at[k] + 2, r2, s)
      BY <1>4, <1>10, <1>14
    <3>2. r2 = r + left
      BY <1>5, <1>8, <1>14
    <3> QED
      BY <3>1, <3>2
  <2>2. Held(Frame(k), at[k] + 2, at[k + 1], s) /\ k + 1 \in 1..(n + 1)
    BY <1>1, <2>1, PlaceFacts
  <2>3. more = Frame(k)
    BY <2>1, <2>2, HeldSame
  <2>4. Frm!deserialization(more) = Commands[k] /\ Commands[k] \in Arrived
    BY <1>1, <2>1, <2>3, CommandFacts DEF Arrived
  <2>5. /\ receiver' = Frm!Start(receiver.buffered)
        /\ received' = Append(received, Commands[k])
    <3>1. receiver.part # "size" /\ Frm!Returned(more, TRUE)
      BY <1>2, <1>9, <1>14
    <3> QED
      BY <2>4, <3>1 DEF Frm!Returned
  <2>6. /\ receiver' \in Receivers /\ receiver'.buffered = receiver.buffered
        /\ receiver'.part = "size" /\ receiver'.left = 2 /\ receiver'.data = <<>>
    BY <1>3, <2>5 DEF Receivers, Frm!Start
  <2>7. /\ received' \in Seq(Arrived) /\ Len(received') = k
        /\ \A i \in 1..k : received'[i] = Commands[i]
    <3>1. /\ received' \in Seq(Arrived) /\ Len(received') = Len(received) + 1
          /\ received'[Len(received) + 1] = Commands[k]
          /\ \A i \in 1..Len(received) : received'[i] = received[i]
      BY <1>3, <2>4, <2>5
    <3>2. Len(received) + 1 = k /\ Len(received) = k - 1
      BY <1>4
    <3>3. \A i \in 1..k : i = k \/ i \in 1..(k - 1)
      BY <1>4
    <3> QED
      BY <1>4, <3>1, <3>2, <3>3
  <2>8. Held(<<>>, at[k + 1], r2, s) /\ r2 + 2 = at[k + 1] + 2
    BY <1>5, <2>1, HeldEmpty
  <2>9. PICK k2 : k2 = k + 1
    OBVIOUS
  <2>10. k2 \in 1..(n + 1) /\ k2 - 1 = k
    BY <1>4, <2>2, <2>9
  <2>11. ReaderAt(at, s, k2, r2)'
    <3>1. Held(<<>>, at[k2], r2, s) /\ r2 + 2 = at[k2] + 2 /\ 2 > 0
      BY <2>8, <2>9
    <3> QED
      BY <1>1, <1>5, <2>6, <2>7, <2>10, <3>1 DEF ReaderAt
  <2> QED
    BY <2>6, <2>7, <2>11
<1> QED
  BY <1>10, <1>12, <1>13, <1>14

\* One read from the connection.
LEMMA RecvFacts ==
  ASSUME NEW at, NEW s, Stream(at, s), FrameTypes, NEW k, NEW r, NEW q, NEW e,
         ReaderAt(at, s, k, r), CellsAt(at, s, r, q, e), Frm!recv
  PROVE  FrameInv(at, s)'
<1>1. receiver.buffered = FALSE /\ rio = <<>> /\ q = r
  <2>1. receiver.buffered = FALSE
    BY Zenon DEF Frm!recv, FrameTypes, Receivers
  <2>2. rio = <<>> /\ Held(rio, r, q, s)
    BY <2>1 DEF CellsAt
  <2>3. r \in Nat
    BY DEF ReaderAt
  <2> QED
    BY <2>1, <2>2, <2>3, HeldEmpty
<1>2. /\ Held(wire, r, e, s) /\ e =< SenderAt(at) /\ (over # "reset" => e = SenderAt(at))
  BY <1>1 DEF CellsAt
<1>3. r \in Nat /\ e \in Nat /\ Long(wire, e - r) /\ Len(wire) = e - r /\ Len(wire) \in Nat
  BY <1>2, HeldLong DEF Long
<1>4. receiver.left \in Nat
  BY DEF FrameTypes, Receivers
<1>5. PICK n \in 1..Frm!Min({receiver.left, Len(wire)}) :
        /\ Frm!Got(SubSeq(wire, 1, n))
        /\ wire' = SubSeq(wire, n + 1, Len(wire))
  BY DEF Frm!recv
<1>6. n \in Nat /\ n > 0 /\ n =< receiver.left /\ n =< e - r
  <2>1. /\ Frm!Min({receiver.left, Len(wire)}) \in Nat
        /\ Frm!Min({receiver.left, Len(wire)}) =< receiver.left
        /\ Frm!Min({receiver.left, Len(wire)}) =< Len(wire)
    BY <1>3, <1>4, SmallerOf
  <2> QED
    BY <1>3, <1>4, <2>1
<1>7. PICK r2 : r2 = r + n
  OBVIOUS
<1>8. Held(SubSeq(wire, 1, n), r, r2, s) /\ Held(wire', r2, e, s)
  BY <1>2, <1>5, <1>6, <1>7, HeldCut
<1>9. SenderAt(at) \in Nat
  BY SenderPlace DEF FrameTypes
<1>10. r < r2 /\ r2 - r =< receiver.left /\ r2 =< SenderAt(at) /\ r2 \in Nat
  BY <1>2, <1>3, <1>6, <1>7, <1>9
<1>11. /\ \E k2 : ReaderAt(at, s, k2, r2)'
       /\ receiver' \in Receivers /\ receiver'.buffered = receiver.buffered
       /\ received' \in Seq(Arrived)
  BY <1>5, <1>8, <1>10, GotFacts
<1>12. UNCHANGED <<sender, over, rio>>
  BY DEF Frm!recv
<1>13. FrameTypes' /\ SenderAt(at)' = SenderAt(at)
  BY <1>11, <1>12 DEF FrameTypes, SenderOk, SenderAt
<1>14. CellsAt(at, s, r2, r2, e)'
  <2>1. Held(rio', r2, r2, s)
    BY <1>1, <1>10, <1>12, HeldEmpty
  <2> QED
    BY <1>1, <1>2, <1>8, <1>12, <1>13, <2>1 DEF CellsAt
<1> QED
  BY <1>11, <1>13, <1>14 DEF FrameInv

\* One read through the internal buffer.
LEMMA RioReadFacts ==
  ASSUME NEW at, NEW s, Stream(at, s), FrameTypes, NEW k, NEW r, NEW q, NEW e,
         ReaderAt(at, s, k, r), CellsAt(at, s, r, q, e), Frm!rio_read
  PROVE  FrameInv(at, s)'
<1>1. receiver.buffered # FALSE
  BY Zenon DEF Frm!rio_read, FrameTypes, Receivers
<1>2. /\ Held(rio, r, q, s) /\ Held(wire, q, e, s)
      /\ e =< SenderAt(at) /\ (over # "reset" => e = SenderAt(at))
  BY DEF CellsAt
<1>3. /\ r \in Nat /\ q \in Nat /\ e \in Nat /\ r =< q /\ q =< e
      /\ Len(wire) = e - q /\ Len(wire) \in Nat
      /\ (rio = <<>> <=> q = r) /\ (wire = <<>> <=> e = q)
  <2>1. r \in Nat /\ q \in Nat /\ e \in Nat /\ r =< q /\ q =< e
    BY <1>2, HeldLong
  <2>2. Long(wire, e - q)
    BY <1>2, HeldLong
  <2>3. (rio = <<>> <=> q = r) /\ (wire = <<>> <=> e = q)
    BY <1>2, <2>1, HeldEmpty
  <2> QED
    BY <2>1, <2>2, <2>3 DEF Long
<1>4. receiver.left \in Nat /\ receiver.left > 0
  BY DEF FrameTypes, Receivers, ReaderAt
<1>5. PICK filled \in IF rio # <<>> THEN {0} ELSE 1..Frm!Min({RIO_BUFSIZE, Len(wire)}) :
        LET buf == rio \o SubSeq(wire, 1, filled)
            cnt == Frm!Min({receiver.left, Len(buf)})
        IN  /\ Frm!Got(SubSeq(buf, 1, cnt))
            /\ rio' = SubSeq(buf, cnt + 1, Len(buf))
            /\ wire' = SubSeq(wire, filled + 1, Len(wire))
  BY DEF Frm!rio_read
<1>6. PICK buf, cnt : /\ buf = Both(rio, SubSeq(wire, 1, filled))
                      /\ cnt = Frm!Min({receiver.left, Len(buf)})
  OBVIOUS
<1>7. /\ Frm!Got(SubSeq(buf, 1, cnt)) /\ rio' = SubSeq(buf, cnt + 1, Len(buf))
      /\ wire' = SubSeq(wire, filled + 1, Len(wire))
  BY <1>5, <1>6 DEF Both
<1>8. filled \in Nat /\ filled =< e - q /\ r < q + filled
  <2>1. CASE rio # <<>>
    BY <1>3, <2>1
  <2>2. CASE rio = <<>>
    <3>1. filled \in 1..Frm!Min({RIO_BUFSIZE, Len(wire)})
      BY <2>2
    <3>2. /\ Frm!Min({RIO_BUFSIZE, Len(wire)}) \in Nat
          /\ Frm!Min({RIO_BUFSIZE, Len(wire)}) =< Len(wire)
      BY <1>3, FramesAssumption, SmallerOf
    <3> QED
      BY <1>3, <2>2, <3>1, <3>2
  <2> QED
    BY <2>1, <2>2
<1>9. PICK q2 \in Nat : q2 = q + filled
  BY <1>3, <1>8
<1>10. Held(buf, r, q2, s) /\ Held(wire', q2, e, s)
  <2>1. Held(SubSeq(wire, 1, filled), q, q2, s) /\ Held(wire', q2, e, s)
    BY <1>2, <1>7, <1>8, <1>9, HeldCut
  <2> QED
    BY <1>2, <1>6, <2>1, HeldBoth
<1>11. Len(buf) = q2 - r /\ r < q2 /\ q2 =< e
  <2>1. Long(buf, q2 - r)
    BY <1>10, HeldLong
  <2> QED
    BY <1>3, <1>8, <1>9, <2>1 DEF Long
<1>12. cnt \in Nat /\ cnt > 0 /\ cnt =< receiver.left /\ cnt =< q2 - r
  <2>1. PICK l \in Nat : l = Len(buf)
    BY <1>3, <1>11
  <2>2. /\ cnt \in Nat /\ cnt =< receiver.left /\ cnt =< l
        /\ (cnt = receiver.left \/ cnt = l)
    BY <1>4, <1>6, <2>1, SmallerOf
  <2>3. l > 0 /\ l = q2 - r
    BY <1>3, <1>11, <2>1
  <2> QED
    BY <1>4, <2>2, <2>3
<1>13. PICK r2 : r2 = r + cnt
  OBVIOUS
<1>14. Held(SubSeq(buf, 1, cnt), r, r2, s) /\ Held(rio', r2, q2, s)
  BY <1>7, <1>10, <1>12, <1>13, HeldCut
<1>15. SenderAt(at) \in Nat
  BY SenderPlace DEF FrameTypes
<1>16. r < r2 /\ r2 - r =< receiver.left /\ r2 =< SenderAt(at) /\ r2 \in Nat
  BY <1>2, <1>3, <1>11, <1>12, <1>13, <1>15
<1>17. /\ \E k2 : ReaderAt(at, s, k2, r2)'
       /\ receiver' \in Receivers /\ receiver'.buffered = receiver.buffered
       /\ received' \in Seq(Arrived)
  BY <1>7, <1>14, <1>16, GotFacts
<1>18. UNCHANGED <<sender, over>>
  BY DEF Frm!rio_read
<1>19. FrameTypes' /\ SenderAt(at)' = SenderAt(at)
  BY <1>17, <1>18 DEF FrameTypes, SenderOk, SenderAt
<1>20. CellsAt(at, s, r2, q2, e)'
  BY <1>1, <1>2, <1>10, <1>14, <1>17, <1>18, <1>19 DEF CellsAt
<1> QED
  BY <1>17, <1>19, <1>20 DEF FrameInv

-----------------------------------------------------------------------------
(* The sender's steps, and the end of the connection. *)

\* The bytes that are left are a part of the stream.
LEMMA BytesFacts ==
  ASSUME NEW at, NEW s, Stream(at, s), SenderOk, sender.msg =< Len(Commands)
  PROVE  \E a, c : /\ Held(Frm!Bytes, a, c, s) /\ SenderAt(at) = a + sender.written
                   /\ Len(Frm!Bytes) \in Nat /\ c = a + Len(Frm!Bytes)
                   /\ sender.part = "size" => /\ a = at[sender.msg]
                                              /\ c = at[sender.msg] + 2
                                              /\ Len(Frm!Bytes) = 2
                   /\ sender.part = "bytes" => /\ c = at[sender.msg + 1]
                                               /\ Len(Frm!Bytes) = Bulk(sender.msg)
                   /\ sender.written < Len(Frm!Bytes)
<1>1. PICK m, w : m = sender.msg /\ w = sender.written
  OBVIOUS
<1>2. /\ m \in 1..Len(Commands) /\ w \in Nat /\ sender.part \in {"size", "bytes"}
      /\ w < IF sender.part = "size" THEN 2 ELSE Bulk(m)
  BY <1>1, CommandFacts DEF SenderOk
<1>3. /\ at[m] \in Nat /\ at[m + 1] \in Nat /\ Bulk(m) \in Nat
      /\ at[m + 1] = at[m] + 2 + Bulk(m)
      /\ Held(Frm!Word(Bulk(m)), at[m], at[m] + 2, s)
      /\ Held(Frame(m), at[m] + 2, at[m + 1], s)
  BY <1>2, PlaceFacts
<1>4. CASE sender.part = "size"
  <2>1. Frm!Bytes = Frm!Word(Bulk(m))
    BY <1>1, <1>4 DEF Frm!Bytes, Bulk, Frame
  <2>2. Len(Frm!Bytes) = 2
    BY <1>3, <2>1, WordFacts DEF Long
  <2>3. SenderAt(at) = at[m] + w
    BY <1>1, <1>2, <1>3, <1>4 DEF SenderAt
  <2>4. sender.part # "bytes" /\ w < 2
    BY <1>2, <1>4
  <2> QED
    BY <1>1, <1>3, <2>1, <2>2, <2>3, <2>4
<1>5. CASE sender.part = "bytes"
  <2>1. Frm!Bytes = Frame(m)
    BY <1>1, <1>5 DEF Frm!Bytes, Frame
  <2>2. Len(Frm!Bytes) = Bulk(m)
    BY <2>1 DEF Bulk
  <2>3. SenderAt(at) = (at[m] + 2) + w
    BY <1>1, <1>2, <1>3, <1>5 DEF SenderAt
  <2>4. sender.part # "size" /\ w < Bulk(m) /\ at[m + 1] = (at[m] + 2) + Bulk(m)
    BY <1>2, <1>3, <1>5
  <2> QED
    BY <1>1, <1>3, <2>1, <2>2, <2>3, <2>4
<1> QED
  BY <1>2, <1>4, <1>5

\* A part of a stretch.
LEMMA HeldMiddle ==
  ASSUME NEW f, NEW u, NEW a, NEW c, Held(u, a, c, f),
         NEW m \in Nat, NEW n \in Nat, m <= n, n <= c - a
  PROVE  Held(SubSeq(u, m + 1, n), a + m, a + n, f)
<1>1. a \in Nat /\ c \in Nat /\ Long(u, c - a)
  BY HeldLong
<1>2. PICK l \in Nat : l = c - a
  BY <1>1, <1>1 DEF Long
<1>3. Long(u, l) /\ n <= l /\ \A i \in 1..l : u[i] = f[a + i]
  BY <1>1, <1>2 DEF Held
<1>4. /\ Long(SubSeq(u, m + 1, n), n - m)
      /\ \A i \in 1..(n - m) : SubSeq(u, m + 1, n)[i] = u[m + i]
  BY <1>3, PieceFacts
<1>5. ASSUME NEW i \in 1..(n - m)
      PROVE  SubSeq(u, m + 1, n)[i] = f[(a + m) + i]
  <2>1. m + i \in 1..l /\ a + (m + i) = (a + m) + i
    BY <1>1, <1>3
  <2> QED
    BY <1>3, <1>4, <2>1
<1>6. a + m \in Nat /\ a + n \in Nat /\ (a + n) - (a + m) = n - m
  BY <1>1
<1> QED
  BY <1>4, <1>5, <1>6 DEF Held, Long

LEMMA SendFacts ==
  ASSUME NEW at, NEW s, Stream(at, s), FrameTypes, NEW k, NEW r, NEW q, NEW e,
         ReaderAt(at, s, k, r), CellsAt(at, s, r, q, e), Frm!send
  PROVE  FrameInv(at, s)'
<1>1. /\ over = "open" /\ sender.msg =< Len(Commands)
      /\ UNCHANGED <<over, receiver, rio, received>> /\ SenderOk
  BY DEF Frm!send, FrameTypes
<1>2. PICK m, w, l : m = sender.msg /\ w = sender.written /\ l = Len(Frm!Bytes)
  OBVIOUS
<1>3. PICK a, c : /\ Held(Frm!Bytes, a, c, s) /\ SenderAt(at) = a + w
                  /\ l \in Nat /\ c = a + l
                  /\ sender.part = "size" => a = at[m] /\ c = at[m] + 2 /\ l = 2
                  /\ sender.part = "bytes" => c = at[m + 1] /\ l = Bulk(m)
                  /\ w < l
  BY <1>1, <1>2, BytesFacts
<1>4. /\ m \in 1..Len(Commands) /\ w \in Nat /\ Len(Commands) \in Nat
      /\ m + 1 \in 1..(Len(Commands) + 1) /\ m \in 1..(Len(Commands) + 1)
      /\ sender.part \in {"size", "bytes"}
      /\ sender \in [msg : 1..(Len(Commands) + 1), part : {"size", "bytes"}, written : Nat]
  BY <1>1, <1>2, CommandFacts DEF SenderOk
<1>5. /\ at[m] \in Nat /\ at[m + 1] \in Nat /\ Bulk(m) \in Nat \ {0}
      /\ at[m + 1] = at[m] + 2 + Bulk(m)
  BY <1>4, PlaceFacts
<1>6. PICK n \in (w + 1)..l :
        /\ wire' = wire \o SubSeq(Frm!Bytes, w + 1, n)
        /\ sender' = IF n < l THEN [sender EXCEPT !.written = n]
                     ELSE IF sender.part = "size"
                     THEN [sender EXCEPT !.part = "bytes", !.written = 0]
                     ELSE [msg |-> m + 1, part |-> "size", written |-> 0]
  BY <1>2 DEF Frm!send
<1>7. n \in Nat /\ w =< n /\ n =< l /\ a \in Nat /\ c - a = l
  <2>1. n \in Nat /\ w =< n /\ n =< l
    <3>1. w + 1 \in Nat /\ l \in Nat
      BY <1>3, <1>4
    <3>2. n \in Int /\ w + 1 =< n /\ n =< l
      BY <1>6, <3>1
    <3> QED
      BY <1>4, <3>2
  <2>2. a \in Nat
    BY <1>3, HeldLong
  <2> QED
    BY <1>3, <2>1, <2>2
<1>8. Held(SubSeq(Frm!Bytes, w + 1, n), a + w, a + n, s)
  BY <1>3, <1>4, <1>7, HeldMiddle
<1>9. /\ Held(rio, r, q, s) /\ Held(wire, q, SenderAt(at), s)
      /\ receiver.buffered = FALSE => rio = <<>>
  <2>1. over # "reset" /\ Held(wire, q, e, s) /\ (over # "reset" => e = SenderAt(at))
    BY <1>1 DEF CellsAt
  <2>2. Held(rio, r, q, s) /\ (receiver.buffered = FALSE => rio = <<>>)
    BY DEF CellsAt
  <2> QED
    BY <2>1, <2>2
<1>10. Held(wire', q, a + n, s)
  <2>1. wire' = Both(wire, SubSeq(Frm!Bytes, w + 1, n))
    BY <1>6 DEF Both
  <2> QED
    BY <1>3, <1>8, <1>9, <2>1, HeldBoth
<1>11. SenderOk' /\ SenderAt(at)' = a + n
  <2>1. CASE n < l
    <3>1. sender' = [sender EXCEPT !.written = n]
      BY <1>6, <2>1
    <3>2. /\ sender'.msg = m /\ sender'.part = sender.part /\ sender'.written = n
          /\ sender' \in [msg : 1..(Len(Commands) + 1), part : {"size", "bytes"},
                          written : Nat]
      BY <1>2, <1>4, <1>7, <3>1
    <3>3. l = IF sender.part = "size" THEN 2 ELSE Bulk(m)
      BY <1>3, <1>4
    <3>4. ~(m > Len(Commands))
      BY <1>4
    <3>5. SenderOk'
      BY <2>1, <3>2, <3>3, <3>4 DEF SenderOk
    <3>6. PICK x \in Nat : x = IF sender.part = "size" THEN 0 ELSE 2
      OBVIOUS
    <3>7. SenderAt(at) = at[m] + x + w
      BY <1>2, <3>6 DEF SenderAt
    <3>8. SenderAt(at)' = at[m] + x + n
      BY <3>2, <3>6 DEF SenderAt
    <3>9. a + w = at[m] + x + w
      BY <1>3, <3>7
    <3>10. a + n = at[m] + x + n
      <4>1. \A i, j, h, b, c2 \in Nat : i + h = j + b + h => i + c2 = j + b + c2
        OBVIOUS
      <4>2. w \in Nat /\ at[m] \in Nat /\ a \in Nat /\ n \in Nat
        BY <1>4, <1>5, <1>7
      <4> QED
        BY <3>9, <4>1, <4>2
    <3> QED
      BY <3>5, <3>8, <3>10
  <2>2. CASE ~(n < l) /\ sender.part = "size"
    <3>1. sender' = [sender EXCEPT !.part = "bytes", !.written = 0]
      BY <1>6, <2>2
    <3>2. /\ sender'.msg = m /\ sender'.part = "bytes" /\ sender'.written = 0
          /\ sender' \in [msg : 1..(Len(Commands) + 1), part : {"size", "bytes"},
                          written : Nat]
      BY <1>2, <1>4, <3>1
    <3>3. SenderOk'
      BY <1>4, <1>5, <3>2 DEF SenderOk
    <3>4. SenderAt(at)' = at[m] + 2 + 0
      BY <3>2 DEF SenderAt
    <3> QED
      BY <1>3, <1>5, <1>7, <2>2, <3>3, <3>4
  <2>3. CASE ~(n < l) /\ sender.part = "bytes"
    <3>1. sender' = [msg |-> m + 1, part |-> "size", written |-> 0]
      BY <1>6, <2>3
    <3>2. /\ sender'.msg = m + 1 /\ sender'.part = "size" /\ sender'.written = 0
          /\ sender' \in [msg : 1..(Len(Commands) + 1), part : {"size", "bytes"},
                          written : Nat]
      BY <1>4, <3>1
    <3>3. SenderOk'
      BY <3>2 DEF SenderOk
    <3>4. SenderAt(at)' = at[m + 1] + 0 + 0
      BY <3>2 DEF SenderAt
    <3> QED
      BY <1>3, <1>5, <1>7, <2>3, <3>3, <3>4
  <2> QED
    BY <1>4, <2>1, <2>2, <2>3
<1>12. FrameTypes'
  BY <1>1, <1>11 DEF FrameTypes
<1>13. ReaderAt(at, s, k, r)'
  BY <1>1 DEF ReaderAt
<1>14. CellsAt(at, s, r, q, a + n)'
  <2>1. a + n =< a + n
    BY <1>7
  <2> QED
    BY <1>1, <1>9, <1>10, <1>11, <2>1 DEF CellsAt
<1> QED
  BY <1>12, <1>13, <1>14 DEF FrameInv

LEMMA SenderEndsFacts ==
  ASSUME NEW at, NEW s, Stream(at, s), FrameTypes, NEW k, NEW r, NEW q, NEW e,
         ReaderAt(at, s, k, r), CellsAt(at, s, r, q, e), Frm!SenderEnds
  PROVE  FrameInv(at, s)'
<1>1. /\ over = "open" /\ over' \in {"closed", "reset"}
      /\ wire' = (IF over' = "reset" THEN <<>> ELSE wire)
      /\ UNCHANGED <<sender, receiver, rio, received>>
  BY DEF Frm!SenderEnds
<1>2. /\ Held(rio, r, q, s) /\ Held(wire, q, e, s)
      /\ e =< SenderAt(at) /\ (over # "reset" => e = SenderAt(at))
      /\ receiver.buffered = FALSE => rio = <<>>
  BY DEF CellsAt
<1>3. q \in Nat /\ e \in Nat /\ q =< e
  BY <1>2, HeldLong
<1>4. FrameTypes' /\ ReaderAt(at, s, k, r)' /\ SenderAt(at)' = SenderAt(at)
      /\ SenderAt(at) \in Nat
  BY <1>1, SenderPlace DEF FrameTypes, SenderOk, ReaderAt, SenderAt
<1>5. CASE over' = "reset"
  <2>1. wire' = <<>> /\ Held(<<>>, q, q, s)
    BY <1>1, <1>3, <1>5, HeldEmpty
  <2>2. q =< SenderAt(at)
    BY <1>2, <1>3, <1>4
  <2>3. CellsAt(at, s, r, q, q)'
    BY <1>1, <1>2, <1>4, <1>5, <2>1, <2>2 DEF CellsAt
  <2> QED
    BY <1>4, <2>3 DEF FrameInv
<1>6. CASE over' = "closed"
  <2>1. CellsAt(at, s, r, q, e)'
    BY <1>1, <1>2, <1>4, <1>6 DEF CellsAt
  <2> QED
    BY <1>4, <2>1 DEF FrameInv
<1> QED
  BY <1>1, <1>5, <1>6

\* One more, that nobody sent, comes last on a connection that was cut.
LEMMA GarbledLast ==
  ASSUME received \in Seq(Arrived), SenderOk, Whole, Len(received) < sender.msg, Cut,
         received' = Append(received, Frm!Garbled), UNCHANGED <<sender, over>>
  PROVE  received' \in Seq(Arrived) /\ Frm!CommandsWhole'
<1>1. PICK n \in Nat : n = Len(received)
  OBVIOUS
<1>2. Frm!Garbled \in Arrived
  BY DEF Arrived
<1>3. /\ received' \in Seq(Arrived) /\ Len(received') = n + 1
      /\ received'[n + 1] = Frm!Garbled
      /\ \A i \in 1..n : received'[i] = received[i]
  BY <1>1, <1>2
<1>4. sender.msg \in Nat /\ n < sender.msg /\ \A i \in 1..n : received[i] = Commands[i]
  BY <1>1, CommandFacts DEF SenderOk, Whole
<1>5. over' = "reset" \/ (over' = "closed" /\ <<sender'.part, sender'.written>> # <<"size", 0>>)
  <2>1. \A a, b : <<a, b>> = <<"size", 0>> => a = "size" /\ b = 0
    OBVIOUS
  <2>2. Cut'
    BY DEF Cut
  <2> QED
    BY <2>1, <2>2 DEF Cut
<1>6. Len(received') =< (sender'.msg - 1) + 1
  BY <1>3, <1>4
<1>7. \A i \in 1..Len(received') :
        received'[i] = Commands[i] \/ (i = Len(received') /\ received'[i] = Frm!Garbled)
  <2> SUFFICES ASSUME NEW i \in 1..(n + 1)
               PROVE  received'[i] = Commands[i] \/ (i = n + 1 /\ received'[i] = Frm!Garbled)
    BY <1>3
  <2>1. CASE i = n + 1
    BY <1>3, <2>1
  <2>2. CASE i # n + 1
    <3>1. i \in 1..n
      BY <2>2
    <3> QED
      BY <1>3, <1>4, <3>1
  <2> QED
    BY <2>1, <2>2
<1>8. Frm!CommandsWhole'
  BY <1>5, <1>6, <1>7 DEF Frm!CommandsWhole
<1> QED
  BY <1>3, <1>8

-----------------------------------------------------------------------------
(* The end of what comes. *)

\* The number read from no byte is zero; from one, a natural number.
LEMMA NoNumber == Frm!Number(<<>>) = 0
BY DEF Frm!Number

LEMMA NumberNat ==
  ASSUME NEW u, NEW n, Long(u, n), n < 2
  PROVE  Frm!Number(u) \in Nat
<1>1. u \in Seq(Nat) /\ n \in Nat /\ Len(u) = n
  BY DEF Long
<1>2. CASE n = 0
  BY <1>1, <1>2 DEF Frm!Number
<1>3. CASE n = 1
  <2>1. u[1] \in Nat /\ Len(u) > 0 /\ ~(Len(u) > 1)
    <3>1. \A i \in 1..Len(u) : u[i] \in Nat
      BY <1>1
    <3>2. 1 \in 1..Len(u) /\ Len(u) > 0 /\ ~(Len(u) > 1)
      BY <1>1, <1>3
    <3> QED
      BY <3>1, <3>2
  <2>2. Frm!Number(u) = u[1] + 0
    BY <2>1 DEF Frm!Number
  <2> QED
    BY <2>1, <2>2
<1> QED
  BY <1>1, <1>2, <1>3

\* The end of the connection after whole commands: nothing more, or one that
\* nobody sent.
LEMMA RecvEndFacts ==
  ASSUME NEW at, NEW s, Stream(at, s), FrameTypes, NEW k, NEW r, NEW q, NEW e,
         ReaderAt(at, s, k, r), CellsAt(at, s, r, q, e), Frm!recvEnd
  PROVE  FrameInv(at, s)'
<1>1. PICK n \in Nat : n = Len(Commands)
  BY CommandFacts
<1>2. /\ over # "open" /\ wire = <<>> /\ rio = <<>> /\ UNCHANGED <<sender, wire, over, rio>>
      /\ over \in {"closed", "reset"}
      /\ receiver \in Receivers /\ received \in Seq(Arrived) /\ SenderOk
      /\ receiver.part \in {"size", "bytes", "closed"} /\ receiver.left \in Nat
      /\ receiver.data \in Seq(Nat)
  BY DEF Frm!recvEnd, FrameTypes, Receivers
<1>3. /\ r \in Nat /\ e = r /\ r =< SenderAt(at) /\ (over = "closed" => r = SenderAt(at))
  <2>1. /\ Held(rio, r, q, s) /\ Held(wire, q, e, s)
        /\ e =< SenderAt(at) /\ (over # "reset" => e = SenderAt(at))
    BY DEF CellsAt
  <2>2. r \in Nat /\ q \in Nat
    BY <2>1, HeldLong
  <2>3. q = r /\ e = q
    BY <1>2, <2>1, <2>2, HeldEmpty
  <2>4. over = "closed" => over # "reset"
    OBVIOUS
  <2> QED
    BY <2>1, <2>2, <2>3, <2>4
<1>4. /\ k \in 1..(n + 1) /\ Len(received) = k - 1
      /\ \A i \in 1..(k - 1) : received[i] = Commands[i]
      /\ receiver.left > 0
      /\ \/ /\ receiver.part = "size" /\ r + receiver.left = at[k] + 2
            /\ Held(receiver.data, at[k], r, s)
         \/ /\ receiver.part = "bytes" /\ k =< n
            /\ r + receiver.left = at[k + 1]
            /\ Held(receiver.data, at[k] + 2, r, s)
  BY <1>1 DEF ReaderAt
<1>5. Whole /\ k =< sender.msg /\ Len(received) < sender.msg /\ Frm!CommandsWhole
  BY <1>3, ReaderWhole
<1>6. /\ SenderAt(at) \in Nat /\ sender.msg \in Nat /\ at[k] \in Nat
      /\ \A j \in 1..n : at[j] < SenderAt(at) /\ SenderAt(at) < at[j + 1]
                           => sender.part # "size" \/ sender.written # 0
  <2>1. at[k] \in Nat
    BY <1>1, <1>4, PlaceFacts
  <2> QED
    BY <1>1, <1>2, <2>1, SenderPlace
<1>7. UNCHANGED <<sender, over>> /\ SenderOk' /\ Cut' = Cut /\ over' # "open"
      /\ rio' = <<>> /\ wire' = <<>> /\ over' \in {"open", "closed", "reset"}
  BY <1>2 DEF SenderOk, Cut
<1>8. CASE receiver.part = "size" /\ over = "reset"
  <2>1. receiver' = [receiver EXCEPT !.part = "closed"] /\ received' = received
    BY <1>8 DEF Frm!recvEnd
  <2>2. receiver' \in Receivers /\ receiver'.part = "closed"
    BY <1>2, <2>1 DEF Receivers
  <2>3. Frm!CommandsWhole'
    BY <1>5, <1>7, <2>1 DEF Frm!CommandsWhole
  <2>4. Stopped'
    BY <1>7, <2>2, <2>3 DEF Stopped
  <2> QED
    BY <1>2, <1>7, <2>1, <2>2, <2>4 DEF FrameInv, FrameTypes
<1>9. CASE receiver.part = "size" /\ over # "reset"
  <2>1. Frm!Returned(receiver.data, FALSE) /\ over = "closed" /\ r = SenderAt(at)
    BY <1>2, <1>3, <1>9 DEF Frm!recvEnd
  <2>2. PICK num : num = Frm!Number(receiver.data)
    OBVIOUS
  <2>3. Held(receiver.data, at[k], r, s) /\ r + receiver.left = at[k] + 2
    BY <1>4, <1>9
  <2>4. Long(receiver.data, r - at[k]) /\ at[k] =< r
    BY <2>3, HeldLong
  <2>5. r - at[k] < 2 /\ r < at[k] + 2
    BY <1>2, <1>3, <1>4, <1>6, <2>3, <2>4
  <2>6. num \in Nat
    BY <2>2, <2>4, <2>5, NumberNat
  <2>7. CASE num = 0
    <3>1. receiver' = [receiver EXCEPT !.part = "closed"] /\ received' = received
      BY <1>9, <2>1, <2>2, <2>7 DEF Frm!Returned
    <3>2. receiver' \in Receivers /\ receiver'.part = "closed"
      BY <1>2, <3>1 DEF Receivers
    <3>3. Frm!CommandsWhole'
      BY <1>5, <1>7, <3>1 DEF Frm!CommandsWhole
    <3>4. Stopped'
      BY <1>7, <3>2, <3>3 DEF Stopped
    <3> QED
      BY <1>2, <1>7, <3>1, <3>2, <3>4 DEF FrameInv, FrameTypes
  <2>8. CASE num # 0
    <3>1. /\ receiver' = [receiver EXCEPT !.part = "bytes", !.left = num, !.data = <<>>]
          /\ received' = received
      BY <1>9, <2>1, <2>2, <2>8 DEF Frm!Returned
    <3> DEFINE none == <<>>
    <3>2. none \in Seq(Nat) /\ receiver' = [receiver EXCEPT !.part = "bytes", !.left = num,
                                                            !.data = none]
      BY <3>1
    <3> HIDE DEF none
    <3>3. receiver' \in Receivers /\ receiver'.part = "bytes" /\ receiver'.data = none
      BY <1>2, <2>6, <3>2 DEF Receivers
    <3>4. at[k] < r
      <4> SUFFICES ASSUME at[k] = r PROVE FALSE
        BY <1>3, <1>6, <2>4
      <4>1. receiver.data = <<>>
        BY <1>3, <2>3, HeldEmpty
      <4> QED
        BY <2>2, <2>8, <4>1, NoNumber
    <3>5. Cut
      <4>1. k \in 1..n
        <5> SUFFICES ASSUME k = n + 1 PROVE FALSE
          BY <1>4
        <5>1. SenderAt(at) =< at[k]
          BY <1>1, <1>2, SenderLast
        <5> QED
          BY <1>3, <1>6, <2>1, <3>4, <5>1
      <4>2. at[k + 1] = at[k] + 2 + Bulk(k) /\ Bulk(k) \in Nat
        BY <1>1, <4>1, PlaceFacts
      <4>3. at[k] < SenderAt(at) /\ SenderAt(at) < at[k + 1]
        BY <1>3, <1>6, <2>1, <2>5, <3>4, <4>2, <1>1, <4>1, PlaceFacts
      <4> QED
        BY <1>6, <2>1, <4>1, <4>3 DEF Cut
    <3>6. Frm!CommandsWhole' /\ Whole' /\ (Len(received) < sender.msg)'
      BY <1>5, <1>7, <3>1 DEF Frm!CommandsWhole, Whole
    <3>7. Stopped'
      BY <1>7, <3>3, <3>5, <3>6 DEF Stopped, none
    <3> QED
      BY <1>2, <1>7, <3>1, <3>3, <3>7 DEF FrameInv, FrameTypes
  <2> QED
    BY <2>7, <2>8
<1>10. CASE receiver.part = "bytes"
  <2>1. Frm!Returned(receiver.data, FALSE)
    BY <1>10 DEF Frm!recvEnd
  <2>2. /\ receiver' = Frm!Start(receiver.buffered)
        /\ received' = Append(received, Frm!Garbled)
    BY <1>10, <2>1 DEF Frm!Returned
  <2>3. receiver' \in Receivers /\ receiver'.part = "size" /\ receiver'.data = <<>>
    BY <1>2, <2>2 DEF Receivers, Frm!Start
  <2>4. Cut
    <3>1. CASE over = "reset"
      BY <3>1 DEF Cut
    <3>2. CASE over = "closed"
      <4>1. /\ k \in 1..n /\ r = SenderAt(at) /\ Held(receiver.data, at[k] + 2, r, s)
            /\ r + receiver.left = at[k + 1]
        BY <1>3, <1>4, <1>10, <3>2
      <4>2. at[k] + 2 =< r
        BY <4>1, HeldLong
      <4>3. at[k] < SenderAt(at) /\ SenderAt(at) < at[k + 1]
        BY <1>2, <1>3, <1>4, <1>6, <4>1, <4>2
      <4> QED
        BY <1>6, <3>2, <4>1, <4>3 DEF Cut
    <3> QED
      BY <1>2, <3>1, <3>2
  <2>5. received' \in Seq(Arrived) /\ Frm!CommandsWhole'
    BY <1>2, <1>5, <1>7, <2>2, <2>4, GarbledLast
  <2>6. Stopped'
    BY <1>7, <2>3, <2>5 DEF Stopped
  <2> QED
    BY <1>2, <1>7, <2>3, <2>5, <2>6 DEF FrameInv, FrameTypes
<1> QED
  BY <1>4, <1>8, <1>9, <1>10

\* After the end nothing comes but the last message of a cut connection.
LEMMA StoppedFacts ==
  ASSUME NEW at, NEW s, Stream(at, s), FrameTypes, Stopped, Frm!Next
  PROVE  FrameInv(at, s)'
<1>1. /\ over # "open" /\ over \in {"closed", "reset"} /\ rio = <<>> /\ wire = <<>>
      /\ receiver.part # "closed" => receiver.data = <<>>
      /\ receiver.part = "bytes" => Cut /\ Whole /\ Len(received) < sender.msg
      /\ Frm!CommandsWhole
      /\ receiver \in Receivers /\ received \in Seq(Arrived) /\ SenderOk
      /\ receiver.part \in {"size", "bytes", "closed"}
  BY DEF Stopped, FrameTypes, Receivers
<1>2. Frm!recvEnd
  <2>1. ~Frm!send /\ ~Frm!SenderEnds /\ ~Frm!recv /\ ~Frm!rio_read
    BY <1>1 DEF Frm!send, Frm!SenderEnds, Frm!recv, Frm!rio_read
  <2> QED
    BY <2>1, Zenon DEF Frm!Next, Frm!recvmsg, Frm!recvmsgFromBuffer
<1>3. /\ receiver.part # "closed" /\ UNCHANGED <<sender, wire, over, rio>>
  BY <1>2 DEF Frm!recvEnd, Frm!Receiving
<1>4. SenderOk' /\ Cut' = Cut /\ over' # "open" /\ rio' = <<>> /\ wire' = <<>>
      /\ over' \in {"open", "closed", "reset"}
  BY <1>1, <1>3 DEF SenderOk, Cut
<1>5. CASE receiver.part = "size"
  <2>1. receiver' = [receiver EXCEPT !.part = "closed"] /\ received' = received
    <3>1. Frm!Number(receiver.data) = 0
      BY <1>1, <1>3, NoNumber
    <3>2. CASE over = "reset"
      BY <1>2, <1>5, <3>2 DEF Frm!recvEnd
    <3>3. CASE over # "reset"
      <4>1. Frm!Returned(receiver.data, FALSE)
        BY <1>2, <3>3 DEF Frm!recvEnd
      <4> QED
        BY <1>5, <3>1, <4>1 DEF Frm!Returned
    <3> QED
      BY <3>2, <3>3
  <2>2. receiver' \in Receivers /\ receiver'.part = "closed"
    BY <1>1, <2>1 DEF Receivers
  <2>3. Frm!CommandsWhole'
    BY <1>1, <1>3, <2>1 DEF Frm!CommandsWhole
  <2>4. Stopped'
    BY <1>4, <2>2, <2>3 DEF Stopped
  <2> QED
    BY <1>1, <1>4, <2>1, <2>2, <2>4 DEF FrameInv, FrameTypes
<1>6. CASE receiver.part = "bytes"
  <2>1. Frm!Returned(receiver.data, FALSE)
    BY <1>2, <1>6 DEF Frm!recvEnd
  <2>2. /\ receiver' = Frm!Start(receiver.buffered)
        /\ received' = Append(received, Frm!Garbled)
    BY <1>6, <2>1 DEF Frm!Returned
  <2>3. receiver' \in Receivers /\ receiver'.part = "size" /\ receiver'.data = <<>>
    BY <1>1, <2>2 DEF Receivers, Frm!Start
  <2>4. received' \in Seq(Arrived) /\ Frm!CommandsWhole'
    BY <1>1, <1>3, <1>6, <2>2, GarbledLast
  <2>5. Stopped'
    BY <1>4, <2>3, <2>4 DEF Stopped
  <2> QED
    BY <1>4, <2>3, <2>4, <2>5 DEF FrameInv, FrameTypes
<1> QED
  BY <1>1, <1>3, <1>5, <1>6

-----------------------------------------------------------------------------
LEMMA FrameInit ==
  ASSUME NEW at, NEW s, Stream(at, s), Frm!Init
  PROVE  FrameInv(at, s)
<1>1. PICK n \in Nat : n = Len(Commands)
  BY CommandFacts
<1>2. /\ 1 \in 1..(n + 1) /\ at[1] = 0
      /\ n >= 1 => Bulk(1) \in Nat
  BY <1>1, CommandFacts DEF Stream, Places
<1>3. /\ sender = [msg |-> 1, part |-> "size", written |-> 0]
      /\ wire = <<>> /\ over = "open" /\ rio = <<>> /\ received = <<>>
  BY DEF Frm!Init
<1>4. receiver \in Receivers /\ receiver.part = "size" /\ receiver.left = 2
      /\ receiver.data = <<>>
  BY DEF Frm!Init, Frm!Start, Receivers
<1>5. FrameTypes
  <2>1. SenderOk
    BY <1>1, <1>2, <1>3 DEF SenderOk
  <2> QED
    BY <1>3, <1>4, <2>1 DEF FrameTypes
<1>6. SenderAt(at) = 0
  BY <1>2, <1>3 DEF SenderAt
<1>7. Held(<<>>, 0, 0, s)
  BY HeldEmpty
<1>8. ReaderAt(at, s, 1, 0)
  <2>1. Len(received) = 1 - 1 /\ \A i \in 1..(1 - 1) : received[i] = Commands[i]
    BY <1>3
  <2> QED
    BY <1>1, <1>2, <1>4, <1>7, <2>1 DEF ReaderAt
<1>9. CellsAt(at, s, 0, 0, 0)
  BY <1>3, <1>6, <1>7 DEF CellsAt
<1> QED
  BY <1>5, <1>8, <1>9 DEF FrameInv

LEMMA FrameStep ==
  ASSUME NEW at, NEW s, Stream(at, s), FrameInv(at, s), Frm!Next \/ UNCHANGED frames
  PROVE  FrameInv(at, s)'
<1>1. CASE Frm!Next /\ Stopped
  BY <1>1, StoppedFacts DEF FrameInv
<1>2. CASE Frm!Next /\ ~Stopped
  <2>1. PICK k, r, q, e : ReaderAt(at, s, k, r) /\ CellsAt(at, s, r, q, e)
    BY <1>2 DEF FrameInv
  <2>2. FrameTypes
    BY DEF FrameInv
  <2>3. Frm!send \/ Frm!SenderEnds \/ Frm!recv \/ Frm!rio_read \/ Frm!recvEnd
    BY <1>2, Zenon DEF Frm!Next, Frm!recvmsg, Frm!recvmsgFromBuffer
  <2>4. CASE Frm!send
    BY <2>1, <2>2, <2>4, SendFacts
  <2>5. CASE Frm!SenderEnds
    BY <2>1, <2>2, <2>5, SenderEndsFacts
  <2>6. CASE Frm!recv
    BY <2>1, <2>2, <2>6, RecvFacts
  <2>7. CASE Frm!rio_read
    BY <2>1, <2>2, <2>7, RioReadFacts
  <2>8. CASE Frm!recvEnd
    BY <2>1, <2>2, <2>8, RecvEndFacts
  <2> QED
    BY <2>3, <2>4, <2>5, <2>6, <2>7, <2>8
<1>3. CASE UNCHANGED frames
  <2>1. UNCHANGED <<sender, wire, over, receiver, rio, received>>
    BY <1>3 DEF frames
  <2> QED
    BY <2>1 DEF FrameInv, FrameTypes, SenderOk, SenderAt, ReaderAt, CellsAt, Stopped,
                Whole, Cut, Frm!CommandsWhole
<1> QED
  BY <1>1, <1>2, <1>3

LEMMA FrameWhole ==
  ASSUME NEW at, NEW s, Stream(at, s), FrameInv(at, s)
  PROVE  Frm!CommandsWhole
<1>1. CASE Stopped
  BY <1>1 DEF Stopped
<1>2. CASE ~Stopped
  <2>1. PICK k, r, q, e : ReaderAt(at, s, k, r) /\ CellsAt(at, s, r, q, e) /\ FrameTypes
    BY <1>2 DEF FrameInv
  <2>2. r =< SenderAt(at)
    <3>1. /\ Held(rio, r, q, s) /\ Held(wire, q, e, s) /\ e =< SenderAt(at)
      BY <2>1 DEF CellsAt
    <3>2. r \in Nat /\ q \in Nat /\ e \in Nat /\ r =< q /\ q =< e
      BY <3>1, HeldLong
    <3>3. SenderAt(at) \in Nat
      BY <2>1, SenderPlace DEF FrameTypes
    <3> QED
      BY <3>1, <3>2, <3>3
  <2> QED
    BY <2>1, <2>2, ReaderWhole
<1> QED
  BY <1>1, <1>2

-----------------------------------------------------------------------------
\* Of each transaction all statements are committed or none, and all if the
\* call has returned true (sqlconnection.cpp, Transaction), wherever the
\* connection is lost. The commands received are those sent, in order, however
\* their bytes are written and read (Connection.cpp, Protocol.cpp): for any
\* number of statements and calls, and any commands.
THEOREM AllOrNothing == Spec => []WholeOrNothing
<1>1. PICK at, s : Stream(at, s)
  BY StreamExists
<1>2. Init => SqlInv /\ FrameInv(at, s)
  BY <1>1, SqlInit, FrameInit DEF Init
<1>3. SqlInv /\ [Next]_vars => SqlInv'
  <2> SUFFICES ASSUME SqlInv, [Next]_vars PROVE SqlInv'
    OBVIOUS
  <2>1. [Sql!Next]_sql
    BY Zenon DEF Next, Service, Sorting, Requesting, Redis, ZeroMQ, services, vars
  <2> QED
    BY <2>1, SizeAssumption, SqlStep
<1>4. FrameInv(at, s) /\ [Next]_vars => FrameInv(at, s)'
  <2> SUFFICES ASSUME FrameInv(at, s), [Next]_vars PROVE FrameInv(at, s)'
    OBVIOUS
  <2>1. Frm!Next \/ UNCHANGED frames
    BY Zenon DEF Next, Service, Sorting, Requesting, Redis, ZeroMQ, services, vars
  <2> QED
    BY <1>1, <2>1, FrameStep
<1>5. SqlInv /\ FrameInv(at, s) => WholeOrNothing
  BY <1>1, SqlWhole, FrameWhole DEF WholeOrNothing
<1> QED
  BY <1>2, <1>3, <1>4, <1>5, PTL DEF Spec

-----------------------------------------------------------------------------
(* The broker with fan-out, and its subscribers. *)

Cmds == [cmd : {"regist", "sub", "unsub"}, topic : Topics \cup {0}]
Queues == [queue : Seq(Messages), sendList : Seq(Clients)]

FanTypes ==
  /\ topics_ \in [Clients -> SUBSET Topics]
  /\ up \in [Clients -> Seq(Cmds)]
  /\ Fan!Registered \subseteq Clients
  /\ \A c \in Fan!Registered : subscriberMap_[c] \subseteq Topics
  /\ \A t \in DOMAIN queueMap_ : /\ queueMap_[t] \in Queues
                                 /\ IsInjective(queueMap_[t].sendList)

\* Each connection registers with its first command, and with no other.
RegistersFirst ==
  \A c \in Clients :
    /\ c \notin Fan!Registered => up[c] # << >>
    /\ \A i \in DOMAIN up[c] :
         /\ up[c][i].cmd = "regist" <=> i = 1 /\ c \notin Fan!Registered
         /\ up[c][i].cmd # "regist" => up[c][i].topic \in Topics

\* What the two tables of the broker say.
Has(c, t) == c \in Fan!Registered /\ t \in subscriberMap_[c]
Listed(c, t) == t \in DOMAIN queueMap_ /\ Contains(queueMap_[t].sendList, c)

TablesMatch ==
  /\ \A c \in Clients, t \in Topics : Has(c, t) <=> Listed(c, t)
  /\ \A c \in Clients, t \in DOMAIN queueMap_ : Listed(c, t) => c \in Fan!Registered

\* What a subscriber believes of a topic is what its last command about it that
\* is on the way says, or what the broker has, if there is none.
About(m, t) == m.cmd # "regist" /\ m.topic = t
Believed(c, t) ==
  /\ (\A i \in DOMAIN up[c] : ~About(up[c][i], t)) => (t \in topics_[c] <=> Has(c, t))
  /\ \A i \in DOMAIN up[c] :
       About(up[c][i], t) /\ (\A j \in DOMAIN up[c] : j > i => ~About(up[c][j], t))
         => (t \in topics_[c] <=> up[c][i].cmd = "sub")
AllBelieved == \A c \in Clients, t \in Topics : Believed(c, t)

FanInv == FanTypes /\ RegistersFirst /\ TablesMatch /\ AllBelieved

\* The broker's module has the operators on sequences by its own name.
LEMMA FanSequences ==
  ASSUME NEW s
  PROVE  /\ \A e : Fan!Contains(s, e) <=> Contains(s, e)
         /\ \A k : Fan!RemoveAt(s, k) = RemoveAt(s, k)
         /\ Fan!ToSet(s) = ToSet(s)
BY DEF Fan!Contains, Contains, Fan!RemoveAt, RemoveAt, Fan!ToSet, ToSet

\* A connection erased from a list that has it once is gone from it, and no other.
LEMMA ErasedFacts ==
  ASSUME NEW S, NEW list \in Seq(S), IsInjective(list), NEW c \in S
  PROVE  /\ Fan!Erased(list, c) \in Seq(S) /\ IsInjective(Fan!Erased(list, c))
         /\ \A d \in S : Contains(Fan!Erased(list, c), d)
                           <=> d # c /\ Contains(list, d)
<1>1. CASE ~Contains(list, c)
  BY <1>1, FanSequences DEF Fan!Erased
<1>2. CASE Contains(list, c)
  <2> DEFINE First(i) == list[i] = c /\ \A j \in 1..i - 1 : list[j] # c
             k == CHOOSE i \in DOMAIN list : First(i)
  <2>1. PICK i \in DOMAIN list : list[i] = c
    BY <1>2 DEF Contains
  <2>2. \A j \in 1..i - 1 : list[j] # c
    BY <2>1 DEF IsInjective
  <2>3. k \in DOMAIN list /\ list[k] = c
    BY <2>1, <2>2
  <2> HIDE DEF k
  <2>4. Fan!Erased(list, c) = RemoveAt(list, k)
    BY <1>2, FanSequences DEF Fan!Erased, k
  <2>5. /\ RemoveAt(list, k) \in Seq(S) /\ IsInjective(RemoveAt(list, k))
        /\ \A f : f # c => (Contains(RemoveAt(list, k), f) <=> Contains(list, f))
        /\ ~Contains(RemoveAt(list, k), c)
    BY <2>3, RemoveAtFacts, RemoveAtInjective, ContainsRemoveAt
  <2> QED
    BY <2>4, <2>5
<1> QED
  BY <1>1, <1>2

\* Nothing that a subscriber or the broker keeps of subscriptions changes.
LEMMA FanStands ==
  ASSUME FanInv, UNCHANGED <<topics_, up, subscriberMap_, queueMap_>>
  PROVE  FanInv'
BY DEF FanInv, FanTypes, RegistersFirst, TablesMatch, Has, Listed, AllBelieved,
       Believed, Fan!Registered

\* The broker's part does not move a subscriber's belief.
LEMMA BelievedStands ==
  ASSUME NEW c \in Clients, NEW t \in Topics, Believed(c, t), up'[c] = up[c],
         topics_'[c] = topics_[c], Has(c, t)' <=> Has(c, t)
  PROVE  Believed(c, t)'
BY DEF Believed

\* Messages come and go, and topics are added, without a change of the lists.
LEMMA QueuesMove ==
  ASSUME FanInv, UNCHANGED <<topics_, up, subscriberMap_>>,
         \A t \in DOMAIN queueMap_' : queueMap_'[t] \in Queues,
         DOMAIN queueMap_ \subseteq DOMAIN queueMap_',
         \A t \in DOMAIN queueMap_ : queueMap_'[t].sendList = queueMap_[t].sendList,
         \A t \in DOMAIN queueMap_' \ DOMAIN queueMap_ :
           queueMap_'[t].sendList = << >>
  PROVE  FanInv'
<1>1. IsInjective(<< >>) /\ \A c : ~Contains(<< >>, c)
  BY DEF IsInjective, Contains
<1>2. Fan!Registered' = Fan!Registered
  BY DEF Fan!Registered
<1>3. FanTypes'
  BY <1>1, <1>2 DEF FanInv, FanTypes
<1>4. RegistersFirst'
  BY <1>2 DEF FanInv, RegistersFirst
<1>5. \A c, t : (Has(c, t)' <=> Has(c, t)) /\ (Listed(c, t)' <=> Listed(c, t))
  BY <1>1, <1>2 DEF Has, Listed
<1>6. TablesMatch'
  <2>1. \A c \in Clients, t \in DOMAIN queueMap_' :
          Listed(c, t) => t \in DOMAIN queueMap_
    BY DEF Listed
  <2> QED
    BY <1>2, <1>5, <2>1 DEF FanInv, TablesMatch
<1>7. AllBelieved'
  BY <1>5, BelievedStands DEF FanInv, AllBelieved
<1> QED
  BY <1>3, <1>4, <1>6, <1>7 DEF FanInv

\* A subscriber changes its mind, and tells the broker.
LEMMA UserSends ==
  ASSUME FanInv, NEW c \in Clients, NEW t \in Topics,
         Fan!Subscribe(c, t) \/ Fan!Unsubscribe(c, t),
         UNCHANGED <<subscriberMap_, queueMap_>>
  PROVE  FanInv'
<1>1. PICK m \in Cmds :
        /\ up' = [up EXCEPT ![c] = Append(@, m)]
        /\ m.cmd \in {"sub", "unsub"} /\ m.topic = t
        /\ topics_' \in [Clients -> SUBSET Topics]
        /\ \A d \in Clients, s \in Topics : (d # c \/ s # t)
             => (s \in topics_'[d] <=> s \in topics_[d])
        /\ \A d \in Clients \ {c} : topics_'[d] = topics_[d]
        /\ t \in topics_'[c] <=> m.cmd = "sub"
  <2>1. topics_ \in [Clients -> SUBSET Topics]
    BY DEF FanInv, FanTypes
  <2>2. CASE Fan!Subscribe(c, t)
    <3> DEFINE m == [cmd |-> "sub", topic |-> t]
    <3>1. m \in Cmds /\ m.cmd = "sub" /\ m.topic = t
      BY DEF Cmds
    <3>2. /\ up' = [up EXCEPT ![c] = Append(@, m)]
          /\ topics_' = [topics_ EXCEPT ![c] = @ \union {t}]
      BY <2>2 DEF Fan!Subscribe, Fan!Send
    <3> HIDE DEF m
    <3> QED
      BY <2>1, <3>1, <3>2
  <2>3. CASE Fan!Unsubscribe(c, t)
    <3> DEFINE m == [cmd |-> "unsub", topic |-> t]
    <3>1. m \in Cmds /\ m.cmd = "unsub" /\ m.topic = t
      BY DEF Cmds
    <3>2. /\ up' = [up EXCEPT ![c] = Append(@, m)]
          /\ topics_' = [topics_ EXCEPT ![c] = @ \ {t}]
      BY <2>3 DEF Fan!Unsubscribe, Fan!Send
    <3> HIDE DEF m
    <3> QED
      BY <2>1, <3>1, <3>2
  <2> QED
    BY <2>2, <2>3
<1>2. up[c] \in Seq(Cmds) /\ up \in [Clients -> Seq(Cmds)]
  BY DEF FanInv, FanTypes
<1> DEFINE n == Len(up[c])
<1>3. /\ up'[c] \in Seq(Cmds) /\ n \in Nat /\ DOMAIN up[c] = 1..n
      /\ DOMAIN up'[c] = 1..(n + 1) /\ up'[c][n + 1] = m
      /\ \A i \in 1..n : up'[c][i] = up[c][i]
      /\ \A d \in Clients \ {c} : up'[d] = up[d]
      /\ up' \in [Clients -> Seq(Cmds)]
  BY <1>1, <1>2
<1> HIDE DEF n
<1>4. Fan!Registered' = Fan!Registered
  BY DEF Fan!Registered
<1>5. FanTypes'
  BY <1>1, <1>3, <1>4 DEF FanInv, FanTypes
<1>6. RegistersFirst'
  <2>1. ASSUME NEW i \in DOMAIN up'[c]
        PROVE  /\ up'[c][i].cmd = "regist" <=> i = 1 /\ c \notin Fan!Registered
               /\ up'[c][i].cmd # "regist" => up'[c][i].topic \in Topics
    <3>1. CASE i \in 1..n
      BY <1>3, <3>1 DEF FanInv, RegistersFirst
    <3>2. CASE i = n + 1
      <4>1. n = 0 => c \in Fan!Registered
        BY <1>2 DEF FanInv, RegistersFirst, n
      <4> QED
        BY <1>1, <1>3, <3>2, <4>1
    <3> QED
      BY <1>3, <3>1, <3>2
  <2>2. up'[c] # << >>
    BY <1>3
  <2> QED
    BY <1>3, <1>4, <2>1, <2>2 DEF FanInv, RegistersFirst
<1>7. \A d, s : (Has(d, s)' <=> Has(d, s)) /\ (Listed(d, s)' <=> Listed(d, s))
  BY <1>4 DEF Has, Listed
<1>8. TablesMatch'
  BY <1>4, <1>7 DEF FanInv, TablesMatch
<1>9. ASSUME NEW s \in Topics PROVE Believed(c, s)'
  <2>1. CASE s # t
    <3>1. ~About(m, s)
      BY <1>1, <2>1 DEF About
    <3>2. Believed(c, s) /\ (s \in topics_'[c] <=> s \in topics_[c])
      BY <1>1, <2>1 DEF FanInv, AllBelieved
    <3>3. (\A i \in DOMAIN up'[c] : ~About(up'[c][i], s))
            => (s \in topics_'[c] <=> Has(c, s))
      BY <1>3, <3>2 DEF Believed
    <3>4. ASSUME NEW i \in DOMAIN up'[c], About(up'[c][i], s),
                 \A j \in DOMAIN up'[c] : j > i => ~About(up'[c][j], s)
          PROVE  s \in topics_'[c] <=> up'[c][i].cmd = "sub"
      <4>1. i \in 1..n
        BY <1>3, <3>1, <3>4
      <4> QED
        BY <1>3, <3>2, <3>4, <4>1 DEF Believed
    <3> QED
      BY <1>7, <3>3, <3>4 DEF Believed
  <2>2. CASE s = t
    <3>1. About(m, s)
      BY <1>1, <2>2 DEF About
    <3>2. ASSUME NEW i \in DOMAIN up'[c],
                 \A j \in DOMAIN up'[c] : j > i => ~About(up'[c][j], s)
          PROVE  s \in topics_'[c] <=> up'[c][i].cmd = "sub"
      <4>1. i = n + 1
        BY <1>3, <3>1, <3>2
      <4> QED
        BY <1>1, <1>3, <2>2, <4>1
    <3>3. n + 1 \in DOMAIN up'[c] /\ About(up'[c][n + 1], s)
      BY <1>3, <3>1
    <3> QED
      BY <3>2, <3>3 DEF Believed
  <2> QED
    BY <2>1, <2>2
<1>10. AllBelieved'
  BY <1>1, <1>3, <1>7, <1>9, BelievedStands DEF FanInv, AllBelieved
<1> QED
  BY <1>5, <1>6, <1>8, <1>10 DEF FanInv

\* The broker takes the next command of a connection and does as it says.
LEMMA BelievedTail ==
  ASSUME FanTypes, NEW c \in Clients, NEW t \in Topics, Believed(c, t), up[c] # << >>,
         up'[c] = Tail(up[c]), topics_'[c] = topics_[c],
         ~About(Head(up[c]), t) => (Has(c, t)' <=> Has(c, t)),
         About(Head(up[c]), t) => (Has(c, t)' <=> Head(up[c]).cmd = "sub")
  PROVE  Believed(c, t)'
<1> DEFINE n == Len(up[c])
           h == Head(up[c])
<1>1. /\ n \in Nat \ {0} /\ DOMAIN up[c] = 1..n /\ h = up[c][1]
      /\ DOMAIN up'[c] = 1..(n - 1)
      /\ \A i \in 1..(n - 1) : up'[c][i] = up[c][i + 1]
  BY DEF FanTypes
<1>2. /\ ~About(h, t) => (Has(c, t)' <=> Has(c, t))
      /\ About(h, t) => (Has(c, t)' <=> h.cmd = "sub")
  OBVIOUS
<1> HIDE DEF n, h
<1>3. \A j \in 2..n : j - 1 \in DOMAIN up'[c] /\ up'[c][j - 1] = up[c][j]
  BY <1>1
<1>4. ASSUME \A i \in DOMAIN up'[c] : ~About(up'[c][i], t)
      PROVE  t \in topics_'[c] <=> Has(c, t)'
  <2>1. \A j \in 2..n : ~About(up[c][j], t)
    BY <1>3, <1>4
  <2>2. CASE About(h, t)
    <3>1. /\ 1 \in DOMAIN up[c] /\ About(up[c][1], t)
          /\ \A j \in DOMAIN up[c] : j > 1 => ~About(up[c][j], t)
      BY <1>1, <2>1, <2>2
    <3>2. t \in topics_[c] <=> up[c][1].cmd = "sub"
      BY <3>1 DEF Believed
    <3> QED
      BY <1>1, <1>2, <2>2, <3>2
  <2>3. CASE ~About(h, t)
    <3>1. \A j \in DOMAIN up[c] : ~About(up[c][j], t)
      BY <1>1, <2>1, <2>3
    <3> QED
      BY <1>2, <2>3, <3>1 DEF Believed
  <2> QED
    BY <2>2, <2>3
<1>5. ASSUME NEW i \in DOMAIN up'[c], About(up'[c][i], t),
             \A j \in DOMAIN up'[c] : j > i => ~About(up'[c][j], t)
      PROVE  t \in topics_'[c] <=> up'[c][i].cmd = "sub"
  <2>1. i + 1 \in DOMAIN up[c] /\ up'[c][i] = up[c][i + 1]
    BY <1>1
  <2>2. \A j \in DOMAIN up[c] : j > i + 1 => ~About(up[c][j], t)
    <3> SUFFICES ASSUME NEW j \in DOMAIN up[c], j > i + 1
                 PROVE  ~About(up[c][j], t)
      OBVIOUS
    <3>1. j \in 2..n /\ j - 1 > i
      BY <1>1
    <3> QED
      BY <1>3, <1>5, <3>1
  <2> QED
    BY <1>5, <2>1, <2>2 DEF Believed
<1> QED
  BY <1>4, <1>5 DEF Believed

\* The tables after a command say what it says, and else what they said before.
LEMMA CommandTaken ==
  ASSUME FanInv, NEW c \in Clients, up[c] # << >>,
         up' = [up EXCEPT ![c] = Tail(@)], UNCHANGED topics_,
         Fan!Registered' = Fan!Registered \cup {c},
         \A d \in Fan!Registered' : subscriberMap_'[d] \subseteq Topics,
         \A t \in DOMAIN queueMap_' : /\ queueMap_'[t] \in Queues
                                      /\ IsInjective(queueMap_'[t].sendList),
         TablesMatch',
         \A d \in Clients \ {c}, t \in Topics : Has(d, t)' <=> Has(d, t),
         \A t \in Topics : ~About(Head(up[c]), t) => (Has(c, t)' <=> Has(c, t)),
         \A t \in Topics :
           About(Head(up[c]), t) => (Has(c, t)' <=> Head(up[c]).cmd = "sub")
  PROVE  FanInv'
<1> DEFINE n == Len(up[c])
<1>1. up[c] \in Seq(Cmds) /\ up \in [Clients -> Seq(Cmds)]
  BY DEF FanInv, FanTypes
<1>2. Tail(up[c]) \in Seq(Cmds)
  BY <1>1
<1>3. /\ up'[c] = Tail(up[c]) /\ up' \in [Clients -> Seq(Cmds)]
      /\ \A d \in Clients \ {c} : up'[d] = up[d]
  BY <1>1, <1>2
<1>4. /\ n \in Nat \ {0} /\ DOMAIN up[c] = 1..n /\ DOMAIN up'[c] = 1..(n - 1)
      /\ \A i \in 1..(n - 1) : up'[c][i] = up[c][i + 1]
  BY <1>1, <1>3
<1> HIDE DEF n
<1>5. FanTypes'
  BY <1>3 DEF FanInv, FanTypes
<1>6. RegistersFirst'
  <2>1. ASSUME NEW i \in DOMAIN up'[c]
        PROVE  up'[c][i].cmd # "regist" /\ up'[c][i].topic \in Topics
    <3>1. i + 1 \in DOMAIN up[c] /\ i + 1 # 1 /\ up'[c][i] = up[c][i + 1]
      BY <1>4
    <3> QED
      BY <3>1 DEF FanInv, RegistersFirst
  <2>2. ASSUME NEW d \in Clients \ {c}
        PROVE  d \in Fan!Registered' <=> d \in Fan!Registered
    OBVIOUS
  <2> QED
    BY <1>3, <2>1, <2>2 DEF FanInv, RegistersFirst
<1>7. ASSUME NEW t \in Topics PROVE Believed(c, t)'
  <2>1. topics_'[c] = topics_[c] /\ FanTypes /\ Believed(c, t)
    BY DEF FanInv, AllBelieved
  <2> QED
    BY <1>3, <2>1, BelievedTail
<1>8. ASSUME NEW d \in Clients \ {c}, NEW t \in Topics PROVE Believed(d, t)'
  <2>1. topics_'[d] = topics_[d] /\ Believed(d, t) /\ (Has(d, t)' <=> Has(d, t))
    BY DEF FanInv, AllBelieved
  <2> QED
    BY <1>3, <2>1, BelievedStands
<1>9. AllBelieved'
  BY <1>7, <1>8 DEF AllBelieved
<1> QED
  BY <1>5, <1>6, <1>9 DEF FanInv

\* regist(): a connection that is new has no topics yet.
LEMMA RegistStep ==
  ASSUME FanInv, NEW c \in Clients, up[c] # << >>, Head(up[c]).cmd = "regist",
         up' = [up EXCEPT ![c] = Tail(@)], Fan!regist(c), UNCHANGED topics_
  PROVE  FanInv'
<1>1. c \notin Fan!Registered
  <2>1. 1 \in DOMAIN up[c] /\ up[c][1] = Head(up[c])
    BY DEF FanInv, FanTypes
  <2> QED
    BY <2>1 DEF FanInv, RegistersFirst
<1>2. /\ subscriberMap_' = Fan!Insert(subscriberMap_, c, {}) /\ queueMap_' = queueMap_
  BY <1>1 DEF Fan!regist
<1>3. /\ Fan!Registered' = Fan!Registered \cup {c} /\ subscriberMap_'[c] = {}
      /\ \A d \in Fan!Registered : subscriberMap_'[d] = subscriberMap_[d]
  BY <1>1, <1>2 DEF Fan!Insert, Fan!Registered
<1>4. \A d \in Clients, t \in Topics : Has(d, t)' <=> Has(d, t)
  BY <1>1, <1>3 DEF Has
<1>5. \A d, t : Listed(d, t)' <=> Listed(d, t)
  BY <1>2 DEF Listed
<1>6. TablesMatch'
  BY <1>2, <1>3, <1>4, <1>5 DEF FanInv, TablesMatch
<1>7. \A t : ~About(Head(up[c]), t)
  BY DEF About
<1>8. \A d \in Fan!Registered' : subscriberMap_'[d] \subseteq Topics
  BY <1>3 DEF FanInv, FanTypes
<1>9. \A t \in DOMAIN queueMap_' : /\ queueMap_'[t] \in Queues
                                   /\ IsInjective(queueMap_'[t].sendList)
  BY <1>2 DEF FanInv, FanTypes
<1> QED
  BY <1>3, <1>4, <1>6, <1>7, <1>8, <1>9, CommandTaken

\* What the head of a connection's commands is when it is no registration.
LEMMA HeadCommand ==
  ASSUME FanInv, NEW c \in Clients, up[c] # << >>, Head(up[c]).cmd # "regist"
  PROVE  c \in Fan!Registered /\ Head(up[c]).topic \in Topics
<1>1. 1 \in DOMAIN up[c] /\ up[c][1] = Head(up[c])
  BY DEF FanInv, FanTypes
<1> QED
  BY <1>1 DEF FanInv, RegistersFirst

\* subscribe(): the topic and the connection find each other.
LEMMA SubscribeStep ==
  ASSUME FanInv, NEW c \in Clients, NEW t, up[c] # << >>, Head(up[c]).cmd = "sub",
         Head(up[c]).topic = t, up' = [up EXCEPT ![c] = Tail(@)],
         Fan!subscribe(c, t), UNCHANGED topics_
  PROVE  FanInv'
<1> DEFINE q == Fan!Queue(t)
           list == IF Contains(q.sendList, c) THEN q.sendList ELSE Append(q.sendList, c)
           after == [q EXCEPT !.sendList = list]
<1>1. c \in Fan!Registered /\ t \in Topics
  BY HeadCommand
<1>2. q \in Queues /\ IsInjective(q.sendList)
  <2>1. << >> \in Seq(Messages) /\ << >> \in Seq(Clients) /\ IsInjective(<< >>)
    BY DEF IsInjective
  <2> QED
    BY <2>1 DEF Fan!Queue, FanInv, FanTypes, Queues
<1>3. \A d \in Clients : Contains(q.sendList, d) <=> Listed(d, t)
  BY DEF Fan!Queue, Listed, Contains
<1>4. /\ subscriberMap_' = Fan!Insert(subscriberMap_, c, subscriberMap_[c] \union {t})
      /\ queueMap_' = Fan!Insert(queueMap_, t, after)
  <2>1. Contains(q.sendList, c) => after = q
    BY <1>2 DEF Queues
  <2> QED
    BY <1>1, <2>1, FanSequences DEF Fan!subscribe
<1>5. /\ list \in Seq(Clients) /\ IsInjective(list)
      /\ \A d \in Clients : Contains(list, d) <=> d = c \/ Listed(d, t)
  <2>1. q.sendList \in Seq(Clients)
    BY <1>2 DEF Queues
  <2> QED
    BY <1>2, <1>3, <2>1, InjectiveAppend, ContainsAppend
<1>6. after \in Queues /\ after.sendList = list
  BY <1>2, <1>5 DEF Queues
<1> HIDE DEF q, list, after
<1>7. /\ Fan!Registered' = Fan!Registered \cup {c}
      /\ subscriberMap_'[c] = subscriberMap_[c] \union {t}
      /\ \A d \in Fan!Registered \ {c} : subscriberMap_'[d] = subscriberMap_[d]
  BY <1>1, <1>4 DEF Fan!Insert, Fan!Registered
<1>8. /\ DOMAIN queueMap_' = DOMAIN queueMap_ \cup {t} /\ queueMap_'[t] = after
      /\ \A s \in DOMAIN queueMap_ \ {t} : queueMap_'[s] = queueMap_[s]
  BY <1>4 DEF Fan!Insert
<1>9. /\ \A d \in Clients, s \in Topics : d # c => (Has(d, s)' <=> Has(d, s))
      /\ \A s \in Topics : Has(c, s)' <=> s = t \/ Has(c, s)
  BY <1>1, <1>7 DEF Has
<1>10. /\ \A d \in Clients : Listed(d, t)' <=> d = c \/ Listed(d, t)
       /\ \A d \in Clients : \A s : s # t => (Listed(d, s)' <=> Listed(d, s))
  <2>1. ASSUME NEW d \in Clients PROVE Listed(d, t)' <=> d = c \/ Listed(d, t)
    <3>1. Listed(d, t)' <=> Contains(list, d)
      BY <1>6, <1>8 DEF Listed
    <3> QED
      BY <1>5, <3>1
  <2>2. ASSUME NEW d \in Clients, NEW s, s # t PROVE Listed(d, s)' <=> Listed(d, s)
    <3>1. s \in DOMAIN queueMap_' <=> s \in DOMAIN queueMap_
      BY <1>8, <2>2
    <3>2. s \in DOMAIN queueMap_ => queueMap_'[s] = queueMap_[s]
      BY <1>8, <2>2
    <3> QED
      BY <3>1, <3>2 DEF Listed
  <2> QED
    BY <2>1, <2>2
<1>11. TablesMatch'
  <2>1. ASSUME NEW d \in Clients, NEW s \in Topics PROVE Has(d, s)' <=> Listed(d, s)'
    <3>1. Has(d, s) <=> Listed(d, s)
      BY DEF FanInv, TablesMatch
    <3>2. CASE s = t
      BY <1>9, <1>10, <3>1, <3>2 DEF Has, Listed
    <3>3. CASE s # t
      BY <1>9, <1>10, <3>1, <3>3
    <3> QED
      BY <3>2, <3>3
  <2>2. ASSUME NEW d \in Clients, NEW s \in DOMAIN queueMap_', Listed(d, s)'
        PROVE  d \in Fan!Registered'
    <3>1. d = c \/ Listed(d, s)
      <4>1. CASE s = t
        BY <1>10, <2>2, <4>1 DEF Listed
      <4>2. CASE s # t
        BY <1>10, <2>2, <4>2
      <4> QED
        BY <4>1, <4>2
    <3>2. Listed(d, s) => d \in Fan!Registered
      BY DEF Listed, FanInv, TablesMatch
    <3> QED
      BY <1>7, <3>1, <3>2
  <2> QED
    BY <2>1, <2>2 DEF TablesMatch
<1>12. \A d \in Fan!Registered' : subscriberMap_'[d] \subseteq Topics
  BY <1>1, <1>7 DEF FanInv, FanTypes
<1>13. \A s \in DOMAIN queueMap_' : /\ queueMap_'[s] \in Queues
                                    /\ IsInjective(queueMap_'[s].sendList)
  BY <1>5, <1>6, <1>8 DEF FanInv, FanTypes
<1>14. \A s \in Topics : About(Head(up[c]), s) <=> s = t
  BY DEF About
<1> QED
  BY <1>7, <1>9, <1>11, <1>12, <1>13, <1>14, CommandTaken

\* unsubscribe(): the connection and the topic lose each other.
LEMMA UnsubscribeStep ==
  ASSUME FanInv, NEW c \in Clients, NEW t, up[c] # << >>, Head(up[c]).cmd = "unsub",
         Head(up[c]).topic = t, up' = [up EXCEPT ![c] = Tail(@)],
         Fan!unsubscribe(c, t), UNCHANGED topics_
  PROVE  FanInv'
<1>1. c \in Fan!Registered /\ t \in Topics
  BY HeadCommand
<1>2. /\ subscriberMap_' = [subscriberMap_ EXCEPT ![c] = @ \ {t}]
      /\ queueMap_' = IF t \in DOMAIN queueMap_
                      THEN [queueMap_ EXCEPT ![t].sendList = Fan!Erased(@, c)]
                      ELSE queueMap_
  BY <1>1 DEF Fan!unsubscribe
<1>3. \A s \in Topics : About(Head(up[c]), s) <=> s = t
  BY DEF About
<1>4. /\ Fan!Registered' = Fan!Registered \cup {c}
      /\ Fan!Registered' = Fan!Registered
      /\ subscriberMap_'[c] = subscriberMap_[c] \ {t}
      /\ \A d \in Fan!Registered \ {c} : subscriberMap_'[d] = subscriberMap_[d]
  BY <1>1, <1>2 DEF Fan!Registered
<1>5. /\ DOMAIN queueMap_' = DOMAIN queueMap_
      /\ \A s \in DOMAIN queueMap_ \ {t} : queueMap_'[s] = queueMap_[s]
  BY <1>2
<1>6. ASSUME t \in DOMAIN queueMap_
      PROVE  /\ queueMap_'[t] \in Queues /\ IsInjective(queueMap_'[t].sendList)
             /\ \A d \in Clients : Contains(queueMap_'[t].sendList, d)
                                     <=> d # c /\ Contains(queueMap_[t].sendList, d)
  <2> DEFINE left == Fan!Erased(queueMap_[t].sendList, c)
  <2>1. /\ queueMap_[t] \in Queues /\ IsInjective(queueMap_[t].sendList)
        /\ queueMap_[t].sendList \in Seq(Clients)
    BY <1>6 DEF FanInv, FanTypes, Queues
  <2>2. /\ left \in Seq(Clients) /\ IsInjective(left)
        /\ \A d \in Clients : Contains(left, d)
                                <=> d # c /\ Contains(queueMap_[t].sendList, d)
    BY <2>1, ErasedFacts
  <2>3. queueMap_'[t] = [queueMap_[t] EXCEPT !.sendList = left]
    BY <1>2, <1>6
  <2> HIDE DEF left
  <2>4. queueMap_'[t] \in Queues /\ queueMap_'[t].sendList = left
    BY <2>1, <2>2, <2>3 DEF Queues
  <2> QED
    BY <2>2, <2>4
<1>7. /\ \A d \in Clients, s \in Topics : d # c => (Has(d, s)' <=> Has(d, s))
      /\ \A s \in Topics : Has(c, s)' <=> s # t /\ Has(c, s)
  BY <1>1, <1>4 DEF Has
<1>8. /\ \A d \in Clients : Listed(d, t)' <=> d # c /\ Listed(d, t)
      /\ \A d \in Clients : \A s : s # t => (Listed(d, s)' <=> Listed(d, s))
  <2>1. ASSUME NEW d \in Clients PROVE Listed(d, t)' <=> d # c /\ Listed(d, t)
    BY <1>5, <1>6 DEF Listed
  <2>2. ASSUME NEW d \in Clients, NEW s, s # t PROVE Listed(d, s)' <=> Listed(d, s)
    <3>1. s \in DOMAIN queueMap_ => queueMap_'[s] = queueMap_[s]
      BY <1>5, <2>2
    <3> QED
      BY <1>5, <3>1 DEF Listed
  <2> QED
    BY <2>1, <2>2
<1>9. TablesMatch'
  <2>1. ASSUME NEW d \in Clients, NEW s \in Topics PROVE Has(d, s)' <=> Listed(d, s)'
    <3>1. Has(d, s) <=> Listed(d, s)
      BY DEF FanInv, TablesMatch
    <3>2. CASE s = t
      BY <1>7, <1>8, <3>1, <3>2 DEF Has, Listed
    <3>3. CASE s # t
      BY <1>7, <1>8, <3>1, <3>3
    <3> QED
      BY <3>2, <3>3
  <2>2. ASSUME NEW d \in Clients, NEW s \in DOMAIN queueMap_', Listed(d, s)'
        PROVE  d \in Fan!Registered'
    <3>1. Listed(d, s)
      <4>1. CASE s = t
        BY <1>8, <2>2, <4>1 DEF Listed
      <4>2. CASE s # t
        BY <1>8, <2>2, <4>2
      <4> QED
        BY <4>1, <4>2
    <3>2. s \in DOMAIN queueMap_ /\ (Listed(d, s) => d \in Fan!Registered)
      BY <1>5 DEF FanInv, TablesMatch
    <3> QED
      BY <1>4, <3>1, <3>2
  <2> QED
    BY <2>1, <2>2 DEF TablesMatch
<1>10. \A d \in Fan!Registered' : subscriberMap_'[d] \subseteq Topics
  BY <1>1, <1>4 DEF FanInv, FanTypes
<1>11. \A s \in DOMAIN queueMap_' : /\ queueMap_'[s] \in Queues
                                    /\ IsInjective(queueMap_'[s].sendList)
  BY <1>5, <1>6 DEF FanInv, FanTypes
<1> QED
  BY <1>3, <1>4, <1>7, <1>9, <1>10, <1>11, CommandTaken

\* A publication, to a topic that is known or not.
LEMMA PublishStep ==
  ASSUME FanInv, NEW m \in Messages, Fan!publish(m)
  PROVE  FanInv'
<1> DEFINE t == TopicOf[m]
           q == Fan!Queue(t)
           after == [q EXCEPT !.queue = Append(@, m)]
<1>1. << >> \in Seq(Messages) /\ << >> \in Seq(Clients)
  OBVIOUS
<1>2. q \in Queues /\ q.sendList = IF t \in DOMAIN queueMap_ THEN queueMap_[t].sendList
                                                             ELSE << >>
  BY <1>1 DEF Fan!Queue, FanInv, FanTypes, Queues
<1>3. queueMap_' = Fan!Insert(queueMap_, t, after)
      /\ UNCHANGED <<topics_, up, subscriberMap_>>
  BY DEF Fan!publish
<1>4. after \in Queues /\ after.sendList = q.sendList
  <2>1. Append(q.queue, m) \in Seq(Messages)
    BY <1>2 DEF Queues
  <2> QED
    BY <1>2, <2>1 DEF Queues
<1> HIDE DEF t, q, after
<1>5. /\ DOMAIN queueMap_' = DOMAIN queueMap_ \cup {t} /\ queueMap_'[t] = after
      /\ \A s \in DOMAIN queueMap_ \ {t} : queueMap_'[s] = queueMap_[s]
  BY <1>3 DEF Fan!Insert
<1>6. \A s \in DOMAIN queueMap_' : queueMap_'[s] \in Queues
  BY <1>4, <1>5 DEF FanInv, FanTypes
<1>7. /\ \A s \in DOMAIN queueMap_ : queueMap_'[s].sendList = queueMap_[s].sendList
      /\ \A s \in DOMAIN queueMap_' \ DOMAIN queueMap_ :
           queueMap_'[s].sendList = << >>
  BY <1>2, <1>4, <1>5
<1> QED
  BY <1>3, <1>5, <1>6, <1>7, QueuesMove

\* A thread takes a message off a queue.
LEMMA PopStep ==
  ASSUME FanInv, NEW w, Fan!try_pop(w), UNCHANGED <<topics_, up, subscriberMap_>>
  PROVE  FanInv'
<1>1. CASE queueMap_' = queueMap_
  BY <1>1, FanStands
<1>2. ASSUME NEW t, queueMap_[t].queue # << >>,
             queueMap_' = [queueMap_ EXCEPT ![t].queue = Tail(@)]
      PROVE  FanInv'
  <2>1. CASE t \notin DOMAIN queueMap_
    <3>1. /\ DOMAIN queueMap_' = DOMAIN queueMap_
          /\ \A s \in DOMAIN queueMap_ : queueMap_'[s] = queueMap_[s]
      BY <1>2, <2>1
    <3> QED
      BY <3>1, QueuesMove DEF FanInv, FanTypes
  <2>2. CASE t \in DOMAIN queueMap_
    <3>1. queueMap_[t] \in Queues
      BY <2>2 DEF FanInv, FanTypes
    <3>2. Tail(queueMap_[t].queue) \in Seq(Messages)
      BY <1>2, <3>1 DEF Queues
    <3>3. /\ DOMAIN queueMap_' = DOMAIN queueMap_
          /\ queueMap_'[t] = [queueMap_[t] EXCEPT !.queue = Tail(@)]
          /\ \A s \in DOMAIN queueMap_ \ {t} : queueMap_'[s] = queueMap_[s]
      BY <1>2, <2>2
    <3>4. queueMap_'[t] \in Queues /\ queueMap_'[t].sendList = queueMap_[t].sendList
      BY <3>1, <3>2, <3>3 DEF Queues
    <3>5. \A s \in DOMAIN queueMap_' : queueMap_'[s] \in Queues
      BY <3>3, <3>4 DEF FanInv, FanTypes
    <3> QED
      BY <3>3, <3>4, <3>5, QueuesMove
  <2> QED
    BY <2>1, <2>2
<1> QED
  BY <1>1, <1>2 DEF Fan!try_pop

\* Every step of the broker and its clients keeps the tables and the beliefs.
LEMMA FanStep == FanInv /\ Fan!Next => FanInv'
<1> SUFFICES ASSUME FanInv, Fan!Next PROVE FanInv'
  OBVIOUS
<1>1. ASSUME NEW c \in Clients, Fan!stdinReadEvents(c) PROVE FanInv'
  BY <1>1, UserSends DEF Fan!stdinReadEvents, Fan!brokerVars
<1>2. ASSUME NEW c \in Clients, Fan!clientReadEvents(c) PROVE FanInv'
  <2>1. UNCHANGED <<subscriberMap_, queueMap_>>
    BY <1>2 DEF Fan!clientReadEvents, Fan!brokerVars
  <2>2. \/ UNCHANGED <<topics_, up>>
        \/ \E m \in Topics : Fan!Subscribe(c, m)
    BY <1>2 DEF Fan!clientReadEvents, Fan!Filter
  <2> QED
    BY <2>1, <2>2, FanStands, UserSends
<1>3. ASSUME NEW c \in Clients, Fan!filter(c) PROVE FanInv'
  <2>1. /\ up[c] # << >> /\ up' = [up EXCEPT ![c] = Tail(@)] /\ UNCHANGED topics_
        /\ \/ Head(up[c]).cmd = "regist" /\ Fan!regist(c)
           \/ Head(up[c]).cmd = "sub" /\ Fan!subscribe(c, Head(up[c]).topic)
           \/ Head(up[c]).cmd = "unsub" /\ Fan!unsubscribe(c, Head(up[c]).topic)
    BY <1>3 DEF Fan!filter
  <2> QED
    BY <2>1, RegistStep, SubscribeStep, UnsubscribeStep
<1>4. ASSUME NEW c \in Clients, Fan!Leave(c) PROVE FanInv'
  BY <1>4, FanStands DEF Fan!Leave, Fan!brokerVars
<1>5. ASSUME NEW m \in Messages, Fan!publish(m) PROVE FanInv'
  BY <1>5, PublishStep
<1>6. ASSUME NEW w \in Threads, UNCHANGED <<topics_, up, subscriberMap_>>,
             Fan!Take(w) \/ Fan!publishMsg(w) \/ Fan!try_pop(w) \/ Fan!sendmsg(w)
      PROVE  FanInv'
  <2>1. CASE Fan!Take(w) \/ Fan!publishMsg(w) \/ Fan!sendmsg(w)
    <3>1. queueMap_' = queueMap_
      <4>1. CASE Fan!Take(w)
        BY <4>1 DEF Fan!Take
      <4>2. CASE Fan!publishMsg(w)
        BY <4>2 DEF Fan!publishMsg
      <4>3. CASE Fan!sendmsg(w)
        BY <4>3 DEF Fan!sendmsg
      <4> QED
        BY <2>1, <4>1, <4>2, <4>3
    <3> QED
      BY <1>6, <3>1, FanStands
  <2> QED
    BY <1>6, <2>1, PopStep
<1> QED
  BY <1>1, <1>2, <1>3, <1>4, <1>5, <1>6 DEF Fan!Next, Fan!Pool

LEMMA FanInit == Fan!Init => FanInv
<1> SUFFICES ASSUME Fan!Init PROVE FanInv
  OBVIOUS
<1>1. /\ DOMAIN subscriberMap_ = {} /\ DOMAIN queueMap_ = {}
      /\ topics_ = [c \in Clients |-> {}]
      /\ up = [c \in Clients |-> <<[cmd |-> "regist", topic |-> 0]>>]
  BY DEF Fan!Init
<1>2. Fan!Registered = {}
  BY <1>1 DEF Fan!Registered
<1>3. [cmd |-> "regist", topic |-> 0] \in Cmds
  BY DEF Cmds
<1>4. \A c \in Clients : /\ up[c] \in Seq(Cmds) /\ DOMAIN up[c] = {1}
                         /\ up[c][1].cmd = "regist" /\ up[c] # << >>
  BY <1>1, <1>3
<1>5. FanTypes /\ RegistersFirst
  BY <1>1, <1>2, <1>4 DEF FanTypes, RegistersFirst
<1>6. TablesMatch /\ AllBelieved
  BY <1>1, <1>2, <1>4 DEF TablesMatch, AllBelieved, Believed, Has, Listed, About
<1> QED
  BY <1>5, <1>6 DEF FanInv

LEMMA FanAgrees == FanInv => SubscriptionsAgree
<1> SUFFICES ASSUME FanInv PROVE Fan!SubscriptionsAgree
  BY DEF SubscriptionsAgree
<1>1. \A c \in Fan!Registered, t \in Topics :
        t \in subscriberMap_[c]
          <=> t \in DOMAIN queueMap_ /\ Contains(queueMap_[t].sendList, c)
  BY DEF FanInv, FanTypes, TablesMatch, Has, Listed
<1>2. ASSUME NEW t \in DOMAIN queueMap_
      PROVE  ToSet(queueMap_[t].sendList) \subseteq Fan!Registered
  <2>1. queueMap_[t].sendList \in Seq(Clients)
    BY DEF FanInv, FanTypes, Queues
  <2>2. \A i \in DOMAIN queueMap_[t].sendList :
          Listed(queueMap_[t].sendList[i], t) /\ queueMap_[t].sendList[i] \in Clients
    BY <2>1 DEF Listed, Contains
  <2> QED
    BY <2>2 DEF FanInv, TablesMatch, ToSet
<1>3. ASSUME NEW c \in Clients, up[c] = << >>
      PROVE  topics_[c] = subscriberMap_[c]
  <2>1. c \in Fan!Registered /\ DOMAIN up[c] = {}
    BY <1>3 DEF FanInv, RegistersFirst
  <2>2. \A t \in Topics : t \in topics_[c] <=> t \in subscriberMap_[c]
    BY <2>1 DEF FanInv, AllBelieved, Believed, Has
  <2>3. topics_[c] \subseteq Topics /\ subscriberMap_[c] \subseteq Topics
    BY <2>1 DEF FanInv, FanTypes
  <2> QED
    BY <2>2, <2>3
<1> QED
  BY <1>1, <1>2, <1>3, FanSequences DEF Fan!SubscriptionsAgree

\* The broker's two tables agree with each other whatever its connections send
\* (PubSub.cpp:61, MessageQueue.cpp:28), and with what a subscriber believes as
\* soon as none of its commands is on the way (Subscriber.cpp:52).
THEOREM TablesAgreeing == Spec => []SubscriptionsAgree
<1>1. Init => FanInv
  BY FanInit DEF Init
<1>2. FanInv /\ [Next]_vars => FanInv'
  <2> SUFFICES ASSUME FanInv, [Next]_vars PROVE FanInv'
    OBVIOUS
  <2>1. CASE Fan!Next
    BY <2>1, FanStep
  <2>2. CASE UNCHANGED broker
    BY <2>2, FanStands DEF broker
  <2> QED
    BY <2>1, <2>2 DEF Next, Service, Sorting, Requesting, Redis, ZeroMQ, services, vars
<1> QED
  BY <1>1, <1>2, FanAgrees, PTL DEF Spec

-----------------------------------------------------------------------------
(* The HTTP clients. *)

Positions == {"init", "socket", "register", "select", "puts", "undefined", "done"}
Opened == {"register", "select", "puts"}

RequestTypes ==
  /\ ctx \in [program : {"http", "template", "blocking"},
              state : {"none", "up", "leaked", "down", "freed"}]
  /\ main \in [at : Positions, req : Nat \ {0}, fd : Fds \cup {0}, read : Int]
  /\ main.at # "done" => main.req \in 1..HttpRequests
  /\ main.at \in Opened => main.fd \in Fds
  /\ sock \in [Fds -> Nat]
  /\ DOMAIN interest \subseteq Fds
  /\ thread \in [at : {"none", "start", "misled", "wait", "del", "close", "ended"},
                 req : Nat, fd : Fds \cup {0}]
  /\ main.at = "init" => thread.at = "none"
  /\ peer \in [1..HttpRequests -> [sent : Nat, over : {"open", "closed", "reset"}]]
  /\ DOMAIN got = 1..HttpRequests

\* A request has one socket, which main has just opened or has left behind.
OneSocket ==
  /\ \A f \in Fds : sock[f] <= main.req
  /\ \A f \in Fds : sock[f] = main.req =>
       (main.at \in Opened /\ f = main.fd) \/ main.at = "undefined"
  /\ main.at \in Opened => sock[main.fd] = main.req
  /\ \A f, g \in Fds : sock[f] = sock[g] /\ sock[f] # 0 => f = g

\* epoll knows a descriptor by the request it is a socket of.
InterestOwn ==
  \A f \in DOMAIN interest :
    interest[f] = sock[f] /\ interest[f] \in 1..HttpRequests /\ interest[f] < main.req

\* What epoll_wait has returned is still there to be handled.
EventsOwn ==
  /\ \A e \in events : /\ e = <<e[1], e[2]>> /\ e[1] \in DOMAIN interest
                       /\ interest[e[1]] = e[2]
                       /\ thread.at = "del" => e[1] # thread.fd
  /\ thread.at \in {"none", "start", "misled"} => events = {}

\* The callback thread has the socket of the request it has answered.
ThreadOwn ==
  thread.at \in {"del", "close"} =>
    /\ thread.fd \in Fds /\ sock[thread.fd] = thread.req
    /\ thread.req \in 1..HttpRequests /\ thread.req < main.req
    /\ thread.at = "close" => thread.fd \notin DOMAIN interest

\* A request that can still be answered has not been.
Unanswered ==
  /\ \A r \in 1..HttpRequests : r >= main.req => got[r] = << >>
  /\ \A f \in DOMAIN interest :
       \/ got[interest[f]] = << >> \/ thread.at = "ended"
       \/ thread.at = "del" /\ thread.fd = f

\* There is one answer to a request, which is its own, or none.
OneAnswer ==
  \A r \in 1..HttpRequests :
    got[r] = << >> \/ \E call : got[r] = <<call>> /\ call.of = r

RequestInv ==
  /\ RequestTypes /\ OneSocket /\ InterestOwn /\ EventsOwn /\ ThreadOwn
  /\ Unanswered /\ OneAnswer

\* The steps that change nothing but what main waits for, or what it has read.
LEMMA RequestTypesParts ==
  ASSUME RequestTypes
  PROVE  /\ main = [at |-> main.at, req |-> main.req, fd |-> main.fd,
                    read |-> main.read]
         /\ main.at \in Positions /\ main.req \in Nat \ {0} /\ main.fd \in Fds \cup {0}
         /\ main.read \in Int
         /\ thread = [at |-> thread.at, req |-> thread.req, fd |-> thread.fd]
         /\ thread.at \in {"none", "start", "misled", "wait", "del", "close", "ended"}
         /\ thread.req \in Nat /\ thread.fd \in Fds \cup {0}
BY DEF RequestTypes

\* What main does when a connection fails: it goes on with the next request, or
\* runs into undefined behaviour.
Failed(m) == m = Req!NextRequest \/ m = [main EXCEPT !.at = "undefined"]

LEMMA FailedMain ==
  ASSUME RequestInv, main.at = "socket", NEW m, Failed(m)
  PROVE  /\ m \in [at : Positions, req : Nat \ {0}, fd : Fds \cup {0}, read : Int]
         /\ m.at # "done" => m.req \in 1..HttpRequests
         /\ m.at \notin Opened /\ m.at # "init"
         /\ \/ m.req = main.req + 1
            \/ m.req = main.req /\ m.at = "undefined"
<1>1. /\ main.req \in 1..HttpRequests /\ HttpRequests \in Nat
      /\ main \in [at : Positions, req : Nat \ {0}, fd : Fds \cup {0}, read : Int]
  BY RequestsAssumption DEF RequestInv, RequestTypes
<1>2. CASE m = Req!NextRequest
  <2>1. /\ m.at = IF main.req = HttpRequests THEN "done" ELSE "socket"
        /\ m.req = main.req + 1 /\ m.fd = 0 /\ m.read = 0
        /\ m = [at |-> m.at, req |-> m.req, fd |-> m.fd, read |-> m.read]
    BY <1>2 DEF Req!NextRequest
  <2> QED
    BY <1>1, <2>1 DEF Positions, Opened
<1>3. CASE m = [main EXCEPT !.at = "undefined"]
  BY <1>1, <1>3 DEF Positions, Opened
<1> QED
  BY <1>2, <1>3 DEF Failed

\* main goes on, and no socket has been opened.
LEMMA NotOpened ==
  ASSUME RequestInv, main.at = "socket", Failed(main'),
         UNCHANGED <<ctx, sock, interest, thread, events, peer, got>>
  PROVE  RequestInv'
<1>1. /\ main' \in [at : Positions, req : Nat \ {0}, fd : Fds \cup {0}, read : Int]
      /\ main'.at # "done" => main'.req \in 1..HttpRequests
      /\ main'.at \notin Opened /\ main'.at # "init"
      /\ \/ main'.req = main.req + 1
         \/ main'.req = main.req /\ main'.at = "undefined"
  BY FailedMain
<1>2. main.req \in Nat \ {0} /\ main.at \notin Opened
  BY DEF RequestInv, RequestTypes, Opened
<1>3. RequestTypes'
  BY <1>1 DEF RequestInv, RequestTypes
<1>4. OneSocket'
  <2>1. \A f \in Fds : sock[f] \in Nat /\ sock[f] <= main.req
    BY DEF RequestInv, RequestTypes, OneSocket
  <2> QED
    BY <1>1, <1>2, <2>1 DEF RequestInv, OneSocket
<1>5. InterestOwn' /\ EventsOwn'
  <2>1. \A f \in DOMAIN interest : interest[f] \in Nat /\ interest[f] < main'.req
    BY <1>1, <1>2 DEF RequestInv, InterestOwn
  <2> QED
    BY <2>1 DEF RequestInv, InterestOwn, EventsOwn
<1>6. ThreadOwn'
  BY <1>1, <1>2 DEF RequestInv, ThreadOwn
<1>7. Unanswered' /\ OneAnswer'
  <2>1. \A r \in 1..HttpRequests : r >= main'.req => r >= main.req
    BY <1>1, <1>2
  <2> QED
    BY <2>1 DEF RequestInv, Unanswered, OneAnswer
<1> QED
  BY <1>3, <1>4, <1>5, <1>6, <1>7 DEF RequestInv

\* A socket is opened on a descriptor that was closed.
LEMMA SocketOpened ==
  ASSUME RequestInv, main.at = "socket", NEW f \in Fds, sock[f] = 0,
         sock' = [sock EXCEPT ![f] = main.req],
         UNCHANGED <<ctx, interest, thread, events, peer, got>>,
         \/ Failed(main')
         \/ main' = [main EXCEPT !.at = "register", !.fd = f]
         \/ main' = [main EXCEPT !.at = "select", !.fd = f]
  PROVE  RequestInv'
<1>1. /\ main' \in [at : Positions, req : Nat \ {0}, fd : Fds \cup {0}, read : Int]
      /\ main'.at # "done" => main'.req \in 1..HttpRequests
      /\ main'.at # "init"
      /\ \/ main'.at \notin Opened /\ main'.req = main.req + 1
         \/ main'.at = "undefined" /\ main'.req = main.req
         \/ main'.at \in Opened /\ main'.req = main.req /\ main'.fd = f
  <2>1. CASE Failed(main')
    BY <2>1, FailedMain
  <2>2. ASSUME NEW at \in {"register", "select"},
               main' = [main EXCEPT !.at = at, !.fd = f]
        PROVE  /\ main' \in [at : Positions, req : Nat \ {0}, fd : Fds \cup {0}, read : Int]
               /\ main'.req \in 1..HttpRequests /\ main'.at # "init"
               /\ main'.at \in Opened /\ main'.req = main.req /\ main'.fd = f
    BY <2>2 DEF RequestInv, RequestTypes, Positions, Opened
  <2> QED
    BY <2>1, <2>2
<1>2. main.req \in Nat \ {0} /\ main.at \notin Opened /\ main.at # "undefined"
  BY DEF RequestInv, RequestTypes, Opened
<1>3. /\ \A g \in Fds : sock[g] \in Nat /\ sock[g] < main.req
      /\ sock'[f] = main.req /\ \A g \in Fds \ {f} : sock'[g] = sock[g]
      /\ sock' \in [Fds -> Nat]
  <2>1. \A g \in Fds : sock[g] \in Nat /\ sock[g] <= main.req /\ sock[g] # main.req
    BY <1>2 DEF RequestInv, RequestTypes, OneSocket
  <2>2. sock \in [Fds -> Nat]
    BY DEF RequestInv, RequestTypes
  <2> QED
    BY <1>2, <2>1, <2>2
<1>4. RequestTypes'
  BY <1>1, <1>3 DEF RequestInv, RequestTypes, Opened
<1>5. OneSocket'
  <2>1. \A g \in Fds : sock'[g] \in Nat /\ sock'[g] <= main.req
    BY <1>2, <1>3
  <2>2. \A g \in Fds : sock'[g] = main.req => g = f
    BY <1>3
  <2>3. \A g, h \in Fds : sock'[g] = sock'[h] /\ sock'[g] # 0 => g = h
    BY <1>2, <1>3 DEF RequestInv, OneSocket
  <2>4. \A g \in Fds : /\ sock'[g] <= main'.req
                       /\ sock'[g] = main'.req =>
                            (main'.at \in Opened /\ g = main'.fd) \/ main'.at = "undefined"
    BY <1>1, <1>2, <2>1, <2>2
  <2>5. main'.at \in Opened => sock'[main'.fd] = main'.req
    BY <1>1, <1>2, <1>3 DEF Opened
  <2> QED
    BY <2>3, <2>4, <2>5 DEF OneSocket
<1>6. InterestOwn' /\ EventsOwn'
  <2>1. \A g \in DOMAIN interest : g \in Fds /\ g # f
    BY DEF RequestInv, RequestTypes, InterestOwn
  <2>2. \A g \in DOMAIN interest : interest[g] \in Nat /\ interest[g] < main'.req
    BY <1>1, <1>2 DEF RequestInv, InterestOwn
  <2> QED
    BY <1>3, <2>1, <2>2 DEF RequestInv, InterestOwn, EventsOwn
<1>7. ThreadOwn'
  <2>1. thread.at \in {"del", "close"} => thread.fd # f
    BY DEF RequestInv, ThreadOwn
  <2>2. thread.at \in {"del", "close"} => thread.req < main'.req
    BY <1>1, <1>2 DEF RequestInv, ThreadOwn
  <2> QED
    BY <1>3, <2>1, <2>2 DEF RequestInv, ThreadOwn
<1>8. Unanswered' /\ OneAnswer'
  <2>1. \A r \in 1..HttpRequests : r >= main'.req => r >= main.req
    BY <1>1, <1>2
  <2> QED
    BY <2>1 DEF RequestInv, Unanswered, OneAnswer
<1> QED
  BY <1>4, <1>5, <1>6, <1>7, <1>8 DEF RequestInv

\* The socket that has been connected is registered with its request, or left.
LEMMA Registered ==
  ASSUME RequestInv, Req!Register
  PROVE  RequestInv'
<1> DEFINE f == main.fd
           r == main.req
<1>1. /\ main.at = "register" /\ main' = Req!NextRequest
      /\ UNCHANGED <<ctx, sock, thread, events, peer, got>>
  BY DEF Req!Register
<1>2. /\ f \in Fds /\ r \in 1..HttpRequests /\ HttpRequests \in Nat /\ sock[f] = r
      /\ got[r] = << >>
  BY <1>1, RequestsAssumption
     DEF RequestInv, RequestTypes, OneSocket, Opened, Unanswered
<1>3. /\ main'.at = IF r = HttpRequests THEN "done" ELSE "socket"
      /\ main'.req = r + 1 /\ main'.fd = 0 /\ main'.read = 0
      /\ main' = [at |-> main'.at, req |-> main'.req, fd |-> main'.fd,
                  read |-> main'.read]
  BY <1>1 DEF Req!NextRequest
<1>4. interest' = interest \/ interest' = [g \in DOMAIN interest \union {f} |->
                                             IF g = f THEN r ELSE interest[g]]
  BY DEF Req!Register
<1> HIDE DEF f, r
<1>5. /\ DOMAIN interest' \subseteq DOMAIN interest \cup {f}
      /\ DOMAIN interest \subseteq DOMAIN interest'
      /\ f \in DOMAIN interest' /\ f \notin DOMAIN interest => interest'[f] = r
      /\ \A g \in DOMAIN interest \ {f} : interest'[g] = interest[g]
  BY <1>4
<1>6. f \notin DOMAIN interest
  BY <1>2 DEF RequestInv, InterestOwn, r
<1>7. RequestTypes'
  BY <1>1, <1>2, <1>3, <1>5 DEF RequestInv, RequestTypes, Positions, Opened
<1>8. OneSocket'
  <2>1. \A g \in Fds : sock[g] \in Nat /\ sock[g] <= r
    BY DEF RequestInv, RequestTypes, OneSocket, r
  <2> QED
    BY <1>1, <1>2, <1>3, <2>1 DEF RequestInv, OneSocket, Opened
<1>9. InterestOwn'
  <2>1. \A g \in DOMAIN interest :
          /\ interest'[g] = interest[g] /\ interest[g] = sock[g]
          /\ interest[g] \in 1..HttpRequests /\ interest[g] < r
    BY <1>5, <1>6 DEF RequestInv, InterestOwn, r
  <2> QED
    BY <1>1, <1>2, <1>3, <1>5, <1>6, <2>1 DEF InterestOwn
<1>10. EventsOwn'
  BY <1>1, <1>5, <1>6 DEF RequestInv, EventsOwn
<1>11. ThreadOwn'
  <2>1. thread.at \in {"del", "close"} => thread.fd # f /\ thread.req < main'.req
    BY <1>2, <1>3 DEF RequestInv, ThreadOwn, r
  <2> QED
    BY <1>1, <1>5, <2>1 DEF RequestInv, ThreadOwn
<1>12. Unanswered' /\ OneAnswer'
  <2>1. \A q \in 1..HttpRequests : q >= main'.req => q >= r
    BY <1>2, <1>3
  <2>2. \A g \in DOMAIN interest' :
          \/ got[interest'[g]] = << >> \/ thread.at = "ended"
          \/ thread.at = "del" /\ thread.fd = g
    BY <1>2, <1>5, <1>6 DEF RequestInv, Unanswered
  <2> QED
    BY <1>1, <2>1, <2>2 DEF RequestInv, Unanswered, OneAnswer, r
<1> QED
  BY <1>7, <1>8, <1>9, <1>10, <1>11, <1>12 DEF RequestInv

\* A peer's replies, the state of the context, and what main has read so far are
\* of no account to whose answer is whose.
LEMMA ContextMoves ==
  ASSUME RequestInv, UNCHANGED <<main, sock, interest, thread, events, got>>,
         ctx' \in [program : {"http", "template", "blocking"},
                   state : {"none", "up", "leaked", "down", "freed"}],
         peer' \in [1..HttpRequests -> [sent : Nat, over : {"open", "closed", "reset"}]]
  PROVE  RequestInv'
<1>1. RequestTypes'
  BY DEF RequestInv, RequestTypes
<1>2. OneSocket' /\ InterestOwn' /\ EventsOwn'
  BY DEF RequestInv, OneSocket, InterestOwn, EventsOwn
<1>3. ThreadOwn' /\ Unanswered' /\ OneAnswer'
  BY DEF RequestInv, ThreadOwn, Unanswered, OneAnswer
<1> QED
  BY <1>1, <1>2, <1>3 DEF RequestInv

LEMMA PeerMoves ==
  ASSUME RequestInv, NEW r \in 1..HttpRequests, Req!PeerStep(r)
  PROVE  RequestInv'
<1>1. peer \in [1..HttpRequests -> [sent : Nat, over : {"open", "closed", "reset"}]]
  BY DEF RequestInv, RequestTypes
<1>2. \/ peer' = [peer EXCEPT ![r].sent = @ + 1]
      \/ peer' = [peer EXCEPT ![r].over = "closed"]
      \/ peer' = [peer EXCEPT ![r].over = "reset"]
  BY DEF Req!PeerStep
<1>3. peer' \in [1..HttpRequests -> [sent : Nat, over : {"open", "closed", "reset"}]]
  BY <1>1, <1>2
<1>4. UNCHANGED <<ctx, main, sock, interest, thread, events, got>>
  BY DEF Req!PeerStep, Req!kernel
<1>5. ctx' \in [program : {"http", "template", "blocking"},
                state : {"none", "up", "leaked", "down", "freed"}]
  BY <1>4 DEF RequestInv, RequestTypes
<1> QED
  BY <1>3, <1>4, <1>5, ContextMoves

LEMMA ShutDown ==
  ASSUME RequestInv, NEW state \in {"down", "freed"}, Req!Uninit(state)
  PROVE  RequestInv'
<1>1. ctx' = [ctx EXCEPT !.state = state]
      /\ UNCHANGED <<main, sock, interest, thread, events, peer, got>>
  BY DEF Req!Uninit, Req!kernel
<1>2. /\ ctx' \in [program : {"http", "template", "blocking"},
                   state : {"none", "up", "leaked", "down", "freed"}]
      /\ peer' \in [1..HttpRequests -> [sent : Nat, over : {"open", "closed", "reset"}]]
  BY <1>1 DEF RequestInv, RequestTypes
<1> QED
  BY <1>1, <1>2, ContextMoves

\* The callback thread starts, or the program ends.
LEMMA ClientStarts ==
  ASSUME RequestInv, Req!InitClient
  PROVE  RequestInv'
<1>1. PICK state \in {"up", "none", "leaked"} :
        /\ ctx' = [ctx EXCEPT !.state = state]
        /\ main' = [main EXCEPT !.at = IF state = "up" THEN "socket" ELSE "done"]
        /\ thread' = [thread EXCEPT !.at = IF state = "up" THEN "start" ELSE @]
  BY DEF Req!InitClient
<1>2. main.at = "init" /\ UNCHANGED <<sock, interest, events, peer, got>>
  BY DEF Req!InitClient, Req!kernel
<1>3. /\ main'.at \in {"socket", "done"} /\ main'.req = main.req /\ main'.fd = main.fd
      /\ main' \in [at : Positions, req : Nat \ {0}, fd : Fds \cup {0}, read : Int]
      /\ thread.at = "none" /\ events = {}
      /\ thread'.at \in {"none", "start"}
      /\ thread' \in [at : {"none", "start", "misled", "wait", "del", "close", "ended"},
                      req : Nat, fd : Fds \cup {0}]
      /\ ctx' \in [program : {"http", "template", "blocking"},
                   state : {"none", "up", "leaked", "down", "freed"}]
  BY <1>1, <1>2 DEF RequestInv, RequestTypes, EventsOwn, Positions
<1>4. RequestTypes'
  BY <1>2, <1>3 DEF RequestInv, RequestTypes, Opened
<1>5. OneSocket' /\ InterestOwn' /\ EventsOwn'
  BY <1>2, <1>3 DEF RequestInv, OneSocket, InterestOwn, EventsOwn, Opened
<1>6. ThreadOwn' /\ Unanswered' /\ OneAnswer'
  BY <1>2, <1>3 DEF RequestInv, ThreadOwn, Unanswered, OneAnswer
<1> QED
  BY <1>4, <1>5, <1>6 DEF RequestInv

\* socket and connect, of either kind of client.
LEMMA Connecting ==
  ASSUME RequestInv, NEW at \in {"register", "select"}, NEW failed,
         Failed(failed), Req!Connect(at, failed)
  PROVE  RequestInv'
<1>1. main.at = "socket" /\ UNCHANGED <<ctx, interest, thread, events, peer, got>>
  BY DEF Req!Connect
<1>2. CASE main' = failed /\ UNCHANGED sock
  <2>1. Failed(main')
    BY <1>2 DEF Failed
  <2> QED
    BY <1>1, <1>2, <2>1, NotOpened
<1>3. ASSUME NEW f \in Fds, sock[f] = 0, sock' = [sock EXCEPT ![f] = main.req],
             main' \in {failed, [main EXCEPT !.at = at, !.fd = f]}
      PROVE  RequestInv'
  <2>1. CASE main' = failed
    <3>1. Failed(main')
      BY <2>1 DEF Failed
    <3> QED
      BY <1>1, <1>3, <3>1, SocketOpened
  <2>2. CASE main' = [main EXCEPT !.at = at, !.fd = f]
    BY <1>1, <1>3, <2>2, SocketOpened
  <2> QED
    BY <1>3, <2>1, <2>2
<1> QED
  BY <1>2, <1>3 DEF Req!Connect

\* The callback thread finds a context, or has been cancelled.
LEMMA ThreadMoves ==
  ASSUME RequestInv, UNCHANGED <<ctx, main, sock, interest, events, peer, got>>,
         \/ thread.at = "start" /\ thread' = [thread EXCEPT !.at = "misled"]
         \/ thread.at = "start" /\ thread' = [thread EXCEPT !.at = "wait"]
         \/ /\ thread.at \in {"wait", "del", "close"}
            /\ thread' = [thread EXCEPT !.at = "ended"]
  PROVE  RequestInv'
<1>1. /\ thread' \in [at : {"none", "start", "misled", "wait", "del", "close", "ended"},
                      req : Nat, fd : Fds \cup {0}]
      /\ thread'.at \in {"misled", "wait", "ended"} /\ thread.at # "none"
      /\ thread'.at = "misled" => thread.at = "start"
      /\ thread'.at # "ended" => thread.at = "start"
  BY DEF RequestInv, RequestTypes
<1>2. RequestTypes'
  BY <1>1 DEF RequestInv, RequestTypes
<1>3. OneSocket' /\ InterestOwn' /\ EventsOwn'
  BY <1>1 DEF RequestInv, OneSocket, InterestOwn, EventsOwn
<1>4. ThreadOwn' /\ Unanswered' /\ OneAnswer'
  BY <1>1 DEF RequestInv, ThreadOwn, Unanswered, OneAnswer
<1> QED
  BY <1>2, <1>3, <1>4 DEF RequestInv

\* epoll_wait returns descriptors that epoll knows, each with its request.
LEMMA Waited ==
  ASSUME RequestInv, Req!Wait
  PROVE  RequestInv'
<1>1. /\ thread.at = "wait"
      /\ events' = { <<f, interest[f]>> :
                       f \in { g \in DOMAIN interest : Req!Readable(sock[g]) } }
      /\ UNCHANGED <<ctx, main, sock, interest, thread, peer, got>>
  BY DEF Req!Wait, Req!kernel
<1>2. \A e \in events' : /\ e = <<e[1], e[2]>> /\ e[1] \in DOMAIN interest
                         /\ interest[e[1]] = e[2]
  BY <1>1
<1>3. RequestTypes' /\ OneSocket' /\ InterestOwn'
  BY <1>1 DEF RequestInv, RequestTypes, OneSocket, InterestOwn
<1>4. EventsOwn'
  BY <1>1, <1>2 DEF EventsOwn
<1>5. ThreadOwn' /\ Unanswered' /\ OneAnswer'
  BY <1>1 DEF RequestInv, ThreadOwn, Unanswered, OneAnswer
<1> QED
  BY <1>3, <1>4, <1>5 DEF RequestInv

\* What is received from a socket is handed to the request it is a socket of.
LEMMA CalledBack ==
  ASSUME RequestInv, Req!CallBack
  PROVE  RequestInv'
<1>1. PICK e \in events : \E n \in Req!Arrived(sock[e[1]], 0) :
        /\ got' = [got EXCEPT ![e[2]] =
                     Append(@, [of |-> sock[e[1]], host |-> "", chunks |-> n])]
        /\ events' = events \ {e}
        /\ thread' = [at |-> "del", req |-> e[2], fd |-> e[1]]
  BY DEF Req!CallBack
<1>2. thread.at = "wait" /\ UNCHANGED <<ctx, main, sock, interest, peer>>
  BY DEF Req!CallBack, Req!kernel
<1>3. PICK call : /\ call.of = sock[e[1]]
                  /\ got' = [got EXCEPT ![e[2]] = Append(@, call)]
                  /\ events' = events \ {e}
                  /\ thread' = [at |-> "del", req |-> e[2], fd |-> e[1]]
  <2>1. PICK n : got' = [got EXCEPT ![e[2]] =
                    Append(@, [of |-> sock[e[1]], host |-> "", chunks |-> n])]
    BY <1>1
  <2> DEFINE call == [of |-> sock[e[1]], host |-> "", chunks |-> n]
  <2>2. call.of = sock[e[1]] /\ got' = [got EXCEPT ![e[2]] = Append(@, call)]
    BY <2>1
  <2> HIDE DEF call
  <2> QED
    BY <1>1, <2>2
<1> DEFINE f == e[1]
           r == e[2]
<1>4. /\ e = <<f, r>> /\ f \in DOMAIN interest /\ f \in Fds
      /\ interest[f] = r /\ sock[f] = r /\ r \in 1..HttpRequests /\ r < main.req
      /\ got[r] = << >>
  BY <1>2 DEF RequestInv, RequestTypes, InterestOwn, EventsOwn, Unanswered
<1>5. /\ thread'.at = "del" /\ thread'.req = r /\ thread'.fd = f
      /\ thread' \in [at : {"none", "start", "misled", "wait", "del", "close", "ended"},
                      req : Nat, fd : Fds \cup {0}]
  BY <1>3, <1>4
<1>6. /\ DOMAIN got' = DOMAIN got /\ got'[r] = <<call>> /\ call.of = r
      /\ \A q \in DOMAIN got \ {r} : got'[q] = got[q]
  <2>1. DOMAIN got = 1..HttpRequests
    BY DEF RequestInv, RequestTypes
  <2>2. Append(<< >>, call) = <<call>>
    OBVIOUS
  <2> QED
    BY <1>3, <1>4, <2>1, <2>2
<1>7. /\ events' \subseteq events
      /\ \A x \in events' : x[1] # f
  <2>1. \A x \in events' : x \in events /\ x # e
    BY <1>3
  <2>2. \A x \in events : x = <<x[1], x[2]>> /\ x[2] = interest[x[1]]
    BY DEF RequestInv, EventsOwn
  <2> QED
    BY <1>4, <2>1, <2>2
<1> HIDE DEF f, r
<1>8. RequestTypes'
  <2>1. main.at # "init"
    BY <1>2 DEF RequestInv, RequestTypes
  <2> QED
    BY <1>2, <1>5, <1>6, <2>1 DEF RequestInv, RequestTypes
<1>9. OneSocket' /\ InterestOwn'
  BY <1>2 DEF RequestInv, OneSocket, InterestOwn
<1>10. EventsOwn'
  BY <1>2, <1>5, <1>7 DEF RequestInv, EventsOwn
<1>11. ThreadOwn'
  BY <1>2, <1>4, <1>5 DEF ThreadOwn
<1>12. Unanswered'
  <2>1. DOMAIN got = 1..HttpRequests /\ main.req \in Nat /\ r \in Nat
    BY <1>4 DEF RequestInv, RequestTypes
  <2>2. \A q \in 1..HttpRequests : q >= main.req => got'[q] = << >>
    BY <1>4, <1>6, <2>1 DEF RequestInv, Unanswered
  <2>3. ASSUME NEW g \in DOMAIN interest PROVE got'[interest[g]] = << >> \/ g = f
    <3>1. g \in Fds /\ interest[g] = sock[g] /\ interest[g] \in 1..HttpRequests
      BY DEF RequestInv, RequestTypes, InterestOwn
    <3>2. interest[g] = r => g = f
      <4>1. \A h \in Fds : sock[h] = sock[f] /\ sock[h] # 0 => h = f
        BY <1>4 DEF RequestInv, OneSocket
      <4>2. r # 0
        BY <1>4
      <4> QED
        BY <1>4, <3>1, <4>1, <4>2
    <3>3. got[interest[g]] = << >>
      BY <1>2 DEF RequestInv, Unanswered
    <3> QED
      BY <1>6, <2>1, <3>1, <3>2, <3>3
  <2> QED
    BY <1>2, <1>5, <2>2, <2>3 DEF Unanswered
<1>13. OneAnswer'
  <2>1. DOMAIN got = 1..HttpRequests
    BY DEF RequestInv, RequestTypes
  <2> QED
    BY <1>6, <2>1 DEF RequestInv, OneAnswer
<1> QED
  BY <1>8, <1>9, <1>10, <1>11, <1>12, <1>13 DEF RequestInv

\* The socket leaves epoll, and then it is closed.
LEMMA Finished ==
  ASSUME RequestInv, Req!Finish
  PROVE  RequestInv'
<1> DEFINE f == thread.fd
<1>1. UNCHANGED <<ctx, main, events, peer, got>> /\ thread.at \in {"del", "close"}
  BY DEF Req!Finish
<1>2. /\ f \in Fds /\ sock[f] = thread.req /\ sock \in [Fds -> Nat]
      /\ thread.req \in 1..HttpRequests /\ thread.req < main.req
  BY <1>1 DEF RequestInv, RequestTypes, ThreadOwn
<1>3. interest' = [g \in DOMAIN interest \ {f} |-> interest[g]]
  BY DEF Req!Finish, Req!Deregister, Req!Close, Req!Without
<1>4. \/ /\ thread.at = "del" /\ sock' = sock /\ thread'.fd = f
         /\ thread'.req = thread.req /\ thread'.at = "close"
         /\ thread' = [thread EXCEPT !.at = "close"]
      \/ /\ thread.at = "close" /\ sock' = [sock EXCEPT ![f] = 0]
         /\ thread' = [at |-> "wait", req |-> 0, fd |-> 0]
  <2>1. CASE thread.at = "del"
    <3>1. thread' = [thread EXCEPT !.at = "close"] /\ sock' = sock
      BY <2>1 DEF Req!Finish, Req!Deregister
    <3> QED
      BY <2>1, <3>1 DEF RequestInv, RequestTypes
  <2>2. CASE thread.at = "close"
    BY <2>2 DEF Req!Finish, Req!Close
  <2> QED
    BY <1>1, <2>1, <2>2
<1> HIDE DEF f
<1>5. /\ DOMAIN interest' = DOMAIN interest \ {f}
      /\ \A g \in DOMAIN interest' : interest'[g] = interest[g]
  BY <1>3
<1>6. /\ sock' \in [Fds -> Nat]
      /\ \A g \in Fds : sock'[g] = sock[g] \/ (g = f /\ sock'[g] = 0)
  <2>1. CASE sock' = sock
    BY <1>2, <2>1
  <2>2. CASE sock' = [sock EXCEPT ![f] = 0]
    BY <1>2, <2>2
  <2> QED
    BY <1>4, <2>1, <2>2
<1>7. main.req \in Nat \ {0} /\ (main.at \in Opened => main.fd # f)
  BY <1>2 DEF RequestInv, RequestTypes, OneSocket
<1>8. RequestTypes'
  <2>1. thread' \in [at : {"none", "start", "misled", "wait", "del", "close", "ended"},
                     req : Nat, fd : Fds \cup {0}]
    BY <1>4 DEF RequestInv, RequestTypes
  <2>2. main.at # "init"
    BY <1>1 DEF RequestInv, RequestTypes
  <2> QED
    BY <1>1, <1>5, <1>6, <2>1, <2>2 DEF RequestInv, RequestTypes
<1>9. OneSocket'
  <2>1. /\ \A g \in Fds : sock[g] <= main.req
        /\ \A g \in Fds : sock[g] = main.req =>
             (main.at \in Opened /\ g = main.fd) \/ main.at = "undefined"
        /\ main.at \in Opened => sock[main.fd] = main.req /\ main.fd \in Fds
        /\ \A g, h \in Fds : sock[g] = sock[h] /\ sock[g] # 0 => g = h
    BY DEF RequestInv, RequestTypes, OneSocket
  <2>2. main.at \in Opened => sock'[main.fd] = main.req
    BY <1>6, <1>7, <2>1
  <2>3. \A g \in Fds : /\ sock'[g] <= main.req
                       /\ sock'[g] = main.req => sock[g] = main.req
    BY <1>6, <1>7, <2>1
  <2>4. \A g, h \in Fds : sock'[g] = sock'[h] /\ sock'[g] # 0 => g = h
    BY <1>6, <2>1
  <2> QED
    BY <1>1, <2>1, <2>2, <2>3, <2>4 DEF OneSocket
<1>10. InterestOwn'
  <2>1. \A g \in DOMAIN interest' : g \in Fds /\ g # f
    BY <1>5 DEF RequestInv, RequestTypes
  <2> QED
    BY <1>1, <1>5, <1>6, <2>1 DEF RequestInv, InterestOwn
<1>11. EventsOwn'
  <2>1. \A e \in events : e[1] # f
    <3>1. CASE thread.at = "del"
      BY <3>1 DEF RequestInv, EventsOwn, f
    <3>2. CASE thread.at = "close"
      BY <3>2 DEF RequestInv, EventsOwn, ThreadOwn, f
    <3> QED
      BY <1>1, <3>1, <3>2
  <2>2. thread'.at \notin {"none", "start", "misled", "del"}
    BY <1>4
  <2> QED
    BY <1>1, <1>5, <2>1, <2>2 DEF RequestInv, EventsOwn
<1>12. ThreadOwn'
  BY <1>1, <1>2, <1>4, <1>5 DEF ThreadOwn
<1>13. Unanswered' /\ OneAnswer'
  <2>1. \A g \in DOMAIN interest' : got[interest'[g]] = << >>
    BY <1>1, <1>5 DEF RequestInv, Unanswered, f
  <2> QED
    BY <1>1, <2>1 DEF RequestInv, Unanswered, OneAnswer
<1> QED
  BY <1>8, <1>9, <1>10, <1>11, <1>12, <1>13 DEF RequestInv

\* The blocking client waits and receives.
LEMMA Receiving ==
  ASSUME RequestInv, Req!http_send_request
  PROVE  RequestInv'
<1>1. main.at = "select" /\ UNCHANGED <<ctx, sock, interest, thread, events, peer, got>>
  BY DEF Req!http_send_request, Req!kernel
<1>2. /\ main.req \in 1..HttpRequests /\ main.fd \in Fds
      /\ peer[main.req].sent \in Nat
  BY <1>1 DEF RequestInv, RequestTypes, Opened
<1>3. \/ main' = [main EXCEPT !.at = "puts"]
      \/ main' = [main EXCEPT !.read = peer[main.req].sent]
      \/ main' = [main EXCEPT !.at = "undefined"]
  BY DEF Req!http_send_request
<1>4. /\ main' \in [at : Positions, req : Nat \ {0}, fd : Fds \cup {0}, read : Int]
      /\ main'.at \in {"puts", "select", "undefined"}
      /\ main'.req = main.req /\ main'.fd = main.fd
  BY <1>1, <1>2, <1>3 DEF RequestInv, RequestTypes, Positions
<1>5. RequestTypes'
  BY <1>1, <1>2, <1>4 DEF RequestInv, RequestTypes
<1>6. OneSocket'
  BY <1>1, <1>4 DEF RequestInv, OneSocket, Opened
<1>7. InterestOwn' /\ EventsOwn' /\ ThreadOwn' /\ Unanswered' /\ OneAnswer'
  BY <1>1, <1>4
     DEF RequestInv, InterestOwn, EventsOwn, ThreadOwn, Unanswered, OneAnswer
<1> QED
  BY <1>5, <1>6, <1>7 DEF RequestInv

\* The blocking client has the whole answer, closes the socket and goes on.
LEMMA Printed ==
  ASSUME RequestInv, Req!Puts
  PROVE  RequestInv'
<1> DEFINE f == main.fd
           r == main.req
<1>1. /\ main.at = "puts" /\ main' = Req!NextRequest
      /\ UNCHANGED <<ctx, interest, thread, events, peer>>
      /\ sock' = [sock EXCEPT ![f] = 0]
  BY DEF Req!Puts
<1>2. PICK call : /\ call.of = sock[f]
                  /\ got' = [got EXCEPT ![r] = Append(@, call)]
  <2> DEFINE call == [of |-> sock[main.fd], host |-> "", chunks |-> main.read]
  <2>1. call.of = sock[f] /\ got' = [got EXCEPT ![r] = Append(@, call)]
    BY DEF Req!Puts
  <2> HIDE DEF call
  <2> QED
    BY <2>1
<1>3. /\ f \in Fds /\ r \in 1..HttpRequests /\ HttpRequests \in Nat /\ sock[f] = r
      /\ got[r] = << >> /\ DOMAIN got = 1..HttpRequests /\ sock \in [Fds -> Nat]
  BY <1>1, RequestsAssumption
     DEF RequestInv, RequestTypes, OneSocket, Opened, Unanswered
<1>4. /\ main'.at = IF r = HttpRequests THEN "done" ELSE "socket"
      /\ main'.req = r + 1 /\ main'.fd = 0 /\ main'.read = 0
      /\ main' = [at |-> main'.at, req |-> main'.req, fd |-> main'.fd,
                  read |-> main'.read]
  BY <1>1 DEF Req!NextRequest
<1>5. /\ DOMAIN got' = DOMAIN got /\ got'[r] = <<call>> /\ call.of = r
      /\ \A q \in DOMAIN got \ {r} : got'[q] = got[q]
  <2>1. Append(<< >>, call) = <<call>>
    OBVIOUS
  <2> QED
    BY <1>2, <1>3, <2>1
<1> HIDE DEF f, r
<1>6. /\ sock' \in [Fds -> Nat] /\ sock'[f] = 0
      /\ \A g \in Fds \ {f} : sock'[g] = sock[g]
  BY <1>1, <1>3
<1>7. /\ \A g \in DOMAIN interest : g \in Fds /\ g # f /\ interest[g] < r
      /\ thread.at \in {"del", "close"} => thread.fd # f /\ thread.req < r
  <2>1. \A g \in DOMAIN interest : /\ g \in Fds /\ interest[g] = sock[g]
                                   /\ interest[g] \in Nat /\ interest[g] < r
    BY DEF RequestInv, RequestTypes, InterestOwn, r
  <2>2. thread.at \in {"del", "close"} => /\ sock[thread.fd] = thread.req
                                          /\ thread.req \in Nat /\ thread.req < r
    BY DEF RequestInv, ThreadOwn, r
  <2> QED
    BY <1>3, <2>1, <2>2
<1>8. RequestTypes'
  BY <1>1, <1>3, <1>4, <1>5, <1>6 DEF RequestInv, RequestTypes, Positions, Opened
<1>9. OneSocket'
  <2>1. /\ \A g \in Fds : sock[g] \in Nat /\ sock[g] <= r
        /\ \A g, h \in Fds : sock[g] = sock[h] /\ sock[g] # 0 => g = h
    BY DEF RequestInv, RequestTypes, OneSocket, r
  <2>2. \A g \in Fds : sock'[g] \in Nat /\ sock'[g] <= r
    BY <1>3, <1>6, <2>1
  <2>3. \A g, h \in Fds : sock'[g] = sock'[h] /\ sock'[g] # 0 => g = h
    BY <1>6, <2>1
  <2>4. \A g \in Fds : sock'[g] < main'.req
    BY <1>3, <1>4, <2>2
  <2>5. main'.at \notin Opened /\ main'.req \in Nat
    BY <1>3, <1>4 DEF Opened
  <2> QED
    BY <2>2, <2>3, <2>4, <2>5 DEF OneSocket
<1>10. InterestOwn'
  <2>1. \A g \in DOMAIN interest :
          interest[g] = sock[g] /\ interest[g] \in 1..HttpRequests
    BY DEF RequestInv, InterestOwn
  <2> QED
    BY <1>1, <1>3, <1>4, <1>6, <1>7, <2>1 DEF InterestOwn
<1>11. EventsOwn'
  BY <1>1 DEF RequestInv, EventsOwn
<1>12. ThreadOwn'
  BY <1>1, <1>3, <1>4, <1>6, <1>7 DEF RequestInv, ThreadOwn
<1>13. Unanswered'
  <2>1. \A q \in 1..HttpRequests : q >= main'.req => q >= r /\ q # r
    BY <1>3, <1>4
  <2>2. \A g \in DOMAIN interest :
          interest[g] \in 1..HttpRequests /\ interest[g] # r
    BY <1>3, <1>7 DEF RequestInv, InterestOwn
  <2> QED
    BY <1>1, <1>3, <1>5, <2>1, <2>2 DEF RequestInv, Unanswered, r
<1>14. OneAnswer'
  BY <1>3, <1>5 DEF RequestInv, OneAnswer
<1> QED
  BY <1>8, <1>9, <1>10, <1>11, <1>12, <1>13, <1>14 DEF RequestInv

LEMMA RequestStep ==
  ASSUME RequestInv, Req!Next
  PROVE  RequestInv'
<1>1. CASE Req!http_async_client_init \/ Req!async_client_init
  BY <1>1, ClientStarts DEF Req!http_async_client_init, Req!async_client_init
<1>2. CASE Req!Request
  <2>1. Failed(Req!NextRequest)
    BY DEF Failed
  <2> QED
    BY <1>2, <2>1, Connecting, Registered DEF Req!Request
<1>3. CASE Req!Uninit("down") \/ Req!Uninit("freed")
  BY <1>3, ShutDown
<1>4. CASE Req!Handling
  <2>1. CASE Req!ReadContext
    <3>1. /\ thread.at = "start" /\ UNCHANGED <<ctx, main, sock, interest, events, peer, got>>
          /\ \/ thread' = [thread EXCEPT !.at = "misled"]
             \/ thread' = [thread EXCEPT !.at = "wait"]
      BY <2>1 DEF Req!ReadContext, Req!kernel
    <3> QED
      BY <3>1, ThreadMoves
  <2>2. CASE Req!Cancelled
    BY <2>2, ThreadMoves DEF Req!Cancelled, Req!kernel
  <2> QED
    BY <1>4, <2>1, <2>2, Waited, CalledBack, Finished DEF Req!Handling
<1>5. CASE Req!http_client_commit
  <2>1. Failed([main EXCEPT !.at = "undefined"])
    BY DEF Failed
  <2> QED
    BY <1>5, <2>1, Connecting, Receiving, Printed
       DEF Req!http_client_commit, Req!http_create_socket
<1>6. CASE \E r \in Req!Reqs : Req!PeerStep(r)
  BY <1>6, PeerMoves DEF Req!Reqs
<1> QED
  BY <1>1, <1>2, <1>3, <1>4, <1>5, <1>6
     DEF Req!Next, Req!http_async_client_commit, Req!async_client_request,
         Req!http_async_client_uninit, Req!async_client_uninit, Req!Callback,
         Req!http_async_client_callback, Req!async_client_callback

LEMMA RequestInit == Req!Init => RequestInv
<1> SUFFICES ASSUME Req!Init PROVE RequestInv
  OBVIOUS
<1>1. /\ ctx \in [program : {"http", "template", "blocking"}, state : {"none"}]
      /\ main \in [at : {"socket", "init"}, req : {1}, fd : {0}, read : {0}]
      /\ sock = [f \in Fds |-> 0] /\ interest = << >>
      /\ thread = [at |-> "none", req |-> 0, fd |-> 0] /\ events = {}
      /\ peer = [r \in 1..HttpRequests |-> [sent |-> 0, over |-> "open"]]
      /\ got = [r \in 1..HttpRequests |-> << >>]
  BY DEF Req!Init, Req!Reqs
<1>2. /\ DOMAIN interest = {} /\ HttpRequests \in Nat \ {0}
      /\ sock \in [Fds -> Nat] /\ \A f \in Fds : sock[f] = 0
      /\ main.req = 1 /\ main.at \in {"socket", "init"} /\ thread.at = "none"
  BY <1>1, RequestsAssumption
<1>3. RequestTypes
  BY <1>1, <1>2 DEF RequestTypes, Positions, Opened
<1>4. OneSocket /\ InterestOwn /\ EventsOwn /\ ThreadOwn
  BY <1>1, <1>2 DEF OneSocket, InterestOwn, EventsOwn, ThreadOwn, Opened
<1>5. Unanswered /\ OneAnswer
  BY <1>1, <1>2 DEF Unanswered, OneAnswer
<1> QED
  BY <1>3, <1>4, <1>5 DEF RequestInv

LEMMA RequestOwn == RequestInv => Req!OwnAnswers
<1> SUFFICES ASSUME RequestInv, NEW r \in 1..HttpRequests
             PROVE  Len(got[r]) <= 1 /\ \A i \in DOMAIN got[r] : got[r][i].of = r
  BY DEF Req!OwnAnswers, Req!Reqs
<1>1. got[r] = << >> \/ \E call : got[r] = <<call>> /\ call.of = r
  BY DEF RequestInv, OneAnswer
<1>2. CASE got[r] = << >>
  BY <1>2
<1>3. ASSUME NEW call, got[r] = <<call>>, call.of = r
      PROVE  Len(got[r]) <= 1 /\ \A i \in DOMAIN got[r] : got[r][i].of = r
  BY <1>3
<1> QED
  BY <1>1, <1>2, <1>3

-----------------------------------------------------------------------------
(* The Redis test. *)

Before == {"new", "failed", "connecting"}

\* The counted replies and the open commands are never more than were sent,
\* and disconnecting has been asked for only when all replies are counted.
Counted ==
  /\ rds \in [sender : {"set", "produce", "custom"}, asked : BOOLEAN,
              at : Before \cup {"up", "closing", "freed"}]
  /\ pending \in Nat /\ g_iCmdCallback \in Nat
  /\ g_iCmdCallback + pending <= TEST_CMD_COUNT
  /\ rds.at \in Before => g_iCmdCallback = 0 /\ pending = 0 /\ ~rds.asked
  /\ rds.asked => g_iCmdCallback >= TEST_CMD_COUNT

\* Connecting sends all commands, when none has been sent.
LEMMA RedisConnects ==
  ASSUME Counted, Rds!RdsCbConnect
  PROVE  Counted'
<1>1. pending' \in {1, TEST_CMD_COUNT} /\ g_iCmdCallback' = g_iCmdCallback
  BY DEF Rds!RdsCbConnect, Rds!SendSetRequest, Rds!SendProduceRequest, Rds!SendCustomRequest
<1>2. g_iCmdCallback = 0
  BY DEF Rds!RdsCbConnect, Counted, Before
<1>3. ~rds.asked
  BY DEF Rds!RdsCbConnect, Counted, Before
<1>4. PICK at \in {"up", "closing"} : rds' = [rds EXCEPT !.at = at]
  BY DEF Rds!RdsCbConnect
<1>5. rds' \in [sender : {"set", "produce", "custom"}, asked : BOOLEAN,
                at : Before \cup {"up", "closing", "freed"}]
      /\ rds'.at \notin Before /\ ~rds'.asked
  BY <1>3, <1>4 DEF Counted, Before
<1>6. /\ pending' \in Nat /\ g_iCmdCallback' \in Nat
      /\ g_iCmdCallback' + pending' <= TEST_CMD_COUNT
  <2>1. pending' = 1 \/ pending' = TEST_CMD_COUNT
    BY <1>1
  <2>2. g_iCmdCallback' = 0
    BY <1>1, <1>2
  <2> QED
    BY <2>1, <2>2, CommandsAssumption
<1> QED
  BY <1>5, <1>6, Zenon DEF Counted

\* A callback closes a command and counts at most that one.
LEMMA RedisReplies ==
  ASSUME Counted,
         rds.at \in {"up", "closing"}, NEW reply, Rds!RdsCbCmd(reply)
  PROVE  Counted'
<1> DEFINE counts == reply \notin {"null", "nil"}
<1>1. /\ pending > 0 /\ pending' = pending - 1
      /\ g_iCmdCallback' = g_iCmdCallback + IF counts THEN 1 ELSE 0
      /\ rds' = [rds EXCEPT
                   !.asked = @ \/ (counts /\ g_iCmdCallback' >= TEST_CMD_COUNT)]
  BY DEF Rds!RdsCbCmd
<1> HIDE DEF counts
<1>2. /\ pending' \in Nat /\ g_iCmdCallback' \in Nat
      /\ g_iCmdCallback' + pending' <= TEST_CMD_COUNT
      /\ g_iCmdCallback >= TEST_CMD_COUNT => g_iCmdCallback' >= TEST_CMD_COUNT
  BY <1>1, CommandsAssumption DEF Counted
<1>3. rds'.asked => g_iCmdCallback' >= TEST_CMD_COUNT
  <2>1. rds'.asked => rds.asked \/ g_iCmdCallback' >= TEST_CMD_COUNT
    BY <1>1 DEF Counted
  <2> QED
    BY <1>2, <2>1, Zenon DEF Counted
<1>4. rds' \in [sender : {"set", "produce", "custom"}, asked : BOOLEAN,
                at : Before \cup {"up", "closing", "freed"}]
  BY <1>1 DEF Counted
<1>5. rds'.at \notin Before
  BY <1>1 DEF Counted, Before
<1> QED
  BY <1>2, <1>3, <1>4, <1>5, Zenon DEF Counted

LEMMA RedisStep ==
  ASSUME Counted, Rds!Next
  PROVE  Counted'
<1>1. CASE Rds!Main
  BY <1>1 DEF Rds!Main, Counted, Before
<1>2. CASE Rds!RdsCbConnect
  BY <1>2, RedisConnects
<1>3. CASE Rds!Reply
  BY <1>3, RedisReplies DEF Rds!Reply
<1>4. CASE Rds!RdsCbDisConnect
  BY <1>4 DEF Rds!RdsCbDisConnect, Counted, Before
<1>5. CASE Rds!Lost
  BY <1>5 DEF Rds!Lost, Counted, Before
<1> QED
  BY <1>1, <1>2, <1>3, <1>4, <1>5 DEF Rds!Next, Rds!Loop

LEMMA RedisInit == Rds!Init => Counted
<1> SUFFICES ASSUME Rds!Init PROVE Counted
  OBVIOUS
<1>1. PICK from \in {"set", "produce", "custom"} :
        rds = [sender |-> from, at |-> "new", asked |-> FALSE]
  BY DEF Rds!Init
<1>2. /\ rds \in [sender : {"set", "produce", "custom"}, asked : BOOLEAN,
                  at : Before \cup {"up", "closing", "freed"}]
      /\ ~rds.asked
  BY <1>1 DEF Before
<1>3. /\ pending = 0 /\ g_iCmdCallback = 0 /\ pending \in Nat
      /\ g_iCmdCallback \in Nat /\ g_iCmdCallback + pending <= TEST_CMD_COUNT
  BY CommandsAssumption DEF Rds!Init
<1> QED
  BY <1>2, <1>3, Zenon DEF Counted

\* No answer is given twice or to another request, although descriptors are used
\* again (asyn_http.c:200, asyntemplate.c:119), and the Redis test asks to be
\* disconnected only when every command has had its callback (redisasyn.cpp:137).
THEOREM AnswersOwn == Spec => []OwnAnswers
<1>1. Init => RequestInv /\ Counted
  BY RequestInit, RedisInit DEF Init
<1>2. RequestInv /\ [Next]_vars => RequestInv'
  <2> SUFFICES ASSUME RequestInv, [Next]_vars PROVE RequestInv'
    OBVIOUS
  <2>1. CASE Req!Next
    BY <2>1, RequestStep
  <2>2. CASE UNCHANGED async
    <3>1. UNCHANGED <<ctx, main, sock, interest, thread, events, peer, got>>
      BY <2>2 DEF async
    <3>2. /\ ctx' \in [program : {"http", "template", "blocking"},
                       state : {"none", "up", "leaked", "down", "freed"}]
          /\ peer' \in [1..HttpRequests
                          -> [sent : Nat, over : {"open", "closed", "reset"}]]
      BY <3>1 DEF RequestInv, RequestTypes
    <3> QED
      BY <3>1, <3>2, ContextMoves
  <2> QED
    BY <2>1, <2>2 DEF Next, Service, Sorting, Requesting, Redis, ZeroMQ, services, vars
<1>3. Counted /\ [Next]_vars => Counted'
  <2> SUFFICES ASSUME Counted, [Next]_vars PROVE Counted'
    OBVIOUS
  <2>1. CASE Rds!Next
    BY <2>1, RedisStep
  <2>2. CASE UNCHANGED redis
    BY <2>2 DEF redis, Counted
  <2> QED
    BY <2>1, <2>2 DEF Next, Service, Sorting, Requesting, Redis, ZeroMQ, services, vars
<1>4. RequestInv /\ Counted => OwnAnswers
  <2>1. Counted => Rds!NothingCutOff
    BY CommandsAssumption DEF Counted, Rds!NothingCutOff
  <2> QED
    BY <2>1, RequestOwn DEF OwnAnswers
<1> QED
  BY <1>1, <1>2, <1>3, <1>4, PTL DEF Spec
==============================================================================
