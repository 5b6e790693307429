---------------------- MODULE EngineStoreReplay_proofs ----------------------
(***************************************************************************)
(* Proofs about replay in EngineStore: what `bpg replay` reconstructs from *)
(* the event log agrees with the records, and a run that is stepped again  *)
(* calls no provider of a node it found completed.  Both rest on the       *)
(* inductive invariant of EngineStore_proofs.                              *)
(***************************************************************************)
EXTENDS EngineStore_proofs

-----------------------------------------------------------------------------
(* The inductive invariant.                                                *)

\* In an event log, the last event of node n has this status; n has no event; the record
\* of n says the same as the log.
Latest(events, n, status) ==
    \E i \in DOMAIN events :
        /\ events[i].node = n /\ events[i].status = status
        /\ \A k \in DOMAIN events : k > i => events[k].node # n
Unlogged(events, n) == \A i \in DOMAIN events : events[i].node # n
Agrees(events, rec, n) ==
    IF rec.status = Nothing THEN Unlogged(events, n) ELSE Latest(events, n, rec.status)

VerdictLast(events) ==
    events # << >> /\ Last(events).type \in {"run_completed", "run_failed"}

\* What the type of the event that ends a run says of it.
EndedAs(event) == IF event.type = "run_completed" THEN "completed" ELSE "failed"

\* The execution log has an entry for every node, in order, once the backend is done,
\* and there is a verdict.
Ordered(x) ==
    /\ x.pc = "execute" => Len(x.entries) = x.position - 1
    /\ x.pc \in Writing => Len(x.entries) = Len(Order) /\ x.status \in Verdict
    /\ x.pc \in Writing \cup {"execute"} =>
          \A i \in 1..Len(x.entries) : x.entries[i].node = Order[i]

\* A run without a directory has no log; the log is about the nodes of the process;
\* and while the last event is a verdict the records say the same, the run's as far as
\* the type of the event can tell.
Told(r) ==
    /\ ~ Exists(r) => log[r] = << >>
    /\ \A i \in DOMAIN log[r] : log[r][i].node \in Range(Order) \cup {Nothing}
    /\ VerdictLast(log[r]) =>
          /\ Replayed(runFile[r].status) = EndedAs(Last(log[r]))
          /\ \A n \in Node : Agrees(log[r], nodeFile[r][n], n)

AgreesAt(x, i) ==
    Agrees(log[x.run], nodeFile[x.run][x.entries[i].node], x.entries[i].node)

\* What the worker of a run has told about it so far.
Telling(x) ==
    /\ x.pc = "create" => log[x.run] = << >>
    /\ x.pc \in Writing \ {"start", "audit"} => ~ VerdictLast(log[x.run])
    /\ x.pc \in {"append", "record"} =>
          \A i \in DOMAIN x.entries : i < x.position => AgreesAt(x, i)
    /\ x.pc = "record" => LET e == x.entries[x.position]
                          IN Latest(log[x.run], e.node, e.status)
    /\ x.pc \in {"update", "truncate", "write", "end"} =>
          \A n \in Node : Agrees(log[x.run], nodeFile[x.run][n], n)
    /\ x.pc = "end" => runFile[x.run].status = x.status

OrderedInv == \A w \in Worker : Ordered(worker[w])
ToldInv == Alone => /\ \A r \in Run : Told(r)
                    /\ \A w \in Worker : Telling(worker[w])

\* No call of run r was made without the run's input.
Clean(r) == \A d \in calls : d.run = r => d.input # "empty"

KnownOutput(n) ==
    {"clear", Nothing} \cup (IF n = Last(Order) THEN {"masked"} ELSE {})
Known(n, rec) == rec.input \in {"clear", Nothing} /\ rec.output \in KnownOutput(n)

\* What a worker of such a run has in memory.
KnownTo(x) ==
    /\ \A hit \in x.cache : Known(hit.node, hit)
    /\ \A i \in DOMAIN x.entries : Known(x.entries[i].node, x.entries[i])
    /\ x.pc = "load" => x.input \in {"clear", "empty"}
    /\ x.pc = "execute" => x.input = "clear" \/ (x.input = "empty" /\ x.position = 1)
    /\ x.pc = "create" => x.input = "clear"
KnownRun(r) ==
    /\ \A d \in calls : d.run = r => d.input = "clear" /\ ~ d.repeated
    /\ \A n \in Node : Known(n, nodeFile[r][n])
    /\ \A w \in Worker : At(w) = r => KnownTo(worker[w])
KnownInv ==
    deployment.masked \subseteq {Last(Order)} => \A r \in Run : Clean(r) => KnownRun(r)

-----------------------------------------------------------------------------
(* Event logs.                                                             *)

\* The last event of a sequence has the largest index.
LEMMA LastIsLast ==
    ASSUME NEW S, NEW s \in Seq(S), s # << >>
    PROVE  /\ Last(s) = s[Len(s)] /\ Len(s) \in DOMAIN s /\ DOMAIN s = 1..Len(s)
           /\ Len(s) \in Nat /\ Len(s) > 0
  BY DEF Last

\* What an appended event leaves of a log.
LEMMA AppendLast ==
    ASSUME NEW S, NEW s \in Seq(S), NEW e \in S
    PROVE  LET t == Append(s, e)
           IN /\ t \in Seq(S) /\ t # << >> /\ Last(t) = e
              /\ DOMAIN t = 1..(Len(s) + 1) /\ DOMAIN s = 1..Len(s) /\ Len(s) \in Nat
              /\ t[Len(s) + 1] = e /\ \A i \in 1..Len(s) : t[i] = s[i]
  BY DEF Last

\* The event of a node is its latest when it is appended, and changes nothing for the
\* other nodes.
LEMMA AppendLatest ==
    ASSUME NEW s \in Seq(Event), NEW e \in Event
    PROVE  Latest(Append(s, e), e.node, e.status)
  <1> PICK t : t = Append(s, e)
    OBVIOUS
  <1>1. /\ DOMAIN t = 1..(Len(s) + 1) /\ Len(s) \in Nat /\ t[Len(s) + 1] = e
    BY AppendLast
  <1> QED  BY <1>1 DEF Latest

LEMMA AppendAgrees ==
    ASSUME NEW s \in Seq(Event), NEW e \in Event, NEW rec, NEW n, n # e.node,
           Agrees(s, rec, n)
    PROVE  Agrees(Append(s, e), rec, n)
  <1> PICK t : t = Append(s, e)
    OBVIOUS
  <1>1. /\ DOMAIN t = 1..(Len(s) + 1) /\ DOMAIN s = 1..Len(s) /\ Len(s) \in Nat
        /\ t[Len(s) + 1] = e /\ \A i \in 1..Len(s) : t[i] = s[i]
    BY AppendLast
  <1>2. Unlogged(s, n) => Unlogged(t, n)
    BY <1>1 DEF Unlogged
  <1>3. Latest(s, n, rec.status) => Latest(t, n, rec.status)
    BY <1>1 DEF Latest
  <1> QED  BY <1>2, <1>3 DEF Agrees

\* Replaying a log finds the status of a node's latest event.
LEMMA ReplayLatest ==
    ASSUME NEW s \in Seq(Event), NEW n, NEW status, Latest(s, n, status)
    PROVE  ReplayNode(s, n) = status
  <1>1. PICK i \in DOMAIN s : /\ s[i].node = n /\ s[i].status = status
                             /\ \A k \in DOMAIN s : k > i => s[k].node # n
    BY DEF Latest
  <1> DEFINE found == {j \in DOMAIN s : s[j].node = n}
             last == {s[j] : j \in {m \in found : \A k \in found : k <= m}}
  <1>2. {m \in found : \A k \in found : k <= m} = {i}
    <2>1. DOMAIN s = 1..Len(s) /\ Len(s) \in Nat
      OBVIOUS
    <2> QED  BY <1>1, <2>1
  <1>3. last = {s[i]}
    BY <1>2
  <1>4. ReplayNode(s, n) = IF last = {} THEN Nothing ELSE (CHOOSE e \in last : TRUE).status
    BY DEF ReplayNode, LastOf
  <1> HIDE DEF last
  <1> QED  BY <1>1, <1>3, <1>4

LEMMA ReplayUnlogged ==
    ASSUME NEW s, NEW n, Unlogged(s, n)
    PROVE  ReplayNode(s, n) = Nothing
  <1> DEFINE found == {j \in DOMAIN s : s[j].node = n}
             last == {s[j] : j \in {m \in found : \A k \in found : k <= m}}
  <1>1. last = {}
    BY DEF Unlogged
  <1>2. ReplayNode(s, n) = IF last = {} THEN Nothing ELSE (CHOOSE e \in last : TRUE).status
    BY DEF ReplayNode, LastOf
  <1> HIDE DEF last
  <1> QED  BY <1>1, <1>2

\* Replaying a log that ends with a verdict gives what the verdict's type says.
LEMMA ReplayVerdict ==
    ASSUME NEW s \in Seq(Event), VerdictLast(s)
    PROVE  ReplayRun(s) = EndedAs(Last(s))
  <1> DEFINE found == {j \in DOMAIN s : s[j].type \in {"run_completed", "run_failed"}}
             last == {s[j] : j \in {m \in found : \A k \in found : k <= m}}
             statuses == {ReplayNode(s, n) : n \in Node} \ {Nothing}
  <1>1. {m \in found : \A k \in found : k <= m} = {Len(s)}
    <2>1. s # << >> /\ Last(s).type \in {"run_completed", "run_failed"}
      BY DEF VerdictLast
    <2>2. /\ DOMAIN s = 1..Len(s) /\ Len(s) \in Nat /\ Len(s) \in DOMAIN s
          /\ s[Len(s)] = Last(s)
      BY <2>1, LastIsLast
    <2> QED  BY <2>1, <2>2
  <1>2. last = {Last(s)}
    BY <1>1, LastIsLast DEF VerdictLast
  <1>3. ReplayRun(s) = IF last # {}
                       THEN IF (CHOOSE e \in last : TRUE).type = "run_completed"
                            THEN "completed" ELSE "failed"
                       ELSE IF "failed" \in statuses THEN "failed"
                       ELSE IF statuses # {} /\ statuses \subseteq {"completed", "skipped"}
                            THEN "completed"
                       ELSE "running"
    BY DEF ReplayRun, LastOf
  <1> HIDE DEF last, statuses
  <1> QED  BY <1>2, <1>3 DEF EndedAs

-----------------------------------------------------------------------------
(* The execution log.                                                      *)

\* One more entry, and those of the nodes that follow it.
LEMMA OneEntry ==
    ASSUME NEW S, NEW entries \in Seq(S), NEW e \in S
    PROVE  LET t == Append(entries, e)
           IN /\ Len(t) = Len(entries) + 1 /\ t[Len(entries) + 1] = e
              /\ \A i \in 1..Len(entries) : t[i] = entries[i]
  OBVIOUS

\* What GiveUp appends after the node at position p.
LeftAfter(order, p, verdict) ==
    LET rest == SubSeq(order, p + 1, Len(order))
    IN [i \in DOMAIN rest |-> Left(rest[i], verdict)]

LEMMA LeftEntries ==
    ASSUME NEW order \in Seq(Node), NEW p \in 1..Len(order), NEW verdict \in Verdict
    PROVE  /\ LeftAfter(order, p, verdict) \in Seq(Entry)
           /\ Len(LeftAfter(order, p, verdict)) = Len(order) - p
           /\ \A i \in 1..(Len(order) - p) : LeftAfter(order, p, verdict)[i] = Left(order[p + i], verdict)
  <1> DEFINE rest == SubSeq(order, p + 1, Len(order))
             left == [i \in DOMAIN rest |-> Left(rest[i], verdict)]
  <1>1. Len(order) \in Nat /\ p \in Nat /\ p <= Len(order)
    OBVIOUS
  <1>2. /\ rest \in Seq(Node) /\ Len(rest) = Len(order) - p /\ DOMAIN rest = 1..(Len(order) - p)
        /\ \A i \in 1..(Len(order) - p) : rest[i] = order[p + i]
    BY <1>1
  <1> HIDE DEF rest
  <1>3. /\ left \in Seq(Entry) /\ Len(left) = Len(order) - p
        /\ \A i \in 1..(Len(order) - p) : left[i] = Left(order[p + i], verdict)
    <2>1. \A i \in 1..(Len(order) - p) : Left(rest[i], verdict) \in Entry
      BY <1>2 DEF Left, Entry, NodeStatus, Verdict
    <2> QED  BY <1>1, <1>2, <2>1
  <1> QED  BY <1>3 DEF LeftAfter, rest

LEMMA MoreEntries ==
    ASSUME NEW entries \in Seq(Entry), NEW e \in Entry, NEW rest \in Seq(Entry)
    PROVE  /\ Len(Append(entries, e) \o rest) = Len(entries) + 1 + Len(rest)
           /\ (Append(entries, e) \o rest)[Len(entries) + 1] = e
           /\ \A i \in 1..Len(entries) : (Append(entries, e) \o rest)[i] = entries[i]
           /\ \A i \in 1..Len(rest) :
                 (Append(entries, e) \o rest)[Len(entries) + 1 + i] = rest[i]
  OBVIOUS

\* The entries t of a run given up at position p: the old ones, e, and the rest left.
GivenUpAt(t, order, entries, e, p, verdict) ==
    /\ Len(t) = Len(order) /\ t[p] = e
    /\ \A i \in 1..Len(entries) : t[i] = entries[i]
    /\ \A i \in (p + 1)..Len(order) : t[i] = Left(order[i], verdict)

LEMMA RestLeft ==
    ASSUME NEW order \in Seq(Node), NEW entries \in Seq(Entry), NEW e \in Entry,
           NEW p \in 1..Len(order), Len(entries) = p - 1, NEW verdict \in Verdict,
           NEW t, t = Append(entries, e) \o LeftAfter(order, p, verdict)
    PROVE  GivenUpAt(t, order, entries, e, p, verdict)
  <1>1. PICK rest \in Seq(Entry) :
            /\ rest = LeftAfter(order, p, verdict) /\ Len(rest) = Len(order) - p
            /\ \A i \in 1..(Len(order) - p) : rest[i] = Left(order[p + i], verdict)
    BY LeftEntries
  <1>2. t = Append(entries, e) \o rest
    BY <1>1
  <1>3. /\ Len(t) = Len(entries) + 1 + Len(rest) /\ t[Len(entries) + 1] = e
        /\ \A i \in 1..Len(entries) : t[i] = entries[i]
        /\ \A i \in 1..Len(rest) : t[Len(entries) + 1 + i] = rest[i]
    <2>1. /\ Len(Append(entries, e) \o rest) = Len(entries) + 1 + Len(rest)
          /\ (Append(entries, e) \o rest)[Len(entries) + 1] = e
          /\ \A i \in 1..Len(entries) : (Append(entries, e) \o rest)[i] = entries[i]
          /\ \A i \in 1..Len(rest) : (Append(entries, e) \o rest)[Len(entries) + 1 + i] = rest[i]
      BY MoreEntries
    <2> QED  BY <1>2, <2>1
  <1>4. ASSUME NEW i \in (p + 1)..Len(order) PROVE t[i] = Left(order[i], verdict)
    <2>1. i - p \in 1..Len(rest) /\ p + (i - p) = i /\ Len(entries) + 1 + (i - p) = i
      BY <1>1
    <2>2. t[Len(entries) + 1 + (i - p)] = Left(order[p + (i - p)], verdict)
      BY <1>1, <1>3, <2>1
    <2> QED  BY <2>1, <2>2
  <1>5. Len(t) = Len(order) /\ Len(entries) + 1 = p
    BY <1>1, <1>3
  <1>6. t[p] = e /\ \A i \in 1..Len(entries) : t[i] = entries[i]
    BY <1>3, <1>5
  <1> QED  BY <1>4, <1>5, <1>6 DEF GivenUpAt

\* The whole record of a worker after Continue and GiveUp.
LEMMA ContinueMemory ==
    ASSUME TypeOK, NEW w \in Worker, NEW n, NEW output, Continue(w, n, output)
    PROVE  worker'[w].cache = worker[w].cache /\ worker'[w].input = output
  <1>1. worker[w] \in WorkerState /\ worker \in [Worker -> WorkerState]
    BY DEF TypeOK
  <1> QED  BY <1>1 DEF Continue, WorkerState

LEMMA GiveUpMemory ==
    ASSUME TypeOK, NEW w \in Worker, NEW n, NEW verdict, GiveUp(w, n, verdict)
    PROVE  /\ worker'[w].cache = worker[w].cache
           /\ worker'[w].entries = Append(worker[w].entries, Ended(n, worker[w].input, verdict))
                                   \o LeftAfter(Order, worker[w].position, verdict)
  <1> DEFINE entries == Append(worker[w].entries, Ended(n, worker[w].input, verdict))
                        \o LeftAfter(Order, worker[w].position, verdict)
  <1>1. worker[w] \in WorkerState /\ worker \in [Worker -> WorkerState]
    BY DEF TypeOK
  <1>2. worker' = [worker EXCEPT ![w] = [worker[w] EXCEPT
                     !.entries = entries, !.position = 1, !.status = verdict, !.pc = "start"]]
    BY DEF GiveUp, LeftAfter
  <1> HIDE DEF entries
  <1>3. worker'[w].cache = worker[w].cache /\ worker'[w].entries = entries
    BY <1>1, <1>2 DEF WorkerState
  <1> QED  BY <1>3 DEF entries

\* It resolves node n, and goes on or is done; or it gives up, and is done.
ResolvedNode(w, x, y, n) ==
    /\ \E output \in Value :
          /\ NodeFromCache(w) => \E hit \in Hits(w, n) : output = hit.output
          /\ NodeFromProvider(w) => output = x.input
          /\ y.entries[x.position] = Done(n, x.input, output)
          /\ y.input = output
    /\ Len(y.entries) = x.position
    /\ IF x.position = Len(Order)
       THEN y.pc = "start" ELSE y.pc = "execute" /\ y.position = x.position + 1
GaveUp(x, y, n) ==
    \E verdict \in Verdict :
        /\ y.entries[x.position] = Ended(n, x.input, verdict) /\ y.pc = "start"
        /\ Len(y.entries) = Len(Order)
        /\ \A i \in (x.position + 1)..Len(Order) : y.entries[i] = Left(Order[i], verdict)

\* The backend takes the next node: its entry, and those of the nodes after it
\* if it did not complete.
LEMMA NodeStep ==
    ASSUME DeploymentsAssumption, TypeOK, ProgressInv, OrderedInv, NEW w \in Worker,
           NodeFromCache(w) \/ NodeFromProvider(w),
           NEW x, NEW y, NEW n, x = worker[w], y = worker'[w], n = Order[x.position]
    PROVE  /\ x.pc = "execute" /\ x.run \in Run /\ y.run = x.run /\ y.cache = x.cache
           /\ x.position \in 1..Len(Order) /\ n \in Node
           /\ \A i \in 1..Len(x.entries) : y.entries[i] = x.entries[i]
           /\ Len(x.entries) = x.position - 1
           /\ y.entries[x.position].node = n
           /\ \A i \in 1..Len(x.entries) : x.entries[i].node = Order[i]
           /\ y.pc = "start" => y.status \in Verdict
           /\ ResolvedNode(w, x, y, n) \/ GaveUp(x, y, n)
  <1>1. /\ x \in WorkerState /\ x.pc = "execute" /\ x.run \in Run /\ ExecutedSoFar(x)
    BY DEF NodeFromCache, NodeFromProvider, Serving, TypeOK, ProgressInv, Progress
  <1>2. /\ x.entries \in Seq(Entry) /\ x.position \in Nat \ {0} /\ Len(x.entries) \in Nat
        /\ x.input \in Value /\ Order \in Seq(Node) /\ Len(Order) \in Nat
    BY <1>1, OrderType DEF TypeOK, WorkerState
  <1>3. /\ x.position \in 1..Len(Order) /\ Len(x.entries) = x.position - 1
        /\ \A i \in 1..Len(x.entries) : x.entries[i].node = Order[i]
    BY <1>1, <1>2 DEF ExecutedSoFar
  <1>4. n \in Node
    BY <1>2, <1>3
  <1>5. ASSUME NEW output \in Value, Continue(w, n, output)
        PROVE  /\ y.entries = Append(x.entries, Done(n, x.input, output)) /\ y.input = output
               /\ y.run = x.run /\ y.cache = x.cache
               /\ IF x.position = Len(Order)
                  THEN y.pc = "start" ELSE y.pc = "execute" /\ y.position = x.position + 1
               /\ y.pc = "start" => y.status \in Verdict
               /\ Len(y.entries) = x.position
               /\ y.entries[x.position] = Done(n, x.input, output)
               /\ y.entries[x.position].node = n
               /\ \A i \in 1..Len(x.entries) : y.entries[i] = x.entries[i]
    <2>1. /\ y.entries = Append(x.entries, Done(n, x.input, output))
          /\ y.run = x.run
          /\ IF x.position = Len(Order)
             THEN y.pc = "start" /\ y.status = "completed"
             ELSE y.pc = x.pc /\ y.position = x.position + 1
      BY <1>4, <1>5, ContinueStep
    <2>2. y.cache = x.cache /\ y.input = output
      BY <1>5, ContinueMemory
    <2>3. Done(n, x.input, output) \in Entry
      BY <1>2, <1>4 DEF Done, Entry, Logged, Value, NodeStatus, Verdict
    <2>4. Done(n, x.input, output).node = n
      BY DEF Done
    <2> PICK e, entries : e = Done(n, x.input, output) /\ entries = x.entries
      OBVIOUS
    <2>5. /\ Len(y.entries) = x.position /\ y.entries[x.position] = e
          /\ \A i \in 1..Len(x.entries) : y.entries[i] = x.entries[i]
      <3>1. /\ Len(Append(entries, e)) = Len(entries) + 1
            /\ Append(entries, e)[Len(entries) + 1] = e
            /\ \A i \in 1..Len(entries) : Append(entries, e)[i] = entries[i]
        BY <1>2, <2>3, OneEntry
      <3>2. y.entries = Append(entries, e) /\ Len(entries) + 1 = x.position
        BY <1>2, <1>3, <2>1
      <3> QED  BY <3>1, <3>2
    <2> QED  BY <1>1, <2>1, <2>2, <2>4, <2>5 DEF Verdict
  <1>6. ASSUME NEW verdict \in Verdict \ {"completed"}, GiveUp(w, n, verdict)
        PROVE  /\ y.run = x.run /\ y.cache = x.cache /\ y.pc = "start" /\ y.status = verdict
               /\ Len(y.entries) = Len(Order)
               /\ y.entries[x.position] = Ended(n, x.input, verdict)
               /\ y.entries[x.position].node = n
               /\ \A i \in 1..Len(x.entries) : y.entries[i] = x.entries[i]
               /\ \A i \in (x.position + 1)..Len(Order) : y.entries[i] = Left(Order[i], verdict)
    <2>1. y.run = x.run /\ y.pc = "start" /\ y.cache = x.cache /\ y.status = verdict
      BY <1>4, <1>6, GiveUpStep, GiveUpMemory
    <2>2. Ended(n, x.input, verdict) \in Entry /\ Ended(n, x.input, verdict).node = n
      BY <1>2, <1>4 DEF Ended, Entry, NodeStatus
    <2> PICK e : e = Ended(n, x.input, verdict)
      OBVIOUS
    <2>3. y.entries = Append(x.entries, e) \o LeftAfter(Order, x.position, verdict)
      BY <1>6, GiveUpMemory
    <2>4. Len(x.entries) < Len(Order) /\ x.position = Len(x.entries) + 1 /\ e \in Entry
      BY <1>2, <1>3, <2>2
    <2>5. PICK t : t = Append(x.entries, e) \o LeftAfter(Order, x.position, verdict)
      OBVIOUS
    <2>6. /\ Len(t) = Len(Order) /\ t[x.position] = e
          /\ \A i \in 1..Len(x.entries) : t[i] = x.entries[i]
          /\ \A i \in (x.position + 1)..Len(Order) : t[i] = Left(Order[i], verdict)
      <3>1. PICK order, entries, p, q :
                order = Order /\ entries = x.entries /\ p = x.position /\ q = e
        OBVIOUS
      <3>2. /\ order \in Seq(Node) /\ entries \in Seq(Entry) /\ q \in Entry
            /\ p \in 1..Len(order) /\ Len(entries) = p - 1
            /\ t = Append(entries, q) \o LeftAfter(order, p, verdict)
        BY <1>2, <1>3, <2>4, <2>5, <3>1
      <3>3. verdict \in Verdict
        OBVIOUS
      <3>4. GivenUpAt(t, order, entries, q, p, verdict)
        BY <3>2, <3>3, RestLeft
      <3> QED  BY <3>1, <3>4 DEF GivenUpAt
    <2>7. y.entries = t
      BY <2>3, <2>5
    <2> QED  BY <2>1, <2>2, <2>6, <2>7
  <1>7. \A c \in Hits(w, n) : c.output \in Value
    BY <1>1 DEF Hits, WorkerState, CacheEntry
  <1>8. CASE NodeFromCache(w)
    <2>1. PICK c \in Hits(w, n) : Continue(w, n, c.output)
      BY <1>8 DEF NodeFromCache
    <2>2. ~ NodeFromProvider(w)
      BY <2>1 DEF NodeFromProvider
    <2> PICK output \in Value : output = c.output
      BY <1>7
    <2>3. Continue(w, n, output)
      BY <2>1
    <2> QED  BY <1>1, <1>3, <1>4, <1>5, <2>1, <2>2, <2>3 DEF ResolvedNode
  <1>9. CASE NodeFromProvider(w)
    <2>1. ~ NodeFromCache(w)
      BY <1>9 DEF NodeFromProvider, NodeFromCache
    <2>2. Continue(w, n, x.input)
             \/ \E verdict \in Verdict \ {"completed"} : GiveUp(w, n, verdict)
      BY <1>9 DEF NodeFromProvider
    <2>3. CASE Continue(w, n, x.input)
      <3> PICK output \in Value : output = x.input
        BY <1>2
      <3>1. Continue(w, n, output)
        BY <2>3
      <3> QED  BY <1>1, <1>3, <1>4, <1>5, <2>1, <3>1 DEF ResolvedNode
    <2>4. CASE \E verdict \in Verdict \ {"completed"} : GiveUp(w, n, verdict)
      <3> PICK verdict \in Verdict \ {"completed"} : GiveUp(w, n, verdict)
        BY <2>4
      <3>1. /\ y.run = x.run /\ y.cache = x.cache /\ y.pc = "start" /\ y.status = verdict
            /\ y.entries[x.position].node = n
            /\ \A i \in 1..Len(x.entries) : y.entries[i] = x.entries[i]
            /\ Len(y.entries) = Len(Order)
            /\ y.entries[x.position] = Ended(n, x.input, verdict)
            /\ \A i \in (x.position + 1)..Len(Order) : y.entries[i] = Left(Order[i], verdict)
        BY <1>6
      <3>2. GaveUp(x, y, n)
        BY <3>1 DEF GaveUp
      <3> QED  BY <1>1, <1>3, <1>4, <3>1, <3>2
    <2> QED  BY <2>2, <2>3, <2>4
  <1> QED  BY <1>8, <1>9

\* Who executes, and when it is done.
LEMMA OrderedRecord ==
    ASSUME NEW x, NEW y, Ordered(x), y.entries = x.entries, y.status = x.status,
           x.pc \in Writing, y.pc \in Writing
    PROVE  Ordered(y)
  BY DEF Ordered, Writing

LEMMA OrderedStep ==
    ASSUME DeploymentsAssumption, NamesAssumption, TypeOK, ProgressInv, AnswerInv, OrderedInv,
           [Next]_vars
    PROVE  OrderedInv'
  <1>0. Order' = Order
    BY DeploymentFrame DEF Order
  <1> SUFFICES ASSUME NEW v \in Worker PROVE Ordered(worker'[v])
    BY <1>0 DEF OrderedInv, Ordered, Writing
  <1> PICK y : y = worker'[v]
    OBVIOUS
  <1> PICK x : x = worker[v]
    OBVIOUS
  <1>1. x \in WorkerState /\ Progress(x) /\ Ordered(x)
    BY DEF TypeOK, ProgressInv, OrderedInv
  <1>2. CASE UNCHANGED worker
    BY <1>1, <1>2
  <1>3. ASSUME NEW w \in Worker, Serve(w), w # v PROVE Ordered(y)
    BY <1>1, <1>3, WorkerFrame
  <1>4. ASSUME Serve(v) PROVE Ordered(y)
    <2>1. CASE WriteDown(v)
      <3>1. y.entries = x.entries /\ y.status = x.status /\ x.pc \in Writing /\ y.pc \in Writing
        <4> HIDE <1>4
        <4> QED  BY <2>1, WriteDownStep DEF Writing
      <3> QED  BY <1>1, <3>1, OrderedRecord
    <2>2. CASE NodeFromCache(v) \/ NodeFromProvider(v)
      <3>1. PICK n : n = Order[x.position]
        OBVIOUS
      <3>2. /\ x.position \in 1..Len(Order) /\ Len(x.entries) = x.position - 1
            /\ \A i \in 1..Len(x.entries) : y.entries[i] = x.entries[i]
            /\ \A i \in 1..Len(x.entries) : x.entries[i].node = Order[i]
            /\ y.entries[x.position].node = n
            /\ y.pc = "start" => y.status \in Verdict
            /\ ResolvedNode(v, x, y, n) \/ GaveUp(x, y, n)
        <4> HIDE <1>4
        <4> QED  BY <2>2, <3>1, NodeStep, SMTT(60)
      <3>3. Len(Order) \in Nat
        BY OrderType DEF TypeOK
      <3>4. \A m, verdict : Left(m, verdict).node = m
        BY DEF Left
      <3>5. /\ \/ y.pc = "start" /\ Len(y.entries) = Len(Order)
               \/ y.pc = "execute" /\ y.position = x.position + 1 /\ Len(y.entries) = x.position
            /\ \A i \in (x.position + 1)..Len(y.entries) :
                  \E verdict \in Verdict : y.entries[i] = Left(Order[i], verdict)
        <4>1. CASE ResolvedNode(v, x, y, n)
          BY <3>2, <3>3, <4>1 DEF ResolvedNode
        <4>2. CASE GaveUp(x, y, n)
          BY <3>2, <3>3, <4>2 DEF GaveUp
        <4> QED  BY <3>2, <4>1, <4>2
      <3>6. \A i \in 1..Len(y.entries) : y.entries[i].node = Order[i]
        <4> SUFFICES ASSUME NEW i \in 1..Len(y.entries) PROVE y.entries[i].node = Order[i]
          OBVIOUS
        <4>1. CASE i < x.position
          <5>1. i \in 1..Len(x.entries)
            BY <3>2, <3>3, <4>1
          <5> QED  BY <3>2, <5>1
        <4>2. CASE i = x.position
          BY <3>1, <3>2, <4>2
        <4>3. CASE i > x.position
          <5>1. i \in (x.position + 1)..Len(Order)
                /\ \E verdict \in Verdict : y.entries[i] = Left(Order[i], verdict)
            BY <3>2, <3>3, <3>5, <4>3
          <5> QED  BY <3>4, <5>1
        <4> QED  BY <3>2, <4>1, <4>2, <4>3
      <3> QED  BY <3>2, <3>3, <3>6, <3>5 DEF Ordered, Writing
    <2>3. CASE LoadCache(v)
      <3>1. x.pc = "load" /\ y = [x EXCEPT !.pc = "execute", !.cache = CachedResults(At(v))]
        BY <2>3 DEF LoadCache, Serving, TypeOK
      <3>2. y.pc = "execute" /\ y.position = 1 /\ y.entries = << >>
        BY <1>1, <3>1 DEF WorkerState, Progress
      <3> QED  BY <3>2 DEF Ordered, Writing
    <2>4. CASE ~ WriteDown(v) /\ ~ NodeFromCache(v) /\ ~ NodeFromProvider(v) /\ ~ LoadCache(v)
      <3>1. y = Idle \/ y.pc \in {"answer", "answered", "create", "load", "prune"}
        BY <1>4, <2>4, OtherStep
      <3> QED  BY <3>1 DEF Ordered, Writing, Idle
    <2> QED  BY <2>1, <2>2, <2>3, <2>4
  <1> QED  BY <1>2, <1>3, <1>4 DEF Next, vars, PostInteraction, Age

-----------------------------------------------------------------------------
(* The log and the records, one worker at a time.                          *)

\* A run whose files a step leaves alone.
LEMMA ToldKept ==
    ASSUME NEW r, Told(r), Order' = Order, runFile'[r] = runFile[r], nodeFile'[r] = nodeFile[r],
           log'[r] = log[r]
    PROVE  Told(r)'
  BY DEF Told, Exists

\* Removing runs.
LEMMA ToldRemoved ==
    ASSUME \A r \in Run : Told(r), Order' = Order, NEW runs, RemoveRuns(runs)
    PROVE  \A r \in Run : Told(r)'
  <1> SUFFICES ASSUME NEW r \in Run PROVE Told(r)'
    OBVIOUS
  <1>1. CASE r \in runs
    <2>1. log'[r] = << >>
      BY <1>1 DEF RemoveRuns
    <2> QED  BY <2>1 DEF Told, VerdictLast
  <1>2. CASE r \notin runs
    BY <1>2, ToldKept DEF RemoveRuns
  <1> QED  BY <1>1, <1>2

\* Appending an event of the process to a log.
LEMMA ToldAppend ==
    ASSUME TypeOK, NEW r \in Run, Told(r), Order' = Order, NEW event \in Event,
           AppendEvent(r, event), UNCHANGED <<runFile, nodeFile>>,
           event.node \in Range(Order) \cup {Nothing},
           event.type \in {"run_completed", "run_failed"} =>
               /\ Replayed(runFile[r].status) = EndedAs(event) /\ event.node \notin Node
               /\ \A n \in Node : Agrees(log[r], nodeFile[r][n], n)
    PROVE  /\ \A q \in Run : Told(q) => Told(q)'
           /\ VerdictLast(log'[r]) => event.type \in {"run_completed", "run_failed"}
  <1>1. /\ log'[r] = Append(log[r], event) /\ log[r] \in Seq(Event) /\ Exists(r)
        /\ \A q \in Run \ {r} : log'[q] = log[q]
    BY AppendType DEF TypeOK
  <1> PICK s \in Seq(Event) : s = log[r]
    BY <1>1
  <1> PICK t : t = Append(s, event)
    OBVIOUS
  <1>2. /\ t # << >> /\ Last(t) = event /\ DOMAIN t = 1..(Len(s) + 1) /\ DOMAIN s = 1..Len(s)
        /\ Len(s) \in Nat /\ t[Len(s) + 1] = event /\ \A i \in 1..Len(s) : t[i] = s[i]
    BY AppendLast
  <1>3. log'[r] = t
    BY <1>1
  <1>4. \A i \in DOMAIN t : t[i].node \in Range(Order) \cup {Nothing}
    <2>1. \A i \in DOMAIN s : s[i].node \in Range(Order) \cup {Nothing}
      BY DEF Told
    <2> QED  BY <1>2, <2>1
  <1>5. VerdictLast(t) => event.type \in {"run_completed", "run_failed"}
    BY <1>2 DEF VerdictLast
  <1>6. ASSUME event.type \in {"run_completed", "run_failed"}, NEW n \in Node
        PROVE  Agrees(t, nodeFile[r][n], n)
    BY <1>6, AppendAgrees
  <1>7. Told(r)'
    BY <1>1, <1>2, <1>3, <1>4, <1>5, <1>6 DEF Told, Exists
  <1>8. ASSUME NEW q \in Run \ {r}, Told(q) PROVE Told(q)'
    BY <1>1, <1>8, ToldKept
  <1> QED  BY <1>3, <1>5, <1>7, <1>8

\* What a worker at these labels has told: nothing.
LEMMA TellingNothing ==
    ASSUME NEW y, y.pc \in {"idle", "load", "execute", "start", "answer", "answered", "prune",
                            "audit"}
    PROVE  Telling(y)'
  BY DEF Telling, Writing

\* The steps that are not about the log or the records of a run.
LEMMA ToldMemory ==
    ASSUME DeploymentsAssumption, NamesAssumption, TypeOK, ProgressInv, AnswerInv,
           \A r \in Run : Told(r), Order' = Order, NEW w \in Worker, Serve(w), ~ WriteDown(w),
           NEW x, NEW y, x = worker[w], y = worker'[w], Telling(x)
    PROVE  Telling(y)' /\ \A r \in Run : Told(r)'
  <1>1. y.pc \in {"idle", "create", "load", "execute", "start", "answer", "answered", "prune"}
    BY NotWritingDown
  <1>2. CASE Trigger(w)
    <2>1. PICK r \in Run : /\ runFile[r].kind = "unused"
                          /\ runFile' = [runFile EXCEPT ![r] = NoFile("torn")]
                          /\ worker' = [worker EXCEPT ![w] = [Idle EXCEPT !.pc = "create", !.run = r]]
                          /\ UNCHANGED <<nodeFile, log>>
      BY <1>2, OrderType DEF Trigger, TypeOK
    <2>2. y.run = r /\ y.pc = "create" /\ log[r] = << >>
      BY <2>1 DEF Idle, TypeOK, Told, Exists
    <2>3. Telling(y)'
      BY <2>1, <2>2 DEF Telling, Writing
    <2>4. Told(r)'
      BY <2>1, <2>2 DEF Told, VerdictLast
    <2>5. \A q \in Run \ {r} : Told(q)'
      BY <2>1, ToldKept DEF TypeOK
    <2> QED  BY <2>3, <2>4, <2>5
  <1>3. CASE CreateRun(w)
    <2>1. x \in WorkerState /\ x.pc = "create" /\ x.run \in Run
      BY <1>3 DEF CreateRun, Serving, TypeOK, ProgressInv, Progress
    <2>2. log[x.run] = << >> /\ UNCHANGED <<nodeFile, log>>
      BY <1>3, <2>1 DEF Telling, CreateRun
    <2>3. y.pc = "load"
      <3>1. y = [x EXCEPT !.pc = "load"]
        BY <1>3, GotoType DEF CreateRun, Labels
      <3> QED  BY <2>1, <3>1 DEF WorkerState
    <2>4. Told(x.run)'
      BY <2>2 DEF Told, VerdictLast
    <2>5. \A q \in Run \ {x.run} : runFile'[q] = runFile[q]
      BY <1>3, <2>1 DEF CreateRun, TypeOK, At
    <2>6. \A q \in Run \ {x.run} : Told(q)'
      BY <2>2, <2>5, ToldKept
    <2> QED  BY <2>3, <2>4, <2>6, TellingNothing
  <1>4. CASE ApplyRetention(w) \/ PruneDelete(w)
    <2>1. PICK runs : RemoveRuns(runs)
      BY <1>4 DEF ApplyRetention, PruneDelete
    <2>2. y.pc = "idle"
      BY <1>4 DEF ApplyRetention, PruneDelete, TypeOK, Idle
    <2> QED  BY <2>1, <2>2, ToldRemoved, TellingNothing
  <1>5. CASE ~ Trigger(w) /\ ~ CreateRun(w) /\ ~ ApplyRetention(w) /\ ~ PruneDelete(w)
    <2>1. UNCHANGED <<runFile, nodeFile, log>>
      BY <1>5 DEF Serve, Execute, WriteDown, LoadCache, NodeFromCache, NodeFromProvider, Step, Stop,
                  Respond, SlackInteraction, OpenResponse, WriteResponse, StepAnswered, Cleanup,
                  PruneSelect
    <2>2. y.pc # "create"
      <3>1. CASE LoadCache(w)
        BY <3>1 DEF LoadCache, TypeOK, WorkerState
      <3>2. CASE NodeFromCache(w) \/ NodeFromProvider(w)
        <4>1. x.pc = "execute" /\ x.input \in Value /\ x \in WorkerState
          BY <3>2 DEF NodeFromCache, NodeFromProvider, Serving, TypeOK, WorkerState
        <4>2. Order[x.position] \in Node
          <5>1. x.position \in Nat \ {0} /\ x.position <= Len(Order)
            BY <4>1 DEF ProgressInv, Progress, ExecutedSoFar, WorkerState
          <5>2. x.position \in 1..Len(Order) /\ Order \in Seq(Node)
            BY <5>1, OrderType DEF TypeOK
          <5> QED  BY <5>2
        <4>3. PICK output \in Value :
                 \/ Continue(w, Order[x.position], output)
                 \/ \E verdict \in Verdict \ {"completed"} :
                       GiveUp(w, Order[x.position], verdict)
          BY <3>2, <4>1 DEF NodeFromCache, NodeFromProvider, Hits, WorkerState, CacheEntry
        <4>4. worker'[w].pc = "start" \/ worker'[w].pc = worker[w].pc
          BY <4>2, <4>3, ContinueStep, GiveUpStep
        <4> QED  BY <4>1, <4>4
      <3>3. CASE Step(w)
        BY <3>3 DEF Step, Stepping, TypeOK, Idle
      <3>4. CASE StepAnswered(w)
        BY <3>4 DEF StepAnswered, Stepping, TypeOK, Idle
      <3>5. CASE Stop(w)
        BY <3>5 DEF Stop, TypeOK, Idle
      <3>6. CASE Respond(w) \/ SlackInteraction(w)
        <4>1. PICK r \in Run, answer \in Answer : OpenResponse(w, r, answer)
          BY <3>6 DEF Respond, SlackInteraction, ActionToOutput, Answer
        <4>2. y = [Idle EXCEPT !.pc = "answer", !.run = r, !.answer = answer]
          BY <4>1 DEF OpenResponse, TypeOK
        <4> QED  BY <4>2 DEF Idle
      <3>7. CASE Cleanup(w)
        BY <3>7 DEF Cleanup, PruneSelect, TypeOK, Idle
      <3>8. CASE WriteResponse(w)
        <4>1. y = [x EXCEPT !.pc = "answered"] /\ x \in WorkerState
          BY <3>8, GotoType DEF WriteResponse, Labels, TypeOK
        <4> QED  BY <4>1 DEF WorkerState
      <3>9. \/ LoadCache(w) \/ NodeFromCache(w) \/ NodeFromProvider(w) \/ Step(w)
            \/ StepAnswered(w) \/ Stop(w) \/ Respond(w) \/ SlackInteraction(w) \/ Cleanup(w)
            \/ WriteResponse(w)
        BY <1>5 DEF Serve, Execute, WriteDown
      <3> QED  BY <3>1, <3>2, <3>3, <3>4, <3>5, <3>6, <3>7, <3>8, <3>9
    <2> QED  BY <1>1, <2>1, <2>2, TellingNothing, ToldKept
  <1> QED  BY <1>2, <1>3, <1>4, <1>5

\* The steps that write a run down.
LEMMA ToldWriting ==
    ASSUME DeploymentsAssumption, NamesAssumption, TypeOK, ProgressInv, LogIsAhead,
           \A q \in Run : Told(q), Order' = Order, NEW w \in Worker, WriteDown(w),
           NEW x, NEW y, x = worker[w], y = worker'[w], Telling(x), Ordered(x), Sole(x)
    PROVE  Telling(y)' /\ \A q \in Run : Told(q)'
  <1> PICK r : r = x.run
    OBVIOUS
  <1>1. /\ x \in WorkerState /\ Progress(x) /\ x.pc \in Writing /\ r \in Run /\ At(w) = r
        /\ y.run = r /\ y.entries = x.entries /\ y.status = x.status
    <2>1. x.pc \in Writing /\ y.run = x.run /\ y.entries = x.entries /\ y.status = x.status
      BY WriteDownStep DEF Writing
    <2> QED  BY <2>1 DEF TypeOK, ProgressInv, Progress, At, Writing
  <1>2. /\ x.entries \in Seq(Entry) /\ Len(x.entries) = Len(Order) /\ x.position \in Nat \ {0}
        /\ DOMAIN x.entries = 1..Len(Order) /\ Len(Order) \in Nat
        /\ \A i \in 1..Len(Order) :
              /\ x.entries[i] \in Entry /\ x.entries[i].node = Order[i]
              /\ Order[i] \in Range(Order) /\ Order[i] \in Node
    <2>1. /\ x.entries \in Seq(Entry) /\ Len(x.entries) = Len(Order) /\ x.position \in Nat \ {0}
          /\ \A i \in 1..Len(Order) : x.entries[i].node = Order[i]
      BY <1>1 DEF Ordered, WorkerState
    <2>2. /\ Len(Order) \in Nat /\ Order \in Seq(Node)
          /\ \A i \in 1..Len(Order) : Order[i] \in Range(Order)
      BY OrderType DEF TypeOK
    <2> QED  BY <2>1, <2>2
  <1>3. \A i, j \in 1..Len(Order) : Order[i] = Order[j] => i = j
    <2>1. IsInjective(Order) /\ Order \in Seq(Node)
      BY OrderType DEF DeploymentsAssumption, TypeOK, Order
    <2> QED  BY <2>1 DEF IsInjective
  <1>4. Nothing \notin Node
    BY DEF NamesAssumption, Nothing
  <1>5. Told(r) /\ ~ (x.pc \in Writing \ {"start", "audit"} /\ VerdictLast(log[r]))
    BY <1>1 DEF Telling
  <1> USE DEF Serving
  <1>6. CASE LogStarted(w)
    <2> PICK event : event = RunEvent("run_started", "running")
      OBVIOUS
    <2>1. event \in Event /\ event.node = Nothing /\ event.type = "run_started"
      BY EventType DEF RunEvent
    <2>2. AppendEvent(r, event) /\ UNCHANGED <<runFile, nodeFile>>
      BY <1>1, <1>6 DEF LogStarted
    <2>3. (\A q \in Run : Told(q)') /\ ~ VerdictLast(log'[r])
      BY <1>1, <1>5, <2>1, <2>2, ToldAppend
    <2>4. y.pc = "append" /\ y.position = 1
      <3>0. x.pc = "start"
        BY <1>6 DEF LogStarted
      <3>1. y.pc = "append" /\ y.position = x.position /\ x.pc = "start"
        BY <1>6, <3>0, WriteDownStep
      <3> QED  BY <1>1, <3>1 DEF Progress
    <2>5. Telling(y)'
      BY <1>1, <1>2, <2>3, <2>4 DEF Telling, Writing
    <2> QED  BY <2>3, <2>5
  <1>7. CASE LogEntry(w)
    <2> PICK p, e, event : p = x.position /\ e = x.entries[p] /\ event = NormalizeEvent(e)
      OBVIOUS
    <2>1. /\ x.pc = "append" /\ y.pc = "record" /\ y.position = p /\ p \in 1..Len(Order)
          /\ AppendEvent(r, event) /\ UNCHANGED <<runFile, nodeFile>>
      <3>0. x.pc = "append" /\ x.position <= Len(x.entries)
        BY <1>7 DEF LogEntry
      <3>1. x.pc = "append" /\ y.pc = "record" /\ y.position = x.position
            /\ x.position <= Len(x.entries)
        BY <1>2, <1>7, <3>0, WriteDownStep
      <3> QED  BY <1>1, <1>2, <1>7, <3>1 DEF LogEntry
    <2>2. /\ e \in Entry /\ event \in Event /\ event.type = "node_completed"
          /\ event.node = e.node /\ event.status = e.status /\ e.node = Order[p]
          /\ e.node \in Range(Order)
      BY <1>2, <2>1, EventType DEF NormalizeEvent
    <2>3. (\A q \in Run : Told(q)') /\ ~ VerdictLast(log'[r])
      BY <1>1, <1>5, <2>1, <2>2, ToldAppend
    <2>4. /\ log'[r] = Append(log[r], event) /\ log[r] \in Seq(Event)
      BY <1>1, <2>1, <2>2, AppendType DEF TypeOK
    <2>5. Latest(log'[r], e.node, e.status)
      BY <2>2, <2>4, AppendLatest
    <2>6. ASSUME NEW i \in 1..Len(Order), i < p
          PROVE  Agrees(log'[r], nodeFile'[r][x.entries[i].node], x.entries[i].node)
      <3>1. Agrees(log[r], nodeFile[r][x.entries[i].node], x.entries[i].node)
        BY <1>1, <1>2, <2>1, <2>6 DEF Telling, AgreesAt
      <3>2. x.entries[i].node # event.node
        BY <1>2, <1>3, <2>1, <2>2, <2>6
      <3> QED  BY <2>1, <2>2, <2>4, <3>1, <3>2, AppendAgrees
    <2>7. Telling(y)'
      BY <1>1, <1>2, <2>1, <2>3, <2>5, <2>6 DEF Telling, Writing, AgreesAt
    <2> QED  BY <2>3, <2>7
  <1>8. CASE SaveNodeRecord(w)
    <2> PICK p, e : p = x.position /\ e = x.entries[p]
      OBVIOUS
    <2>1. /\ x.pc = "record" /\ y.pc = "append" /\ y.position = p + 1 /\ p \in 1..Len(Order)
          /\ UNCHANGED <<runFile, log>>
      <3>0. x.pc = "record"
        BY <1>8 DEF SaveNodeRecord
      <3>1. x.pc = "record" /\ y.pc = "append" /\ y.position = x.position + 1
        BY <1>8, <3>0, WriteDownStep
      <3> QED  BY <1>1, <1>2, <1>8, <3>1 DEF SaveNodeRecord, Progress
    <2>2. /\ e \in Entry /\ e.node \in Node /\ e.status # Nothing
          /\ Latest(log[r], e.node, e.status) /\ ~ VerdictLast(log[r])
      BY <1>1, <1>2, <1>5, <2>1 DEF Telling, Entry, Nothing, Writing, NodeStatus, Verdict
    <2>3. /\ nodeFile'[r][e.node].status = e.status
          /\ \A n \in Node \ {e.node} : nodeFile'[r][n] = nodeFile[r][n]
          /\ \A q \in Run \ {r} : nodeFile'[q] = nodeFile[q]
      <3>1. nodeFile' = [nodeFile EXCEPT ![r][e.node] = Merged(nodeFile[r][e.node], e)]
        BY <1>1, <1>8 DEF SaveNodeRecord
      <3>2. Merged(nodeFile[r][e.node], e).status = e.status
        BY DEF Merged
      <3> QED  BY <1>1, <2>2, <3>1, <3>2 DEF TypeOK
    <2>4. ASSUME NEW i \in 1..Len(Order), i < p + 1
          PROVE  Agrees(log'[r], nodeFile'[r][x.entries[i].node], x.entries[i].node)
      <3>1. CASE i = p
        BY <2>1, <2>2, <2>3, <3>1 DEF Agrees
      <3>2. CASE i < p
        <4>1. Agrees(log[r], nodeFile[r][x.entries[i].node], x.entries[i].node)
          BY <1>1, <1>2, <2>1, <3>2 DEF Telling, AgreesAt
        <4>2. x.entries[i].node # e.node /\ x.entries[i].node \in Node
          BY <1>2, <1>3, <2>1, <3>2
        <4> QED  BY <2>1, <2>3, <4>1, <4>2
      <3> QED  BY <2>1, <2>4, <3>1, <3>2
    <2>5. Telling(y)'
      BY <1>1, <1>2, <2>1, <2>2, <2>4 DEF Telling, Writing, AgreesAt
    <2>6. Told(r)'
      BY <1>5, <2>1, <2>2 DEF Told, Exists
    <2>7. \A q \in Run \ {r} : Told(q)'
      BY <2>1, <2>3, ToldKept
    <2> QED  BY <2>5, <2>6, <2>7
  <1>9. CASE SaveArtifacts(w)
    <2>1. /\ x.pc = "append" /\ y.pc = "update" /\ x.position > Len(Order)
          /\ UNCHANGED <<runFile, nodeFile, log>>
      <3>0. x.pc = "append" /\ x.position > Len(x.entries)
        BY <1>9 DEF SaveArtifacts
      <3>1. x.pc = "append" /\ y.pc = "update" /\ x.position > Len(x.entries)
        BY <1>2, <1>9, <3>0, WriteDownStep
      <3> QED  BY <1>2, <1>9, <3>1 DEF SaveArtifacts
    <2>2. ASSUME NEW n \in Node PROVE Agrees(log[r], nodeFile[r][n], n)
      <3>1. CASE n \in Range(Order)
        <4>1. PICK i \in 1..Len(Order) : Order[i] = n
          <5>1. Order \in Seq(Node)
            BY OrderType DEF TypeOK
          <5> QED  BY <3>1, <5>1 DEF Range
        <4>2. i < x.position
          BY <1>2, <2>1, <4>1
        <4>3. Agrees(log[r], nodeFile[r][x.entries[i].node], x.entries[i].node)
          BY <1>1, <1>2, <2>1, <4>2 DEF Telling, AgreesAt
        <4> QED  BY <1>2, <4>1, <4>3
      <3>2. CASE n \notin Range(Order)
        <4>1. \A i \in DOMAIN log[r] : log[r][i].node # n
          BY <1>4, <1>5, <3>2 DEF Told
        <4>2. nodeFile[r][n].status = Nothing
          BY <1>1, <4>1 DEF LogIsAhead, Occurs
        <4> QED  BY <4>1, <4>2 DEF Agrees, Unlogged
      <3> QED  BY <3>1, <3>2
    <2>3. Telling(y)'
      BY <1>1, <1>5, <2>1, <2>2 DEF Telling, Writing
    <2> QED  BY <2>1, <2>3, ToldKept
  <1>10. CASE UpdateRead(w) \/ UpdateTruncate(w) \/ UpdateWrite(w)
    <2>1. /\ x.pc \in {"update", "truncate", "write"} /\ y.pc \in {"truncate", "write", "end"}
          /\ (y.pc = "end" => UpdateWrite(w)) /\ UNCHANGED <<nodeFile, log>>
      <3>1. x.pc \in {"update", "truncate", "write"}
        BY <1>10 DEF UpdateRead, UpdateTruncate, UpdateWrite
      <3>2. y.pc \in {"truncate", "write", "end"} /\ (y.pc = "end" => UpdateWrite(w))
        BY <3>1, WriteDownStep
      <3> QED
        BY <1>10, <3>1, <3>2 DEF UpdateRead, UpdateTruncate, UpdateWrite
    <2>2. \A q \in Run \ {r} : runFile'[q] = runFile[q]
      BY <1>1, <1>10 DEF UpdateRead, UpdateTruncate, UpdateWrite, TypeOK
    <2>3. ~ VerdictLast(log[r]) /\ \A n \in Node : Agrees(log[r], nodeFile[r][n], n)
      BY <1>1, <1>5, <2>1 DEF Telling, Writing
    <2>4. Exists(r) => Exists(r)'
      <3>1. CASE UpdateRead(w)
        BY <3>1 DEF UpdateRead, Exists
      <3>2. CASE UpdateTruncate(w)
        BY <1>1, <3>2 DEF UpdateTruncate, Exists, NoFile, TypeOK
      <3>3. CASE UpdateWrite(w)
        BY <1>1, <3>3 DEF UpdateWrite, Exists, TypeOK
      <3> QED  BY <1>10, <3>1, <3>2, <3>3
    <2>5. Told(r)'
      BY <1>5, <2>1, <2>3, <2>4 DEF Told
    <2>6. UpdateWrite(w) => runFile'[r].status = x.status
      <3>1. UpdateWrite(w) => x.pc = "write"
        BY DEF UpdateWrite
      <3>2. x.pc = "write" => Exists(r)
        BY <1>1 DEF Sole, Exists
      <3> QED  BY <1>1, <3>1, <3>2 DEF UpdateWrite, TypeOK
    <2>7. Telling(y)'
      BY <1>1, <2>1, <2>3, <2>6 DEF Telling, Writing
    <2>8. \A q \in Run \ {r} : Told(q)'
      BY <2>1, <2>2, ToldKept
    <2> QED  BY <2>5, <2>7, <2>8
  <1>11. CASE LogEnded(w)
    <2> PICK event : event = RunEvent(IF x.status = "completed" THEN "run_completed"
                                                               ELSE "run_failed", x.status)
      OBVIOUS
    <2>1. /\ event \in Event /\ event.node = Nothing
          /\ event.type = "run_completed" <=> x.status = "completed"
      BY <1>1, EventType DEF RunEvent, WorkerState
    <2>2. /\ x.pc = "end" /\ AppendEvent(r, event) /\ UNCHANGED <<runFile, nodeFile>>
      BY <1>1, <1>11 DEF LogEnded
    <2>3. /\ Replayed(runFile[r].status) = EndedAs(event)
          /\ \A n \in Node : Agrees(log[r], nodeFile[r][n], n)
      <3>1. runFile[r].status = x.status /\ x.status \in Verdict
        BY <1>1, <2>2 DEF Telling, Ordered, Writing
      <3> QED  BY <1>1, <2>1, <2>2, <3>1 DEF Telling, Replayed, EndedAs, Verdict
    <2>4. \A q \in Run : Told(q)'
      BY <1>1, <1>4, <1>5, <2>1, <2>2, <2>3, ToldAppend
    <2>5. y.pc = "audit"
      BY <2>2, WriteDownStep
    <2> QED  BY <2>4, <2>5, TellingNothing
  <1> QED  BY <1>6, <1>7, <1>8, <1>9, <1>10, <1>11 DEF WriteDown

LEMMA ToldStep ==
    ASSUME DeploymentsAssumption, NamesAssumption, TypeOK, ProgressInv, AnswerInv, LogIsAhead,
           SoleInv, OrderedInv, ToldInv, [Next]_vars
    PROVE  ToldInv'
  <1>0. UNCHANGED <<deployment, Order>>
    BY DeploymentFrame DEF Order
  <1> SUFFICES ASSUME Alone
               PROVE  /\ \A r \in Run : Told(r)'
                      /\ \A v \in Worker : Telling(worker[v])'
    BY <1>0 DEF ToldInv, Alone
  <1>1. /\ \A r \in Run : Told(r)
        /\ \A v \in Worker : Telling(worker[v]) /\ Ordered(worker[v]) /\ Sole(worker[v])
        /\ \A v \in Worker \ deployment.workers : worker[v].pc = "idle"
    BY DEF ToldInv, SoleInv, OrderedInv
  <1>2. ASSUME UNCHANGED <<runFile, nodeFile, log, worker>>
        PROVE  /\ \A r \in Run : Told(r)'
               /\ \A v \in Worker : Telling(worker[v])'
    BY <1>0, <1>1, <1>2, ToldKept DEF Telling, AgreesAt
  <1>3. ASSUME NEW w \in Worker, Serve(w)
        PROVE  /\ \A r \in Run : Told(r)'
               /\ \A v \in Worker : Telling(worker[v])'
    <2>1. deployment.workers = {w}
      <3>1. w \in deployment.workers
        BY <1>3 DEF Serve, Trigger, Step, Execute, CreateRun, LoadCache, NodeFromCache,
                    NodeFromProvider, LogStarted, LogEntry, SaveNodeRecord, SaveArtifacts, UpdateRead,
                    UpdateTruncate, UpdateWrite, LogEnded, ApplyRetention, Stop, Respond,
                    SlackInteraction, WriteResponse, StepAnswered, Cleanup, PruneDelete, Serving
      <3> QED  BY <3>1 DEF Alone
    <2>2. \A v \in Worker \ {w} : worker'[v] = worker[v] /\ worker[v].pc = "idle"
      BY <1>1, <1>3, <2>1, WorkerFrame
    <2> PICK x : x = worker[w]
      OBVIOUS
    <2> PICK y : y = worker'[w]
      OBVIOUS
    <2>3. Telling(y)' /\ \A r \in Run : Told(r)'
      <3>1. Telling(x) /\ Ordered(x) /\ Sole(x)
        BY <1>1
      <3>2. CASE WriteDown(w)
        BY <1>0, <1>1, <3>1, <3>2, ToldWriting
      <3>3. CASE ~ WriteDown(w)
        BY <1>0, <1>1, <1>3, <3>1, <3>3, ToldMemory
      <3> QED  BY <3>2, <3>3
    <2>4. ASSUME NEW v \in Worker PROVE Telling(worker[v])'
      <3>1. CASE v = w
        BY <2>3, <3>1 DEF Telling, AgreesAt
      <3>2. CASE v # w
        <4>1. worker'[v].pc = "idle"
          BY <2>2, <3>2
        <4> QED  BY <4>1 DEF Telling, Writing
      <3> QED  BY <3>1, <3>2
    <2> QED  BY <2>3, <2>4
  <1> QED  BY <1>2, <1>3 DEF Next, vars, PostInteraction, Age

\* What the invariant says of a run that is settled.
LEMMA ToldAgrees ==
    ASSUME TypeOK, ToldInv
    PROVE  ReplayAgrees
  <1> SUFFICES ASSUME Alone, NEW r \in Run, Settled(r)
               PROVE  /\ ReplayRun(log[r]) = Replayed(runFile[r].status)
                      /\ \A n \in Node : nodeFile[r][n].status = ReplayNode(log[r], n)
    BY DEF ReplayAgrees, ReplayCommand
  <1>1. VerdictLast(log[r]) /\ log[r] \in Seq(Event)
    BY DEF Settled, VerdictLast, TypeOK
  <1>2. /\ Replayed(runFile[r].status) = EndedAs(Last(log[r]))
        /\ \A n \in Node : Agrees(log[r], nodeFile[r][n], n)
    BY <1>1 DEF ToldInv, Told
  <1>3. ASSUME NEW n \in Node PROVE nodeFile[r][n].status = ReplayNode(log[r], n)
    BY <1>1, <1>2, ReplayLatest, ReplayUnlogged DEF Agrees
  <1> QED  BY <1>1, <1>2, <1>3, ReplayVerdict

-----------------------------------------------------------------------------
(* What a run that kept its input has seen.                                *)

LEMMA KnownMerged ==
    ASSUME NEW n, NEW rec, NEW entry, Known(n, rec), Known(n, entry)
    PROVE  Known(n, Merged(rec, entry))
  BY DEF Known, Merged

LEMMA KnownOldValues ==
    /\ \A n : Known(n, NoNodeFile)
    /\ \A n, verdict : Known(n, Left(n, verdict)) /\ Known(n, Ended(n, "clear", verdict))
    /\ Idle.cache = {} /\ Idle.entries = << >> /\ Idle.input = "clear" /\ Idle.run = Nothing
  BY DEF Known, KnownOutput, NoNodeFile, Left, Ended, Idle

\* A node's entry, if its input is the run's own and its output is a known one.
LEMMA KnownDone ==
    ASSUME deployment.masked \subseteq {Last(Order)}, NEW n, NEW output \in KnownOutput(n)
    PROVE  Known(n, Done(n, "clear", output))
  <1>1. n \in deployment.masked => n = Last(Order)
    OBVIOUS
  <1>2. Logged(n, output) \in KnownOutput(n)
    BY <1>1 DEF Logged, KnownOutput
  <1> QED  BY <1>2 DEF Done, Known

\* Provider calls are made by NodeFromProvider only, and none is taken back.
LEMMA CallsFrame ==
    ASSUME [Next]_vars
    PROVE  /\ calls \subseteq calls'
           /\ \A d \in calls' \ calls : \E w \in Worker :
                 /\ NodeFromProvider(w)
                 /\ d = [run |-> At(w), node |-> Order[worker[w].position],
                         input |-> worker[w].input,
                         repeated |-> \E hit \in worker[w].cache :
                                         hit.node = Order[worker[w].position]]
  <1>1. ASSUME NEW w \in Worker, Serve(w), ~ NodeFromProvider(w) PROVE UNCHANGED calls
    <2>1. CASE Execute(w)
      BY <1>1, <2>1 DEF Execute, CreateRun, LoadCache, NodeFromCache, LogStarted, LogEntry,
                        SaveNodeRecord, SaveArtifacts, UpdateRead, UpdateTruncate, UpdateWrite,
                        LogEnded, ApplyRetention
    <2>2. CASE ~ Execute(w)
      BY <1>1, <2>2 DEF Serve, Trigger, Step, Stop, Respond, SlackInteraction, OpenResponse,
                        WriteResponse, StepAnswered, Cleanup, PruneSelect, PruneDelete
    <2> QED  BY <2>1, <2>2
  <1>2. ASSUME NEW w \in Worker, NodeFromProvider(w)
        PROVE  calls' = calls \cup
                  {[run |-> At(w), node |-> Order[worker[w].position], input |-> worker[w].input,
                    repeated |-> \E hit \in worker[w].cache :
                                    hit.node = Order[worker[w].position]]}
    BY <1>2 DEF NodeFromProvider
  <1>3. CASE UNCHANGED calls
    BY <1>3
  <1>4. UNCHANGED calls \/ \E w \in Worker : NodeFromProvider(w)
    BY <1>1 DEF Next, vars, PostInteraction, Age
  <1> QED  BY <1>2, <1>3, <1>4

\* The node records of a run stay known.
LEMMA KnownFiles ==
    ASSUME TypeOK, ProgressInv, [Next]_vars, Order' = Order, NEW r \in Run, KnownRun(r),
           NEW n \in Node
    PROVE  Known(n, nodeFile'[r][n])
  <1>1. Known(n, nodeFile[r][n])
    BY DEF KnownRun
  <1>2. CASE nodeFile'[r] = nodeFile[r]
    BY <1>1, <1>2
  <1>3. ASSUME NEW runs, RemoveRuns(runs) PROVE Known(n, nodeFile'[r][n])
    BY <1>1, <1>3, KnownOldValues DEF RemoveRuns
  <1>4. ASSUME NEW w \in Worker, SaveNodeRecord(w) PROVE Known(n, nodeFile'[r][n])
    <2> PICK x, e : x = worker[w] /\ e = x.entries[x.position]
      OBVIOUS
    <2>1. x.run \in Run /\ x.position \in DOMAIN x.entries
      <3>1. x \in WorkerState /\ x.run \in Run /\ x.position <= Len(x.entries)
        BY <1>4 DEF SaveNodeRecord, Serving, TypeOK, ProgressInv, Progress
      <3> QED  BY <3>1 DEF WorkerState
    <2>2. nodeFile' = [nodeFile EXCEPT ![x.run][e.node] = Merged(nodeFile[x.run][e.node], e)]
      BY <1>4 DEF SaveNodeRecord, At
    <2>3. CASE x.run = r /\ e.node = n
      <3>1. nodeFile'[r][n] = Merged(nodeFile[r][n], e)
        BY <2>2, <2>3 DEF TypeOK
      <3>2. Known(n, e)
        BY <2>1, <2>3 DEF KnownRun, KnownTo, At
      <3> QED  BY <1>1, <3>1, <3>2, KnownMerged
    <2>4. CASE x.run # r \/ e.node # n
      <3>1. nodeFile'[r][n] = nodeFile[r][n]
        BY <2>2, <2>4 DEF TypeOK
      <3> QED  BY <1>1, <3>1
    <2> QED  BY <2>3, <2>4
  <1>5. ASSUME NEW w \in Worker, Serve(w), ~ SaveNodeRecord(w) PROVE Known(n, nodeFile'[r][n])
    <2>1. CASE ApplyRetention(w) \/ PruneDelete(w)
      BY <1>3, <2>1 DEF ApplyRetention, PruneDelete
    <2>2. CASE Execute(w) /\ ~ ApplyRetention(w)
      BY <1>2, <1>5, <2>2 DEF Execute, CreateRun, LoadCache, NodeFromCache, NodeFromProvider,
                              LogStarted, LogEntry, SaveArtifacts, UpdateRead, UpdateTruncate,
                              UpdateWrite, LogEnded
    <2>3. CASE ~ Execute(w) /\ ~ PruneDelete(w)
      BY <1>2, <1>5, <2>3 DEF Serve, Trigger, Step, Stop, Respond, SlackInteraction, OpenResponse,
                              WriteResponse, StepAnswered, Cleanup, PruneSelect
    <2> QED  BY <2>1, <2>2, <2>3
  <1> QED  BY <1>2, <1>4, <1>5 DEF Next, vars, PostInteraction, Age

\* What the writing of a run leaves in memory.
LEMMA WriteDownCache ==
    ASSUME TypeOK, NEW w \in Worker, WriteDown(w)
    PROVE  worker'[w].cache = worker[w].cache
  <1>1. worker[w] \in WorkerState /\ worker \in [Worker -> WorkerState]
    BY DEF TypeOK
  <1>2. CASE SaveNodeRecord(w)
    <2>1. worker' = [worker EXCEPT ![w] = [worker[w] EXCEPT !.pc = "append", !.position = @ + 1]]
      BY <1>2 DEF SaveNodeRecord
    <2> QED  BY <1>1, <2>1 DEF WorkerState
  <1>3. CASE UpdateRead(w)
    <2>1. worker' = [worker EXCEPT ![w] = [worker[w] EXCEPT !.pc = "truncate",
                                                          !.whole = runFile[At(w)].whole]]
      BY <1>3 DEF UpdateRead
    <2> QED  BY <1>1, <2>1 DEF WorkerState
  <1>4. CASE ~ SaveNodeRecord(w) /\ ~ UpdateRead(w)
    <2>1. PICK label : Goto(w, label)
      BY <1>4 DEF WriteDown, LogStarted, LogEntry, SaveArtifacts, UpdateTruncate, UpdateWrite,
                  LogEnded
    <2>2. worker' = [worker EXCEPT ![w] = [worker[w] EXCEPT !.pc = label]]
      BY <2>1 DEF Goto
    <2> QED  BY <1>1, <2>2 DEF WorkerState
  <1> QED  BY <1>2, <1>3, <1>4

\* Executing a node of the run: its input was the run's own.
LEMMA KnownInput ==
    ASSUME DeploymentsAssumption, TypeOK, ProgressInv, OrderedInv, NEW w \in Worker,
           NodeFromCache(w) \/ NodeFromProvider(w), NEW x, x = worker[w], KnownTo(x),
           NodeFromProvider(w) => x.input # "empty"
    PROVE  /\ x.input = "clear"
           /\ NodeFromProvider(w) => ~ \E hit \in x.cache : hit.node = Order[x.position]
  <1>1. x \in WorkerState /\ x.pc = "execute"
    BY DEF NodeFromCache, NodeFromProvider, Serving, TypeOK
  <1>2. \A hit \in x.cache : hit.input = "clear"
    BY <1>1 DEF KnownTo, Known, WorkerState, CacheEntry, Value, Nothing
  <1>3. x.input = "clear"
    <2>1. x.input \in {"clear", "empty"}
      BY <1>1 DEF KnownTo
    <2>2. NodeFromCache(w) => \E hit \in x.cache : hit.input = x.input
      BY DEF NodeFromCache, Hits
    <2> QED  BY <1>2, <2>1, <2>2
  <1>4. NodeFromProvider(w) => Hits(w, Order[x.position]) = {}
    BY DEF NodeFromProvider
  <1> QED  BY <1>2, <1>3, <1>4 DEF Hits

LEMMA KnownNode ==
    ASSUME DeploymentsAssumption, TypeOK, ProgressInv, OrderedInv,
           deployment.masked \subseteq {Last(Order)}, NEW w \in Worker,
           NodeFromCache(w) \/ NodeFromProvider(w),
           NEW x, NEW y, x = worker[w], y = worker'[w], KnownTo(x),
           NodeFromProvider(w) => x.input # "empty"
    PROVE  KnownTo(y)
  <1>1. PICK n : n = Order[x.position]
    OBVIOUS
  <1>2. x.input = "clear"
    BY KnownInput
  <1>3. /\ y.cache = x.cache /\ x.position \in 1..Len(Order) /\ n \in Node
        /\ Len(x.entries) = x.position - 1
        /\ \A i \in 1..Len(x.entries) : y.entries[i] = x.entries[i]
        /\ y.entries[x.position].node = n
        /\ ResolvedNode(w, x, y, n) \/ GaveUp(x, y, n)
    BY <1>1, NodeStep, SMTT(60)
  <1>4. /\ x \in WorkerState /\ y \in WorkerState /\ Len(Order) \in Nat /\ Order \in Seq(Node)
        /\ Len(y.entries) \in Nat /\ DOMAIN y.entries = 1..Len(y.entries)
        /\ DOMAIN x.entries = 1..Len(x.entries)
    <2>1. y \in WorkerState
      <3>1. TypeOK'
        BY TypeStep DEF Next, Serve, Execute
      <3> QED  BY <3>1 DEF TypeOK
    <2> QED  BY <2>1, OrderType DEF TypeOK, WorkerState
  <1>5. \A i \in 1..Len(x.entries) : Known(y.entries[i].node, y.entries[i])
    BY <1>3, <1>4 DEF KnownTo
  <1>6. ASSUME NEW verdict \in Verdict,
               y.entries[x.position] = Ended(n, x.input, verdict), y.pc = "start",
               Len(y.entries) = Len(Order),
               \A i \in (x.position + 1)..Len(Order) : y.entries[i] = Left(Order[i], verdict)
        PROVE  KnownTo(y)
    <2>1. Known(y.entries[x.position].node, y.entries[x.position])
      BY <1>2, <1>3, <1>6, KnownOldValues
    <2>2. ASSUME NEW i \in (x.position + 1)..Len(Order)
          PROVE  Known(y.entries[i].node, y.entries[i])
      <3>1. y.entries[i] = Left(Order[i], verdict) /\ Left(Order[i], verdict).node = Order[i]
        BY <1>6 DEF Left
      <3> QED  BY <3>1, KnownOldValues
    <2>3. ASSUME NEW i \in DOMAIN y.entries PROVE Known(y.entries[i].node, y.entries[i])
      <3>1. i \in 1..Len(x.entries) \/ i = x.position \/ i \in (x.position + 1)..Len(Order)
        BY <1>3, <1>4, <1>6
      <3> QED  BY <1>5, <2>1, <2>2, <3>1
    <2> QED  BY <1>3, <1>6, <2>3 DEF KnownTo
  <1>7. ASSUME NEW output \in Value,
               NodeFromCache(w) => \E hit \in Hits(w, n) : output = hit.output,
               NodeFromProvider(w) => output = x.input,
               y.entries[x.position] = Done(n, x.input, output), y.input = output,
               Len(y.entries) = x.position,
               IF x.position = Len(Order)
               THEN y.pc = "start" ELSE y.pc = "execute" /\ y.position = x.position + 1
        PROVE  KnownTo(y)
    <2>1. output \in KnownOutput(n)
      <3>1. \A hit \in Hits(w, n) : hit.node = n /\ hit.output \in KnownOutput(n)
        BY DEF Hits, KnownTo, Known
      <3> QED  BY <1>2, <1>7, <3>1 DEF KnownOutput
    <2>2. Known(n, Done(n, "clear", output)) /\ Done(n, "clear", output).node = n
      BY <2>1, KnownDone DEF Done
    <2>3. ASSUME NEW i \in DOMAIN y.entries PROVE Known(y.entries[i].node, y.entries[i])
      <3>1. i \in 1..Len(x.entries) \/ i = x.position
        BY <1>3, <1>4, <1>7
      <3> QED  BY <1>2, <1>5, <1>7, <2>2, <3>1
    <2>4. ASSUME x.position # Len(Order) PROVE output = "clear"
      <3>1. IsInjective(Order) /\ Order # << >>
        BY DEF DeploymentsAssumption, TypeOK, Order
      <3>2. Last(Order) = Order[Len(Order)] /\ Len(Order) \in 1..Len(Order)
        BY <1>4, <3>1, LastIsLast
      <3>3. n # Last(Order)
        BY <1>1, <1>3, <1>4, <2>4, <3>1, <3>2 DEF IsInjective
      <3>4. output \in Value \ {Nothing}
        BY <1>7 DEF Value, Nothing
      <3> QED  BY <2>1, <3>3, <3>4 DEF KnownOutput
    <2> QED  BY <1>3, <1>7, <2>3, <2>4 DEF KnownTo
  <1> QED  BY <1>3, <1>6, <1>7 DEF ResolvedNode, GaveUp

\* What a step of a worker leaves it of a run that is clean.
LEMMA KnownMemory ==
    ASSUME DeploymentsAssumption, NamesAssumption, TypeOK, ProgressInv, AnswerInv, OrderedInv,
           deployment.masked \subseteq {Last(Order)}, NEW w \in Worker, Serve(w),
           NEW x, NEW y, x = worker[w], y = worker'[w], NEW r \in Run, y.run = r,
           \A n \in Node : Known(n, nodeFile[r][n]),
           x.run = r => KnownTo(x),
           NodeFromProvider(w) => x.input # "empty"
    PROVE  KnownTo(y)
  <1>1. x \in WorkerState /\ Progress(x) /\ r # Nothing
    BY DEF TypeOK, ProgressInv, NamesAssumption, Nothing
  <1>2. CASE WriteDown(w)
    <2>1. /\ y.run = x.run /\ y.entries = x.entries /\ y.pc \in Writing
      BY <1>2, WriteDownStep DEF Writing
    <2>2. y.cache = x.cache
      BY <1>2, WriteDownCache
    <2> QED  BY <2>1, <2>2 DEF KnownTo, Writing
  <1>3. CASE NodeFromCache(w) \/ NodeFromProvider(w)
    <2>1. x.run = r
      <3>1. PICK n : n = Order[x.position]
        OBVIOUS
      <3>2. y.run = x.run
        BY <1>3, <3>1, NodeStep, SMTT(60)
      <3> QED  BY <3>2
    <2> QED  BY <1>3, <2>1, KnownNode
  <1>4. CASE LoadCache(w)
    <2>1. /\ x.pc = "load" /\ At(w) = x.run
          /\ y = [x EXCEPT !.pc = "execute", !.cache = CachedResults(x.run)]
      BY <1>4 DEF LoadCache, Serving, TypeOK, At
    <2>2. /\ y.run = x.run /\ y.pc = "execute" /\ y.cache = CachedResults(x.run)
          /\ y.entries = << >> /\ y.position = 1 /\ y.input = x.input
      BY <1>1, <2>1 DEF WorkerState, Progress
    <2>3. x.input \in {"clear", "empty"}
      BY <2>1, <2>2 DEF KnownTo
    <2>4. \A hit \in CachedResults(r) : Known(hit.node, hit)
      BY DEF CachedResults, Known
    <2> QED  BY <2>2, <2>3, <2>4 DEF KnownTo
  <1>5. CASE CreateRun(w)
    <2>1. x.pc = "create" /\ y = [x EXCEPT !.pc = "load"]
      BY <1>5, GotoType DEF CreateRun, Serving, Labels
    <2>2. /\ y.run = x.run /\ y.pc = "load" /\ y.cache = x.cache /\ y.entries = x.entries
          /\ y.input = x.input
      BY <1>1, <2>1 DEF WorkerState
    <2> QED  BY <2>1, <2>2 DEF KnownTo
  <1>6. ASSUME y.cache = {}, y.entries = << >>, y.pc # "execute",
               y.input \in {"clear", "empty"}, y.pc = "create" => y.input = "clear"
        PROVE  KnownTo(y)
    BY <1>6 DEF KnownTo
  <1>7. CASE Trigger(w)
    <2>1. PICK q \in Run : worker' = [worker EXCEPT ![w] = [Idle EXCEPT !.pc = "create", !.run = q]]
      BY <1>7, OrderType DEF Trigger, TypeOK
    <2> QED  BY <1>6, <2>1 DEF Idle, TypeOK
  <1>8. ASSUME NEW q, y = Stepping(q) PROVE KnownTo(y)
    BY <1>6, <1>8 DEF Stepping, Idle
  <1>9. CASE Step(w) \/ StepAnswered(w)
    <2>1. \E q : y = Stepping(q) \/ y = Idle
      BY <1>9 DEF Step, StepAnswered, TypeOK
    <2> QED  BY <1>1, <1>8, <2>1 DEF Idle
  <1>10. CASE Respond(w) \/ SlackInteraction(w)
    <2>1. PICK q \in Run, answer \in Answer : OpenResponse(w, q, answer)
      BY <1>10 DEF Respond, SlackInteraction, ActionToOutput, Answer
    <2>2. y = [Idle EXCEPT !.pc = "answer", !.run = q, !.answer = answer]
      BY <2>1 DEF OpenResponse, TypeOK
    <2> QED  BY <1>6, <2>2 DEF Idle
  <1>11. CASE Cleanup(w)
    <2>1. PICK statuses, olderThan : PruneSelect(w, statuses, olderThan)
      BY <1>11 DEF Cleanup
    <2>2. y = [Idle EXCEPT !.pc = "prune", !.matched = Matched(statuses, olderThan)]
      BY <2>1 DEF PruneSelect, TypeOK
    <2> QED  BY <1>1, <2>2 DEF Idle
  <1>12. CASE ApplyRetention(w) \/ Stop(w) \/ PruneDelete(w)
    <2>1. y = Idle
      BY <1>12 DEF ApplyRetention, Stop, PruneDelete, TypeOK
    <2> QED  BY <1>1, <2>1 DEF Idle
  <1>13. CASE WriteResponse(w)
    <2>1. x.pc = "answer" /\ y = [x EXCEPT !.pc = "answered"]
      BY <1>13, GotoType DEF WriteResponse, Serving, Labels
    <2>2. /\ y.run = x.run /\ y.pc = "answered" /\ y.cache = x.cache /\ y.entries = x.entries
      BY <1>1, <2>1 DEF WorkerState
    <2> QED  BY <2>2 DEF KnownTo
  <1>14. \/ WriteDown(w) \/ NodeFromCache(w) \/ NodeFromProvider(w) \/ LoadCache(w)
         \/ CreateRun(w) \/ Trigger(w) \/ Step(w) \/ StepAnswered(w) \/ Respond(w)
         \/ SlackInteraction(w) \/ Cleanup(w) \/ ApplyRetention(w) \/ Stop(w) \/ PruneDelete(w)
         \/ WriteResponse(w)
    BY DEF Serve, Execute, WriteDown
  <1> QED
    BY <1>2, <1>3, <1>4, <1>5, <1>7, <1>9, <1>10, <1>11, <1>12, <1>13, <1>14

LEMMA KnownStep ==
    ASSUME DeploymentsAssumption, NamesAssumption, TypeOK, ProgressInv, AnswerInv, OrderedInv,
           KnownInv, [Next]_vars
    PROVE  KnownInv'
  <1>0. UNCHANGED <<deployment, Order>>
    BY DeploymentFrame DEF Order
  <1> SUFFICES ASSUME deployment.masked \subseteq {Last(Order)}, NEW r \in Run, Clean(r)'
               PROVE  KnownRun(r)'
    BY <1>0 DEF KnownInv
  <1>1. Clean(r) /\ KnownRun(r)
    <2>1. Clean(r)
      BY CallsFrame DEF Clean
    <2> QED  BY <2>1 DEF KnownInv
  <1>2. ASSUME NEW w \in Worker, At(w) = r, NodeFromProvider(w)
        PROVE  /\ worker[w].input = "clear"
               /\ ~ \E hit \in worker[w].cache : hit.node = Order[worker[w].position]
    <2> PICK x : x = worker[w]
      OBVIOUS
    <2>1. [run |-> At(w), node |-> Order[x.position], input |-> x.input,
           repeated |-> \E hit \in x.cache : hit.node = Order[x.position]] \in calls'
      BY <1>2 DEF NodeFromProvider
    <2>2. x.input # "empty"
      BY <1>2, <2>1 DEF Clean
    <2>3. KnownTo(x)
      BY <1>1, <1>2 DEF KnownRun
    <2> QED  BY <1>2, <2>2, <2>3, KnownInput
  <1>3. ASSUME NEW d \in calls', d.run = r PROVE d.input = "clear" /\ ~ d.repeated
    <2>1. CASE d \in calls
      BY <1>1, <1>3, <2>1 DEF KnownRun
    <2>2. CASE d \notin calls
      <3>1. PICK w \in Worker :
               /\ NodeFromProvider(w)
               /\ d = [run |-> At(w), node |-> Order[worker[w].position],
                       input |-> worker[w].input,
                       repeated |-> \E hit \in worker[w].cache :
                                       hit.node = Order[worker[w].position]]
        BY <2>2, CallsFrame
      <3>2. At(w) = r
        BY <1>3, <3>1
      <3> QED  BY <1>2, <3>1, <3>2
    <2> QED  BY <2>1, <2>2
  <1>4. \A n \in Node : Known(n, nodeFile'[r][n])
    BY <1>0, <1>1, KnownFiles
  <1>5. ASSUME NEW v \in Worker, worker'[v].run = r PROVE KnownTo(worker'[v])
    <2> PICK x, y : x = worker[v] /\ y = worker'[v]
      OBVIOUS
    <2>1. x.run = r => KnownTo(x)
      BY <1>1 DEF KnownRun, At
    <2>2. CASE y = x
      BY <1>5, <2>1, <2>2
    <2>3. CASE Serve(v)
      <3>1. NodeFromProvider(v) => x.input # "empty"
        <4>1. ASSUME NodeFromProvider(v) PROVE At(v) = r
          <5>1. PICK n : n = Order[x.position]
            OBVIOUS
          <5>2. y.run = x.run
            BY <4>1, <5>1, NodeStep, SMTT(60)
          <5> QED  BY <1>5, <5>2 DEF At
        <4> QED  BY <1>2, <4>1
      <3>2. \A n \in Node : Known(n, nodeFile[r][n])
        BY <1>1 DEF KnownRun
      <3> QED  BY <1>5, <2>1, <2>3, <3>1, <3>2, KnownMemory
    <2>4. y = x \/ Serve(v)
      BY WorkerFrame DEF Next, vars, PostInteraction, Age
    <2> QED  BY <2>2, <2>3, <2>4
  <1>6. \A n, rec : Known(n, rec)' <=> Known(n, rec)
    BY <1>0 DEF Known, KnownOutput
  <1>7. \A x : KnownTo(x)' <=> KnownTo(x)
    BY <1>6 DEF KnownTo
  <1> QED  BY <1>3, <1>4, <1>5, <1>6, <1>7 DEF KnownRun, At

-----------------------------------------------------------------------------
(* The theorems.                                                           *)

ReplayIInv == EngineIInv /\ OrderedInv /\ ToldInv /\ KnownInv

LEMMA ReplayInit ==
    ASSUME DeploymentsAssumption, NamesAssumption, Init
    PROVE  OrderedInv /\ ToldInv /\ KnownInv
  <1>1. /\ calls = {}
        /\ \A w \in Worker : worker[w] = Idle
        /\ \A r \in Run : /\ log[r] = << >> /\ runFile[r].kind = "unused"
                         /\ \A n \in Node : nodeFile[r][n] = NoNodeFile
    BY DEF Init, NoFile
  <1>2. OrderedInv
    BY <1>1 DEF OrderedInv, Ordered, Idle, Writing
  <1>3. ToldInv
    <2>1. ASSUME NEW r \in Run PROVE Told(r)
      BY <1>1, <2>1 DEF Told, VerdictLast
    <2>2. ASSUME NEW w \in Worker PROVE Telling(worker[w])
      BY <1>1, <2>2 DEF Telling, Idle, Writing
    <2> QED  BY <2>1, <2>2 DEF ToldInv
  <1>4. ASSUME NEW r \in Run PROVE KnownRun(r)
    <2>1. \A n \in Node : Known(n, nodeFile[r][n])
      BY <1>1, <1>4 DEF Known, KnownOutput, NoNodeFile
    <2>2. \A w \in Worker : KnownTo(worker[w])
      BY <1>1 DEF KnownTo, Idle
    <2> QED  BY <1>1, <2>1, <2>2 DEF KnownRun
  <1> QED  BY <1>2, <1>3, <1>4 DEF KnownInv

\* The inductive invariant of replay holds: between two steps of a single worker the log,
\* the records and what the worker has yet to write agree node by node, and whatever was
\* computed from a run's own input can be found again under that input.
THEOREM ReplayInvariant == Spec => []ReplayIInv
  <1>1. Init => OrderedInv /\ ToldInv /\ KnownInv
    BY ReplayInit, DeploymentsAssumption, NamesAssumption
  <1>2. EngineIInv /\ OrderedInv /\ ToldInv /\ KnownInv /\ [Next]_vars
           => (OrderedInv /\ ToldInv /\ KnownInv)'
    BY OrderedStep, ToldStep, KnownStep, DeploymentsAssumption, NamesAssumption
    DEF EngineIInv
  <1> QED  BY <1>1, <1>2, EngineInvariant, PTL DEF Spec, ReplayIInv

\* When the executions of a run come one after the other, what `bpg replay` reads off the
\* event log (replay_state_from_events) is what the run's records say, but that a cancelled
\* run is read as failed, for every process and every history of failures, cancellations,
\* cut-off executions, retries and prunings.
THEOREM ReplayAgreesCorrect == Spec => []ReplayAgrees
  <1>1. ReplayIInv => ReplayAgrees
    BY ToldAgrees DEF ReplayIInv, EngineIInv
  <1> QED  BY <1>1, ReplayInvariant, PTL

\* Unless a redacted node has successors, a run whose executions all saw its input never
\* calls a provider with another key than before, nor that of a node it found completed.
THEOREM ReplaySkipsCompletedCorrect == Spec => []ReplaySkipsCompleted
  <1>1. ASSUME TypeOK, KnownInv PROVE ReplaySkipsCompleted
    <2> SUFFICES ASSUME deployment.masked \subseteq {Last(Order)},
                        NEW c \in calls, \A b \in calls : b.run = c.run => b.input # "empty",
                        NEW d \in calls, c.run = d.run
                 PROVE  c.input = d.input /\ ~ c.repeated
      BY DEF ReplaySkipsCompleted
    <2>1. c.run \in Run
      BY <1>1 DEF TypeOK, Call
    <2>2. KnownRun(c.run)
      BY <1>1, <2>1 DEF KnownInv, Clean
    <2> QED  BY <2>2 DEF KnownRun
  <1>2. ReplayIInv => ReplaySkipsCompleted
    BY <1>1 DEF ReplayIInv, EngineIInv
  <1> QED  BY <1>2, ReplayInvariant, PTL

=============================================================================
