--------------------------- MODULE ProviderChecks ---------------------------
(***************************************************************************)
(* What the providers promise the runtime, over small inputs, configs and  *)
(* replies.  TLC evaluates the assumptions.                                *)
(***************************************************************************)
LOCAL INSTANCE Providers
LOCAL INSTANCE FiniteSets

host == [dry_run |-> FALSE, key |-> Name("key"), now |-> 0, endpoint |-> Null,
         api_key |-> TRUE, keyed |-> TRUE, smtp_from |-> Null, smtp_host |-> Name("host"),
         smtp_port |-> Num(25), markdown_root |-> Null,
         csv |-> (Name("f") :> <<[review |-> Name("x")], [review |-> Name("y")]>>),
         disk |-> (Name(".") :> <<[path |-> Name("p"), text |-> Text(<<1>>), regular |-> TRUE],
                                  [path |-> Name("q"), text |-> Null, regular |-> FALSE]>>)]

sample == {Null, Num(2), Num(-1), Str(0), Name("true"), Address(1), Flag(FALSE),
           List(<<Num(1), Dict(<< >>)>>), Dict(<< >>), Text(<<Num(3), Str(1)>>)}
Partial(fields) == UNION {[D -> sample] : D \in SUBSET fields}
UpTo(S, n) == UNION {[1..k -> S] : k \in 0..n}

(***************************************************************************)
(* The providers MUST raise a ProviderError instead of another exception   *)
(* (src/src/bpg/providers/base.py, ProviderError).  These do, whatever     *)
(* they are given.                                                         *)
(***************************************************************************)
resolved ==
    {AgentPipeline(i, c) : i \in Partial({"severity", "labels"}), c \in Partial({"mock_output"})}
    \cup {DashboardForm(i, c) : i \in Partial({"x"}), c \in Partial({"defaults"})}
    \cup {HttpGitlab(i, c, host) : i \in Partial({"labels"}), c \in Partial({"ticket_id"})}
    \cup {QueueKafka(i, c, host) : i \in Partial({"topic"}), c \in Partial({"topic"})}
    \cup {FlowLoop(i, c) : i \in Partial({"items", "max_iterations"}),
                           c \in Partial({"max_iterations"})}
    \cup {FlowFanout(i) : i \in Partial({"items"})}
    \cup {FlowAwaitAll(i) : i \in Partial({"results"})}
    \cup {MarkdownList(i, c, host) : i \in Partial({"root_dir"}), c \in Partial({"glob"})}
    \cup {MarkdownChunk(i, c) : i \in Partial({"documents"}),
                                c \in Partial({"chunk_size", "overlap"})}
    \cup {EmbedText(i) : i \in Partial({"chunks", "query"})}
    \cup {SumNumbers(i) : i \in Partial({"numbers"})}
    \cup {EmailNotify(i, c, host, smtp).result :
            i \in [{"to", "subject", "body"} -> {Null, Address(1)}],
            c \in Partial({"from", "smtp_port"}), smtp \in {"sent", "refused", "lost"}}
    \cup {CorePassthrough(i) : i \in Partial({"x"})}

ErrorsAreTyped == \A r \in resolved : r.is \in {"handle", "error"}
ASSUME ErrorsAreTyped

\* A status completed promises an output, but for ai providers whose dry run is given
\* an output that is no object.  A cancelled handle is failed from then on, unless its
\* provider takes no notice; what it still returns depends on the provider.
dry == {AiInvoke("ollama", << >>, [dry_run |-> Flag(TRUE)] @@ c, host, Null) :
            c \in Partial({"mock_output", "output_schema"})}
HandlesKeepTheirWord ==
    \A handle \in {r \in resolved \cup dry : r.is = "handle"} :
        /\ Poll(handle) = Status("completed")
        /\ handle.kind = "ai" \/ IsDict(handle.data.output)
        /\ Await(handle) = Output(handle.data.output) <=> (handle.kind = "ai" => IsDict(handle.data.output))
        /\ Poll(Cancel(handle)) = Status("completed") <=> handle.kind = "fixed"
        /\ Await(Cancel(handle)) = IF handle.kind = "settled" THEN Refuse("cancelled") ELSE Await(handle)
ASSUME HandlesKeepTheirWord

\* A cancelled mock handle has no error to raise: a KeyError reaches the runtime.
MockForgetsItsError ==
    \A c \in [{"error", "by_key", "by_node", "default"} -> {Null, Dict(<< >>), Num(1)}] :
        LET handle == MockInvoke(c) IN
        handle.is = "handle" =>
            /\ Poll(handle) = Status("completed") => Await(handle) = Output(handle.data.output)
            /\ Await(Cancel(handle)) = Raw <=> c.error = Null
ASSUME MockForgetsItsError

\* Waiting for a timer never ends early and never outlasts the timeout; polling and
\* waiting agree on when it is done, and a wait that timed out can be taken up again.
TimersAreOnTime ==
    \A d \in 0..3, now \in 0..4, timeout \in NoTimeout..4 :
        LET handle == TimerDelay([duration |-> Num(d)], << >>, host)
            w == TimerAwait(handle.data, now, timeout)
            again == TimerAwait(w.data, w.now, NoTimeout)
        IN /\ w.result.is = "output" => w.now = AtLeast(now, d)
           /\ timeout # NoTimeout => w.now <= now + timeout
           /\ w.result = TimedOut <=> timeout # NoTimeout /\ now + timeout < d
           /\ w.result.is = "output" <=> TimerPoll(w.data, w.now).status = "completed"
           /\ again.result.is = "output" /\ again.now = AtLeast(now, d)
           /\ TimerAwait(Cancel(handle).data, now, timeout).result = Refuse("cancelled")
ASSUME TimersAreOnTime

(***************************************************************************)
(* Documents and the search store.                                         *)
(***************************************************************************)
document(s, n) == Dict([source_id |-> s, markdown |-> Text([i \in 1..n |-> i])])

\* The chunks of a document, put together without their overlaps, are the document; none
\* is longer than the size, none could be left out, and no two chunks share an id, not
\* even those of documents that share a source.  Other overlaps are refused.
ChunksCoverTheText ==
    \A size \in 0..4, m \in 0..7, n \in 0..3, overlap \in -1..5 :
        LET docs == <<document(Str(1), m), document(Str(1), n)>>
            config == [chunk_size |-> Num(size), overlap |-> Num(overlap)]
            Cut(ds) == MarkdownChunk([documents |-> List(ds)], config)
            Of(ds) == Cut(ds).data.output[2].chunks[2]
            all == Of(docs)
            one == [i \in DOMAIN Of(<<docs[1]>>) |-> all[i][2].text[2]]
        IN IF overlap \notin 0..(size - 1) THEN Cut(docs) = Refuse("invalid_config")
           ELSE
           /\ FlattenSeq([i \in DOMAIN one |->
                IF i = 1 THEN one[i] ELSE Slice(one[i], overlap, size)]) = docs[1][2].markdown[2]
           /\ \A i \in DOMAIN all : Len(all[i][2].text[2]) \in 1..size
           /\ \A i \in DOMAIN one : i > 1 => Len(one[i]) > overlap /\ Len(one[i - 1]) = size
           /\ \A i, j \in DOMAIN all : all[i][2].chunk_id = all[j][2].chunk_id => i = j
ASSUME ChunksCoverTheText

chunk(id, v) == Dict([source_id |-> Str(0), chunk_id |-> Str(id), text |-> Str(v),
                      vector |-> List(<< >>)])
stores == UpTo({chunk(1, 0), chunk(2, 0), Garbage}, 2)
batches == UpTo({chunk(1, 1), chunk(1, 2), chunk(3, 1), Num(0)}, 3)
Upserted(items, lines) == WeaviateUpsert([items |-> List(items)], lines)
Latest(id, seq) == LET at == At(seq, id) IN seq[CHOOSE i \in at : \A j \in at : j <= i]
ids == {Str(n) : n \in 1..3}

\* An upsert accounts for every item, keeps one record per id, the latest given one or
\* else the stored one, and can be retried: the second time it changes nothing.
UpsertIsIdempotent ==
    \A lines \in stores, items \in batches :
        LET once == Upserted(items, lines)
            counts == once.result.data.output[2]
            twice == Upserted(items, once.lines)
        IN /\ counts.inserted[2] + counts.updated[2] + counts.failed[2] = Len(items)
           /\ counts.inserted[2] = Len(once.lines) - Len(Keyed(lines))
           /\ \A id \in ids : Cardinality(At(once.lines, id)) <= 1
           /\ \A id \in ids : At(lines \o items, id) # {} =>
                    Latest(id, once.lines) = Latest(id, lines \o items)
           /\ twice.lines = once.lines
           /\ twice.result.data.output[2].inserted = Num(0)
ASSUME UpsertIsIdempotent

\* The hits are the best records, best first, as many as were asked for, and at least
\* one where there is any; no record scores more than a hit and is not among them.
SearchFindsTheBest ==
    \A n \in 0..3, top \in -1..4 : \A score \in [{chunk(i, 0) : i \in 1..n} -> 0..2] :
        LET lines == [i \in 1..n |-> chunk(i, 0)]
            handle == WeaviateHybridSearch([query |-> Name("q"), vector |-> List(<< >>),
                                       top_k |-> Num(top)], << >>, <<Garbage>> \o lines, score)
            hits == handle.data.output[2].hits[2]
            hit == {hits[k][2].chunk_id : k \in DOMAIN hits}
        IN /\ Len(hits) = IF AtLeast(1, top) < n THEN AtLeast(1, top) ELSE n
           /\ Cardinality(hit) = Len(hits)
           /\ \A k \in DOMAIN hits : k > 1 => hits[k - 1][2].score[2] >= hits[k][2].score[2]
           /\ \A i \in 1..n, k \in DOMAIN hits :
                lines[i][2].chunk_id \notin hit => score[lines[i]] <= hits[k][2].score[2]
ASSUME SearchFindsTheBest

rowsets == UpTo({Dict([row_id |-> Num(i), v |-> Num(v)]) : i \in 1..2, v \in 1..2}, 3)

\* Rows come in the order of the ids that were asked for, unknown ids are passed over,
\* and of several rows with one id the last one counts.
SelectionFollowsTheIds ==
    \A rows \in rowsets, wanted \in UpTo({Num(i) : i \in 1..3}, 3) :
        LET out == DatasetSelect([row_ids |-> List(wanted)], [rows |-> List(rows)])
            got == out.data.output[2].rows[2]
            known == SelectSeq(wanted, LAMBDA id : \E i \in DOMAIN rows : rows[i][2].row_id = id)
        IN /\ [k \in DOMAIN got |-> got[k][2].row_id] = known
           /\ \A k \in DOMAIN got : \E i \in DOMAIN rows :
                rows[i] = got[k]
                /\ \A j \in DOMAIN rows : rows[j][2].row_id = rows[i][2].row_id => j <= i
ASSUME SelectionFollowsTheIds

(***************************************************************************)
(* The other side of a call.                                               *)
(***************************************************************************)
\* A mail that was not sent may be sent again; one that was is sent twice only where the
\* connection breaks after the server has taken it.  A dry run sends none.
MailsAreCounted ==
    \A first, second \in {"sent", "refused", "lost"}, dry_run \in {Null, Name("true")} :
        LET Send(smtp) == EmailNotify([to |-> Address(1), subject |-> Str(1), body |-> Str(1)],
                                      [from |-> Address(2), dry_run |-> dry_run], host, smtp)
            retried == Send(first).result.is = "error"
        IN /\ retried => Send(first).result.retryable
           /\ Send(first).mails + (IF retried THEN Send(second).mails ELSE 0) > 1 => first = "lost"
           /\ dry_run # Null => Send(first).mails = 0
ASSUME MailsAreCounted

slackStart == [pending |-> FALSE, response |-> << >>, posted |-> 0]
calls == [slack : {"ok", "refused", "lost"}, answer : {<< >>, <<Dict([ok |-> Num(1)])>>}]
After(history) == FoldLeft(LAMBDA w, c : SlackInvoke(w, c.slack, c.answer).w, slackStart, history)

\* However often a node is started again, the message is posted once per lost answer
\* before it, and never again once the interaction is pending; a node is done only when
\* it was answered, and what is stored then is what its handle gives.
SlackPostsOnce ==
    \A history \in UpTo(calls, 4) : \A c \in calls :
        LET w == After(history)
            now == SlackInvoke(w, c.slack, c.answer)
            lost == Cardinality({i \in DOMAIN history : history[i].slack = "lost"})
        IN /\ w.posted <= 1 + lost
           /\ w.pending => now.w.posted = w.posted
           /\ now.result = Suspended => now.w.pending
           /\ now.result.is = "handle" =>
                /\ c.answer # << >> /\ now.w.response = c.answer
                /\ SlackPoll(now.result.data, now.w) = Status("completed")
                /\ SlackAwait(now.result.data, now.w) = Output(c.answer[1])
ASSUME SlackPostsOnce

body(v) == [is |-> "body", body |-> v]
replies == {[is |-> "unreachable"], [is |-> "http", code |-> 404], [is |-> "http", code |-> 503],
            body(Garbage), body(Null), body(Dict(<< >>)), body(List(<< >>)),
            body(Dict([status |-> Name("running"), job_id |-> Num(1)])),
            body(Dict([status |-> Name("completed"), output |-> Dict(<< >>)])),
            body(Dict([status |-> Name("completed"), output |-> Null])),
            body(Dict([status |-> Name("failed"), error |-> Null])),
            body(Dict([status |-> Name("failed"), error |-> Dict([retryable |-> Flag(TRUE)])]))}

\* What invoke returns for an asynchronous webhook can never be completed: the poll_url
\* and the cancel_url of the config are not in the handle.
AsyncWebhooksNeverEnd ==
    \A reply, next \in replies :
        LET handle == WebhookInvoke([url |-> Name("u"), poll_url |-> Name("p"), cancel_url |-> Name("c"),
                                async_mode |-> Name("true")], reply)
        IN handle.is = "handle" =>
            /\ WebhookAwait(handle.data, <<next>>, NoTimeout) = Refuse("invalid_config")
            /\ WebhookCancel(handle.data, next).data = handle.data
ASSUME AsyncWebhooksNeverEnd

\* With the URLs in the handle: the status only ever leaves running, waiting gives what
\* polling one by one would, and a cancelled handle gives no output.
job == [status |-> "running", job_id |-> Num(1), poll_url |-> Name("p"), cancel_url |-> Name("c")]
PollingAgrees ==
    \A history \in UpTo(replies, 3) : \A reply \in replies :
        LET data == FoldLeft(LAMBDA d, r : WebhookPoll(d, r).data, job, history)
            poll == WebhookPoll(data, reply)
            wait == WebhookAwait(data, <<reply>>, 0)
            cancelled == WebhookCancel(data, reply)
        IN /\ data.status # "running" => poll = [result |-> Status(data.status), data |-> data]
           /\ poll.result.is \in {"error", "raw"} => wait = poll.result
           /\ poll.result = Status("running") <=> wait = TimedOut
           /\ wait.is = "output" => poll.result = Status("completed")
           /\ WebhookAwait(job, history \o <<reply>>, NoTimeout) = WebhookAwait(data, <<reply>>, NoTimeout)
              \/ \E i \in DOMAIN history : WebhookPoll(job, history[i]).result # Status("running")
           /\ cancelled.result.is = "status" =>
                WebhookAwait(cancelled.data, <<reply>>, 0).is \in {"error", "raw"}
ASSUME PollingAgrees

(***************************************************************************)
(* Models.                                                                 *)
(***************************************************************************)
object == Dict([risk |-> Name("high")])
fragments == {<<"prose">>, <<"json", object>>, <<"json", List(<<object>>)>>,
              <<"json", Num(1)>>, <<"fenced", Dict(<< >>)>>}
schemas == {Null, Dict([type |-> Name("object"), required |-> List(<<Name("risk")>>)]),
            Dict([properties |-> Dict([risk |-> Dict([type |-> Name("number")])])]),
            Dict([enum |-> List(<<object>>)]), Dict([items |-> Null]), List(<< >>)}

Wrap(text) == Dict([text |-> text, type |-> Name("text")])
Answers(parts) ==
    {OpenAiText([output |-> List(<<Dict([content |-> List([i \in DOMAIN parts |-> Wrap(parts[i])])])>>)]),
     AnthropicText([content |-> List([i \in DOMAIN parts |-> Wrap(parts[i])])]),
     GoogleText([candidates |-> List(<<Dict([content |-> Dict([parts |->
                    List([i \in DOMAIN parts |-> Wrap(parts[i])])])])>>)])}

\* The providers read one text out of the answers of their services, whatever the parts
\* it comes in; an answer without text is refused.
ProvidersReadAlike ==
    /\ {OpenAiText(<< >>), AnthropicText(<< >>), GoogleText(<< >>), OllamaText(<< >>)} = {NoText}
    /\ \A parts \in UpTo({Text(<< >>)} \cup {Text(<<f>>) : f \in fragments}, 3) :
        /\ Cardinality(Answers(parts)) = 1
        /\ \A r \in Answers(parts) :
            IF \A i \in DOMAIN parts : parts[i] = Text(<< >>) THEN r = NoText
            ELSE OllamaText([response |-> r.output]) = r
ASSUME ProvidersReadAlike

\* The output of a model is an object that the schema of the config admits, one that
\* stands in its text; it is found where it is fenced or the only one.
OutputsConform ==
    \A text \in UpTo(fragments, 3), schema \in schemas :
        LET r == AiInvoke("ollama", << >>,
                          [model |-> Name("m"), output_schema |-> schema], host,
                          body(Dict([response |-> Text(text)])))
            found == {f[2] : f \in {text[i] : i \in DOMAIN text} \ {<<"prose">>}}
            objects == {i \in DOMAIN text : text[i][1] # "prose" /\ text[i] # <<"json", Num(1)>>}
        IN /\ r.is = "handle" =>
                /\ IsDict(r.data.output)
                /\ r.data.output \in found \/ List(<<r.data.output>>) \in found
                /\ schema # Null => Conforms(r.data.output, schema)
           /\ r.is = "error" => ~r.retryable
           /\ schema = List(<< >>) => r = Refuse("invalid_config")
           /\ schema = Null => (r.is = "handle" <=>
                Cardinality(objects) = 1 \/ <<"fenced", Dict(<< >>)>> \in {text[i] : i \in objects})
           /\ r.is = "handle" /\ <<"fenced", Dict(<< >>)>> \in {text[i] : i \in objects} =>
                r.data.output = Dict(<< >>)
ASSUME OutputsConform

\* No request is made without the key and the settings; a service that is busy may be
\* asked again, a wrong answer is final.
RequestsAreGuarded ==
    \A reply \in replies, c \in Partial({"max_tokens", "temperature"}),
       key \in BOOLEAN, keyed \in BOOLEAN :
        LET r == AnthropicCall(c, [host EXCEPT !.api_key = key, !.keyed = keyed], reply) IN
        /\ r.is # "raw"
        /\ r.is = "error" /\ r.retryable =>
            /\ reply \in {[is |-> "unreachable"], [is |-> "http", code |-> 503]}
            /\ keyed => key
        /\ r.is = "output" => reply.is = "body" /\ IsDict(reply.body)
ASSUME RequestsAreGuarded
=============================================================================
