------------------------------ MODULE Providers ------------------------------
(***************************************************************************)
(* The providers of src/src/bpg/providers: what invoke makes of an input   *)
(* and a config, and what poll, await_result and cancel make of the handle *)
(* it returns.                                                             *)
(*                                                                         *)
(* An input or a config is a function from field names to the values of    *)
(* Expressions, with a few kinds more: Text(s), a string seen as the       *)
(* sequence of its parts, Name(s), a keyword, Address(n), a string with an *)
(* @, and Flag(b), a Boolean told apart from a number.  A string of blanks *)
(* is Str(0).  The environment of a call is a record os of Booleans and    *)
(* values, a clock, and the replies of the other side.                     *)
(*                                                                         *)
(* Every provider of builtin.py and core.py resolves within invoke; the    *)
(* kinds of handles they return differ in what a cancel leaves of them:    *)
(*   settled   poll gives the stored status, a cancelled one refuses await *)
(*   written   cancel rewrites the status, await returns the output anyway *)
(*   fixed     cancel does nothing                                         *)
(***************************************************************************)
EXTENDS Expressions, Integers

Text(parts) == <<"text", parts>>
Name(word) == <<"name", word>>
Address(n) == <<"address", n>>
Flag(b) == <<"bool", IF b THEN 1 ELSE 0>>

IsDict(v) == v[1] = "dict"
IsList(v) == v[1] = "list"
IsStr(v) == v[1] \in {"str", "text", "name", "address"}
IsNum(v) == v[1] \in {"num", "bool"}
Blank(v) == v \in {Str(0), Text(<< >>)}
Filled(v) == IsStr(v) /\ ~Blank(v)

Get(fields, f, default) == IF f \in DOMAIN fields THEN fields[f] ELSE default
Field(fields, f) == Get(fields, f, Null)
\* x or y
OrElse(x, y) == IF Truthy(x) THEN x ELSE y
Dicts(items) == SelectSeq(items, IsDict)
\* str(v), v[m:n] and max(m, n)
Shown(v) == IF v = Null THEN Name("None") ELSE v
Slice(v, m, n) == SubSeq(v, m + 1, IF n < Len(v) THEN n ELSE Len(v))
AtLeast(m, n) == IF n < m THEN m ELSE n

(***************************************************************************)
(* What a call gives: a ProviderError, an exception of another type, a     *)
(* handle, a status, an output, or the node's suspension.                  *)
(***************************************************************************)
Refuse(code) == [is |-> "error", code |-> code, retryable |-> FALSE]
Retry(code) == [is |-> "error", code |-> code, retryable |-> TRUE]
Raw == [is |-> "raw"]
TimedOut == [is |-> "timeout"]
Suspended == [is |-> "suspended"]
NoTimeout == -1
Waiting == [is |-> "waiting"]
Status(s) == [is |-> "status", status |-> s]
Output(v) == [is |-> "output", output |-> v]
Handle(kind, data) == [is |-> "handle", kind |-> kind, data |-> data]
Done(kind, output) ==
    Handle(kind, [status |-> "completed", output |-> output, cancelled |-> FALSE])

(***************************************************************************)
(* builtin.py                                                              *)
(***************************************************************************)
Yes == {Name("1"), Name("true"), Name("yes"), Name("on")}
IsDryRun(config, os) ==
    LET raw == Field(config, "dry_run") IN
    CASE raw[1] = "bool" -> Truthy(raw)
      [] IsStr(raw) -> raw \in Yes
      [] OTHER -> os.dry_run

AgentPipeline(input, config) ==
    LET severity == Field(input, "severity")
        risk == CASE severity \in {Name("S1"), Name("P0")} -> "high"
                  [] severity \in {Name("S2"), Name("P1")} -> "med"
                  [] OTHER -> "low"
        labels == Field(input, "labels")
        mock == Field(config, "mock_output")
        output == IF mock # Null THEN mock
                  ELSE Dict([risk |-> Name(risk),
                             summary |-> OrElse(Shown(Get(input, "title", Str(0))), Name("No title")),
                             labels |-> IF IsList(labels) THEN labels ELSE List(<< >>)])
    IN IF IsDict(output) THEN Done("settled", output) ELSE Refuse("invalid_config")

DashboardForm(input, config) ==
    LET defaults == Get(config, "defaults", Dict(<< >>)) IN
    IF defaults # Null /\ ~IsDict(defaults) THEN Refuse("invalid_config")
    ELSE Done("settled", Dict(IF defaults = Null THEN input ELSE input @@ defaults[2]))

\* The number of the issue is a function of the idempotency key.
HttpGitlab(input, config, os) ==
    LET ticket == OrElse(Field(config, "ticket_id"), <<"ticket", os.key>>)
        url == Get(config, "issue_url", <<"url", ticket>>)
        labels == Field(input, "labels")
    IN Done("settled",
            Dict([ticket_id |-> ticket, url |-> url]
                 @@ (IF IsList(labels) THEN [labels |-> labels] ELSE << >>)))

QueueKafka(input, config, os) ==
    LET topic == OrElse(Field(config, "topic"), Field(input, "topic"))
        partition == Get(config, "partition", Num(0))
        offset == Get(config, "offset", Num(0))
    IN CASE ~Truthy(topic) -> Refuse("invalid_config")
         [] ~IsNum(partition) \/ ~IsNum(offset) -> Raw
         [] OTHER -> Done("settled", Dict([published |-> Flag(TRUE), topic |-> topic,
                                           partition |-> partition, offset |-> offset,
                                           idempotency_key |-> os.key]))

TimerDelay(input, config, os) ==
    LET duration == Get(config, "duration", Get(input, "duration", Num(0))) IN
    IF ~IsNum(duration) \/ duration[2] < 0 THEN Refuse("invalid_config")
    ELSE Handle("timer", [status |-> "running", cancelled |-> FALSE,
                          duration |-> duration[2], started |-> os.now])

FlowLoop(input, config) ==
    LET items == Get(input, "items", List(<< >>))
        bound == Get(config, "max_iterations",
                     Get(input, "max_iterations", Num(Len(items[2]))))
        kept == Slice(items[2], 0, AtLeast(0, bound[2]))
    IN IF ~IsList(items) THEN Refuse("invalid_input")
       ELSE IF ~IsNum(bound) THEN Refuse("invalid_config")
       ELSE Done("written", Dict([items |-> List(kept), count |-> Num(Len(kept)),
                                  truncated |-> Flag(Len(items[2]) > Len(kept))]))

FlowFanout(input) ==
    LET items == Get(input, "items", List(<< >>)) IN
    IF ~IsList(items) THEN Refuse("invalid_input")
    ELSE Done("written",
              Dict([branches |-> List([i \in DOMAIN items[2] |->
                                    Dict([index |-> Num(i - 1), item |-> items[2][i]])]),
                    count |-> Num(Len(items[2]))]))

FlowAwaitAll(input) ==
    LET results == Get(input, "results", List(<< >>)) IN
    IF ~IsList(results) THEN Refuse("invalid_input")
    ELSE Done("written", Dict([results |-> results, count |-> Num(Len(results[2]))]))

\* child is what Engine.trigger gives: an exception, or the record of the run.
BpgProcessCall(config, deployed, child) ==
    LET name == Field(config, "process_name") IN
    CASE ~IsStr(name) \/ name = Str(0) \/ name \notin deployed -> Refuse("invalid_config")
      [] child = Raw -> Raw
      [] OTHER -> Done("written", Dict([child_process |-> name, child_run_id |-> child.id,
                                        status |-> child.status, output |-> child.output]))

\* os.disk maps the directories there are to the paths in them that match the glob, in
\* order, each with its text, or Null where it cannot be read.
MarkdownList(input, config, os) ==
    LET root == OrElse(Field(input, "root_dir"),
                       OrElse(Field(config, "root_dir"), OrElse(os.markdown_root, Name("."))))
        glob == OrElse(Field(input, "glob"), OrElse(Field(config, "glob"), Name("**/*.md")))
        files == SelectSeq(os.disk[root], LAMBDA f : f.regular)
    IN CASE ~Filled(root) \/ root \notin DOMAIN os.disk \/ ~Filled(glob) -> Refuse("invalid_input")
         [] OTHER ->
            IF \E i \in DOMAIN files : files[i].text = Null THEN Refuse("read_error")
            ELSE Done("written", Dict([documents |-> List([i \in DOMAIN files |->
                     Dict([source_id |-> <<"digest", files[i].path>>,
                           path |-> files[i].path, markdown |-> files[i].text])])]))

(***************************************************************************)
(* Documents are cut into windows of size characters that start stride     *)
(* apart, up to the first one that reaches the end.                        *)
(***************************************************************************)
Windows(length, size, stride) ==
    LET most == (AtLeast(length, 1) - 1) \div stride
        ends == {k \in 0..most : k * stride + size >= length}
        last == IF ends = {} THEN most ELSE CHOOSE k \in ends : \A j \in ends : k <= j
    IN IF length = 0 THEN << >>
       ELSE [k \in 1..(last + 1) |-> <<(k - 1) * stride, (k - 1) * stride + size>>]

Chunks(docs, size, stride) ==
    FoldLeft(LAMBDA chunks, doc :
        LET text == Field(doc[2], "markdown")
            source == Get(doc[2], "source_id", Str(0))
            windows == Windows(Len(text[2]), size, stride)
        IN IF text[1] # "text" THEN chunks
           ELSE chunks \o [k \in DOMAIN windows |->
                LET ordinal == Len(chunks) + k - 1 IN
                Dict([source_id |-> source, chunk_id |-> <<"chunk", source, ordinal>>,
                      text |-> Text(Slice(text[2], windows[k][1], windows[k][2])),
                      ordinal |-> Num(ordinal)])],
        << >>, docs)

MarkdownChunk(input, config) ==
    LET docs == Field(input, "documents")
        size == Get(config, "chunk_size", Num(1200))
        overlap == Get(config, "overlap", Num(200))
    IN CASE ~IsList(docs) -> Refuse("invalid_input")
         [] IsList(docs) /\ (~IsNum(size) \/ ~IsNum(overlap)) -> Refuse("invalid_config")
         [] OTHER ->
            IF size[2] <= 0 \/ overlap[2] < 0 \/ overlap[2] >= size[2]
            THEN Refuse("invalid_config")
            ELSE Done("written", Dict([chunks |->
                    List(Chunks(Dicts(docs[2]), size[2], AtLeast(1, size[2] - overlap[2])))]))

\* A vector is a function of the text it is for.
EmbedText(input) ==
    LET chunks == Field(input, "chunks")
        query == Field(input, "query")
        texts == SelectSeq(Dicts(chunks[2]), LAMBDA c : IsStr(Field(c[2], "text")))
    IN CASE IsList(chunks) ->
            Done("written", Dict([items |-> List([i \in DOMAIN texts |->
                Dict([source_id |-> Get(texts[i][2], "source_id", Str(0)),
                      chunk_id |-> Get(texts[i][2], "chunk_id", Str(0)),
                      text |-> texts[i][2].text, vector |-> <<"vector", texts[i][2].text>>])])]))
         [] ~IsList(chunks) /\ ~Filled(query) -> Refuse("invalid_input")
         [] OTHER -> Done("written", Dict([query |-> query, vector |-> <<"vector", query>>,
                                           top_k |-> Field(input, "top_k")]))

(***************************************************************************)
(* The search store: a file of one record per line, in the order in which  *)
(* the chunks first arrived.  It is read and then rewritten as a whole,    *)
(* without the lines that did not parse.                                   *)
(***************************************************************************)
Garbage == <<"garbage">>
Records(lines) == SelectSeq(lines, LAMBDA r : r # Garbage)
ChunkId(v) == IF IsDict(v) THEN Field(v[2], "chunk_id") ELSE Null
At(records, id) == {i \in DOMAIN records : ChunkId(records[i]) = id}
Put(records, r) ==
    LET at == At(records, ChunkId(r)) IN
    IF at = {} THEN Append(records, r) ELSE [i \in DOMAIN records |-> IF i \in at THEN r ELSE records[i]]
Keyed(lines) == FoldLeft(Put, << >>, SelectSeq(Records(lines), LAMBDA r : IsStr(ChunkId(r)) /\ ChunkId(r) # Str(0)))

\* The result of the call and the file it leaves.
WeaviateUpsert(input, lines) ==
    LET items == Field(input, "items")
        Step(done, item) ==
            IF ~IsStr(ChunkId(item)) \/ ChunkId(item) = Str(0)
            THEN [done EXCEPT !.failed = @ + 1]
            ELSE LET r == Dict([f \in {"source_id", "chunk_id", "text", "vector"} |->
                                    Get(item[2], f, IF f = "vector" THEN List(<< >>) ELSE Str(0))])
                     new == At(done.records, ChunkId(item)) = {}
                 IN [done EXCEPT !.records = Put(@, r),
                                 !.inserted = @ + IF new THEN 1 ELSE 0,
                                 !.updated = @ + IF new THEN 0 ELSE 1]
        end == FoldLeft(Step, [records |-> Keyed(lines), inserted |-> 0, updated |-> 0,
                               failed |-> 0], items[2])
    IN IF ~IsList(items) THEN [result |-> Refuse("invalid_input"), lines |-> lines]
       ELSE [result |-> Done("written", Dict([inserted |-> Num(end.inserted),
                             updated |-> Num(end.updated), failed |-> Num(end.failed)])),
             lines |-> end.records]

\* score is the weighted sum of a text's lexical score and of its vector's similarity.
\* The sort is stable: equal scores keep the order of the file.
WeaviateHybridSearch(input, config, lines, score) ==
    LET query == Field(input, "query")
        given == Field(input, "top_k")
        top == IF given = Null THEN Get(config, "top_k", Num(8)) ELSE given
        alpha == Field(config, "alpha")
        records == Records(lines)
        rank == [i \in DOMAIN records |->
                    1 + Cardinality({j \in DOMAIN records :
                            \/ score[records[j]] > score[records[i]]
                            \/ score[records[j]] = score[records[i]] /\ j < i})]
        sorted == [k \in DOMAIN records |->
                    LET r == records[CHOOSE i \in DOMAIN records : rank[i] = k] IN
                    Dict([source_id |-> r[2].source_id, chunk_id |-> r[2].chunk_id,
                          text |-> r[2].text, score |-> Num(score[r])])]
    IN IF ~Filled(query) \/ ~IsList(Field(input, "vector")) THEN Refuse("invalid_input")
       ELSE IF ~IsNum(top) \/ ~(alpha = Null \/ IsNum(alpha)) THEN Refuse("invalid_config")
       ELSE Done("written", Dict([query |-> query,
                                  hits |-> List(Slice(sorted, 0, AtLeast(1, top[2])))]))

\* The parts of a text are the matches of the number pattern and what is between them.
ParseTextNumbers(input) ==
    LET text == Field(input, "text") IN
    IF ~IsStr(text) THEN Refuse("invalid_input")
    ELSE Done("written", Dict([numbers |-> List(SelectSeq(text[2], IsNum))]))

SumNumbers(input) ==
    LET numbers == Field(input, "numbers") IN
    IF ~IsList(numbers) THEN Refuse("invalid_input")
    ELSE IF \E i \in DOMAIN numbers[2] : ~IsNum(numbers[2][i]) THEN Refuse("invalid_input")
    ELSE Done("written", Dict([sum |-> Num(FoldLeft(LAMBDA n, v : n + v[2], 0, numbers[2])),
                               count |-> Num(Len(numbers[2]))]))

\* reply is Raw where the request fails, Garbage where the answer is not JSON.
WebSearch(input, config, os, reply) ==
    LET query == Field(input, "query")
        top == Get(config, "top_k", Get(input, "top_k", Num(5)))
        most == AtLeast(1, top[2])
        endpoint == OrElse(Field(config, "endpoint"), os.endpoint)
        keyless == Truthy(Get(config, "require_api_key", Flag(TRUE))) /\ ~os.api_key
        raw == IF IsDict(reply) THEN Field(reply[2], "results") ELSE reply
        Found(results) == Done("written", Dict([query |-> query, results |-> List(results)]))
        Live == CASE ~Filled(endpoint) \/ keyless -> Refuse("invalid_config")
                  [] Filled(endpoint) /\ ~keyless ->
                     IF ~IsNum(Get(config, "timeout_seconds", Num(10))) THEN Raw
                     ELSE IF reply = Raw THEN Retry("web_search_http_error")
                     ELSE IF reply = Garbage THEN Refuse("web_search_invalid_json")
                     ELSE IF ~IsList(raw) THEN Refuse("web_search_invalid_response")
                     ELSE Found(Dicts(Slice(raw[2], 0, most)))
    IN IF ~Filled(query) THEN Refuse("invalid_input")
       ELSE IF ~IsNum(top) THEN Refuse("invalid_config")
       ELSE IF IsDryRun(config, os) THEN Found([n \in 1..most |-> <<"placeholder", n>>])
       ELSE Live

\* smtp is "sent", "refused" before the mail is accepted, or "lost" after it was.
EmailNotify(input, config, os, smtp) ==
    LET sender == OrElse(Field(config, "from"), os.smtp_from)
        host == OrElse(Field(config, "smtp_host"), os.smtp_host)
        Receipt(sent) == Done("written", Dict([sent |-> Flag(sent), dry_run |-> Flag(~sent),
                              to |-> input.to, message_id |-> <<"message", os.key>>]))
        Quiet(result) == [result |-> result, mails |-> 0]
    IN IF \/ Field(input, "to")[1] # "address"
          \/ \E f \in {"subject", "body"} : ~IsStr(Field(input, f))
       THEN Quiet(Refuse("invalid_input"))
       ELSE IF sender[1] # "address" THEN Quiet(Refuse("invalid_config"))
       ELSE IF IsDryRun(config, os) THEN Quiet(Receipt(FALSE))
       ELSE IF ~Filled(host) \/ ~IsNum(Get(config, "smtp_port", os.smtp_port))
       THEN Quiet(Refuse("invalid_config"))
       ELSE [result |-> IF smtp = "sent" THEN Receipt(TRUE) ELSE Retry("smtp_send_error"),
             mails |-> IF smtp = "refused" THEN 0 ELSE 1]

(***************************************************************************)
(* core.py                                                                 *)
(***************************************************************************)
CorePassthrough(input) == Done("fixed", Dict(input))

\* The rows the ids name, in the order of the ids; the last of the rows with one id.
Selected(rows, id, ids) ==
    LET index == [k \in DOMAIN ids |->
                    {i \in DOMAIN rows : Field(rows[i][2], id) = ids[k] /\ ids[k] # Null}]
        known == SelectSeq([k \in DOMAIN ids |-> index[k]], LAMBDA S : S # {})
    IN [k \in DOMAIN known |-> rows[CHOOSE i \in known[k] : \A j \in known[k] : j <= i]]

DatasetSelect(input, config) ==
    LET rows == Field(config, "rows")
        ids == Get(input, "row_ids", List(<< >>))
        id == Get(config, "row_id_field", "row_id")
    IN IF ~IsList(rows) \/ ~IsList(ids) THEN Raw
       ELSE Done("fixed", Dict([rows |-> List(Selected(Dicts(rows[2]), id, ids[2]))]))

\* os.csv maps the files there are to their lines, functions from columns to values.
CsvRead(input, config, os) ==
    LET path == Field(config, "path")
        ids == Field(input, "row_ids")
        review == Get(config, "review_column", "review")
        sentiment == Get(config, "sentiment_column", "sentiment")
        rows == [i \in DOMAIN os.csv[path] |->
                    Dict([row_id |-> Num(i), review |-> Get(os.csv[path][i], review, Str(0)),
                          source_sentiment |-> Get(os.csv[path][i], sentiment, Str(0))])]
    IN IF ~Filled(path) \/ ~(ids = Null \/ IsList(ids)) \/ path \notin DOMAIN os.csv THEN Raw
       ELSE Done("fixed", Dict([rows |-> List(IF ids = Null THEN rows
                                              ELSE Selected(rows, "row_id", ids[2]))]))

(***************************************************************************)
(* mock.py: canned is what was registered: an error for the node, outputs  *)
(* for the key and for the node, a default.                                *)
(***************************************************************************)
MockInvoke(canned) ==
    LET output == OrElse(OrElse(canned.by_key, canned.by_node), canned.default) IN
    IF canned.error # Null THEN Handle("mock", [status |-> "failed", error |-> canned.error])
    ELSE IF output = Null THEN Refuse("no_canned_output")
    ELSE Handle("mock", [status |-> "completed", output |-> output])

MockAwait(data) ==
    IF data.status = "failed"
    THEN IF "error" \in DOMAIN data THEN data.error ELSE Raw
    ELSE Output(data.output)

(***************************************************************************)
(* webhook.py.  A reply is [is |-> "body", body |-> v], an empty body an   *)
(* empty object; [is |-> "http", code |-> n]; or [is |-> "unreachable"].   *)
(***************************************************************************)
RetryableCodes == {429, 500, 502, 503, 504}
HttpFailure(reply) ==
    IF reply.is = "unreachable" THEN Retry("provider_unavailable")
    ELSE [Refuse("http") EXCEPT !.retryable = reply.code \in RetryableCodes]

HttpBody(reply) == IF reply.is # "body" THEN HttpFailure(reply)
                   ELSE IF reply.body = Garbage THEN Raw ELSE Output(reply.body)

WebhookInvoke(config, reply) ==
    LET answer == HttpBody(reply)
        async == Get(config, "async_mode", Flag(FALSE)) \in Yes \cup {Flag(TRUE), Num(1)}
        job == Field(answer.output[2], "job_id")
    IN IF ~Truthy(Field(config, "url")) THEN Refuse("invalid_config")
       ELSE IF answer.is # "output" THEN answer
       ELSE IF ~async THEN Handle("webhook", [status |-> "completed", output |-> answer.output])
       ELSE IF ~IsDict(answer.output) THEN Raw
       ELSE IF ~Truthy(job) THEN Refuse("invalid_response")
       ELSE Handle("webhook", [status |-> "running", job_id |-> job])

\* What the reply to a poll makes of a handle's data.
ParseAsyncStatus(data, body) ==
    CASE Field(body, "status") = Name("completed") ->
            [output |-> Get(body, "output", Dict(<< >>)), status |-> "completed"] @@ data
      [] Field(body, "status") = Name("failed") ->
            [error |-> Get(body, "error", Dict(<< >>)), status |-> "failed"] @@ data
      [] OTHER -> data

\* The status or the error, and the data after the call.
WebhookPoll(data, reply) ==
    LET answer == HttpBody(reply)
        next == ParseAsyncStatus(data, answer.output[2])
        Gives(result) == [result |-> result, data |-> data]
    IN IF data.status # "running" THEN Gives(Status(data.status))
       ELSE IF "poll_url" \notin DOMAIN data THEN Gives(Refuse("invalid_config"))
       ELSE IF answer.is # "output" THEN Gives(answer)
       ELSE IF ~IsDict(answer.output) THEN Gives(Raw)
       ELSE [result |-> Status(next.status), data |-> next]

\* The replies are those to the polls, one per interval; timeout counts intervals.
RECURSIVE WebhookAwait(_, _, _)
WebhookAwait(data, replies, timeout) ==
    LET poll == WebhookPoll(data, Head(replies))
        error == Get(poll.data, "error", Dict(<< >>))
    IN CASE poll.result.is # "status" -> poll.result
         [] poll.result = Status("completed") ->
               IF poll.data.output = Null THEN Refuse("missing_output")
               ELSE Output(poll.data.output)
         [] poll.result = Status("failed") ->
               IF IsDict(error)
               THEN [is |-> "error", code |-> Get(error[2], "code", "provider_error"),
                     retryable |-> Truthy(Get(error[2], "retryable", Flag(FALSE)))]
               ELSE Raw
         [] OTHER -> IF timeout = 0 THEN TimedOut
                     ELSE IF Len(replies) = 1 THEN Waiting
                     ELSE WebhookAwait(poll.data, Tail(replies), timeout - 1)

WebhookCancel(data, reply) ==
    IF "cancel_url" \notin DOMAIN data THEN [result |-> Status("done"), data |-> data]
    ELSE IF reply.is # "body"
    THEN [result |-> [HttpFailure(reply) EXCEPT !.retryable = FALSE], data |-> data]
    ELSE [result |-> Status("done"), data |-> [data EXCEPT !.status = "failed"]]

(***************************************************************************)
(* slack_interactive.py.  The store w of one idempotency key: whether the  *)
(* interaction is pending, the response (<< >> for none), and the messages *)
(* posted.  slack is "ok", "refused", or "lost" where the message is       *)
(* posted and the answer does not arrive; answer is what the human gave,   *)
(* << >> on the first call, which ends at the interrupt.                   *)
(***************************************************************************)
SlackInvoke(w, slack, answer) ==
    LET posted == [w EXCEPT !.posted = @ + 1]
        asked == IF w.pending THEN w ELSE [posted EXCEPT !.pending = TRUE]
    IN CASE ~w.pending /\ slack = "refused" -> [result |-> Retry("slack_api_error"), w |-> w]
         [] ~w.pending /\ slack = "lost" -> [result |-> Retry("slack_http_error"), w |-> posted]
         [] OTHER ->
            IF answer = << >> THEN [result |-> Suspended, w |-> asked]
            ELSE [result |-> Handle("slack", [result |-> answer[1]]),
                  w |-> [asked EXCEPT !.response = answer]]

SlackPoll(data, w) ==
    IF data.result # Null \/ (w.response # << >> /\ Truthy(w.response[1]))
    THEN Status("completed") ELSE Status("running")

SlackAwait(data, w) ==
    IF data.result # Null THEN Output(data.result)
    ELSE IF w.response \in {<< >>, <<Null>>} THEN Refuse("no_response")
    ELSE Output(w.response[1])

(***************************************************************************)
(* ai: a text is the sequence of its fragments: "prose", ["json", v] and   *)
(* ["fenced", v], a block between triple backquotes.                       *)
(***************************************************************************)
RECURSIVE Braced(_), Conforms(_, _)

\* The objects a value's text shows from its first to its last brace.
Braced(v) == CASE IsDict(v) -> <<v>>
               [] IsList(v) -> FlattenSeq([i \in DOMAIN v[2] |-> Braced(v[2][i])])
               [] OTHER -> << >>

ParseLLMJson(text) ==
    LET fenced == SelectSeq(text, LAMBDA f : f[1] = "fenced" /\ IsDict(f[2]))
        objects == FlattenSeq([i \in DOMAIN text |->
                        IF text[i][1] = "prose" THEN << >> ELSE Braced(text[i][2])])
    IN CASE Len(text) = 1 /\ text[1][1] = "json" /\ IsDict(text[1][2]) -> text[1][2]
         [] OTHER -> IF fenced # << >> THEN Head(fenced)[2]
                     ELSE IF Len(objects) = 1 THEN Head(objects) ELSE Null

HasType(v, type) ==
    /\ type = Name("object") => IsDict(v)
    /\ type = Name("array") => IsList(v)
    /\ type = Name("string") => IsStr(v)
    /\ type = Name("boolean") => v[1] = "bool"
    /\ type \in {Name("integer"), Name("number")} => v[1] = "num"

Equal(v, w) == IF IsNum(v) /\ IsNum(w) THEN v[2] = w[2] ELSE v = w

Conforms(v, schema) ==
    /\ IsDict(schema)
    /\ LET rule == [f \in {"type", "enum", "required", "properties", "items"} |->
                        Field(schema[2], f)]
       IN /\ HasType(v, rule.type)
          /\ IsList(rule.enum) => \E i \in DOMAIN rule.enum[2] : Equal(v, rule.enum[2][i])
          /\ IsDict(v) =>
               /\ IsList(rule.required) =>
                    \A i \in DOMAIN rule.required[2] :
                        LET f == rule.required[2][i] IN IsStr(f) => f[2] \in DOMAIN v[2]
               /\ IsDict(rule.properties) =>
                    \A f \in DOMAIN rule.properties[2] \cap DOMAIN v[2] :
                        Conforms(v[2][f], rule.properties[2][f])
          /\ IsList(v) /\ IsDict(rule.items) =>
               \A i \in DOMAIN v[2] : Conforms(v[2][i], rule.items)

\* One text of several: the fragments of each, those of blank ones left out.
Joined(parts) == IF \A i \in DOMAIN parts : Blank(parts[i]) THEN Refuse("llm_invalid_response")
                 ELSE Output(Text(FlattenSeq([i \in DOMAIN parts |->
                                IF Blank(parts[i]) THEN << >> ELSE parts[i][2]])))
NoText == Refuse("llm_invalid_response")
Texts(items) == LET kept == SelectSeq(Dicts(items), LAMBDA p : IsStr(Field(p[2], "text")))
                IN [i \in DOMAIN kept |-> kept[i][2].text]
Typed(types, items) == SelectSeq(Dicts(items), LAMBDA p : Field(p[2], "type") \in types)

OpenAiText(response) ==
    LET output == Field(response, "output")
        contents == SelectSeq(Dicts(output[2]), LAMBDA p : IsList(Field(p[2], "content")))
        parts == FlattenSeq([i \in DOMAIN contents |->
                    Texts(Typed({Name("output_text"), Name("text")}, contents[i][2].content[2]))])
    IN IF Filled(Field(response, "output_text")) THEN Output(response.output_text)
       ELSE IF ~IsList(output) THEN NoText ELSE Joined(parts)

AnthropicText(response) ==
    LET content == Field(response, "content") IN
    IF ~IsList(content) THEN NoText ELSE Joined(Texts(Typed({Name("text")}, content[2])))

GoogleText(response) ==
    LET candidates == Field(response, "candidates")
        first == Head(candidates[2])
        content == Field(first[2], "content")
        parts == Field(content[2], "parts")
    IN IF ~IsList(candidates) \/ ~Truthy(candidates) THEN NoText
       ELSE IF ~IsDict(first) THEN NoText
       ELSE IF ~IsDict(content) THEN NoText
       ELSE IF ~IsList(parts) THEN NoText ELSE Joined(Texts(parts[2]))

OllamaText(response) ==
    LET text == Field(response, "response") IN IF Filled(text) THEN Output(text) ELSE NoText

\* The request of a model: the settings are checked before it, the answer after it.
PostJson(reply) ==
    CASE reply.is # "body" -> [HttpFailure(reply) EXCEPT !.code = "llm_http_error"]
      [] reply.is = "body" -> IF IsDict(reply.body) THEN Output(reply.body) ELSE NoText

CallModel(config, os, reply) ==
    IF os.keyed /\ ~os.api_key THEN Refuse("missing_api_key")
    ELSE IF \E f \in {"max_tokens", "temperature"} :
                ~(Field(config, f) = Null \/ IsNum(config[f])) THEN Refuse("invalid_config")
    ELSE PostJson(reply)

AnthropicCall(config, os, reply) ==
    LET response == CallModel(config, os, reply) IN
    IF response.is = "output" /\ Field(response.output[2], "type") = Name("error")
    THEN Refuse("llm_http_error") ELSE response

\* _call_model and _extract_text of each provider.
ModelCall(vendor, config, os, reply) ==
    IF vendor = "anthropic" THEN AnthropicCall(config, os, reply) ELSE CallModel(config, os, reply)
ExtractText(vendor, response) ==
    CASE vendor = "openai" -> OpenAiText(response)
      [] vendor = "anthropic" -> AnthropicText(response)
      [] vendor = "google" -> GoogleText(response)
      [] vendor = "ollama" -> OllamaText(response)

AiInvoke(vendor, input, config, os, reply) ==
    LET schema == Field(config, "output_schema")
        dry == Field(config, "dry_run") \in Yes \cup {Flag(TRUE)}
        mock == Field(config, "mock_output")
        Checked(v) == IF schema # Null /\ ~Conforms(v, schema) THEN Refuse("llm_output_schema")
                      ELSE Done("ai", v)
        response == ModelCall(vendor, config, os, reply)
        text == ExtractText(vendor, response.output[2])
        parsed == ParseLLMJson(text.output[2])
    IN IF schema # Null /\ ~IsDict(schema) THEN Refuse("invalid_config")
       ELSE IF dry THEN Checked(IF mock = Null THEN Dict([text |-> <<"prompt", input>>]) ELSE mock)
       ELSE IF Blank(Get(config, "model", Str(0))) THEN Refuse("invalid_config")
       ELSE IF response.is # "output" THEN response
       ELSE IF text.is # "output" THEN text
       ELSE IF parsed = Null THEN Refuse("llm_output_not_json")
       ELSE Checked(parsed)

(***************************************************************************)
(* poll, await_result and cancel of the handles that resolve within invoke *)
(* and of timers.                                                          *)
(***************************************************************************)
TimerPoll(data, now) ==
    IF data.cancelled THEN [data EXCEPT !.status = "failed"]
    ELSE IF now - data.started >= data.duration THEN [data EXCEPT !.status = "completed"]
    ELSE data

\* The result, the data after the call, and the time at which it returns.
TimerAwait(data, now, timeout) ==
    LET remaining == AtLeast(0, data.duration - AtLeast(0, now - data.started))
        Gives(result, after, at) == [result |-> result, data |-> after, now |-> at]
    IN IF data.cancelled THEN Gives(Refuse("cancelled"), data, now)
       ELSE IF timeout # NoTimeout /\ remaining > timeout THEN Gives(TimedOut, data, now + timeout)
       ELSE Gives(Output(Dict([slept_seconds |-> Num(data.duration)])),
                  [data EXCEPT !.status = "completed"], now + remaining)

Poll(h) == IF h.kind = "fixed" THEN Status("completed") ELSE Status(h.data.status)

Await(h) ==
    CASE h.kind = "mock" -> MockAwait(h.data)
      [] h.kind = "settled" /\ h.data.cancelled -> Refuse("cancelled")
      [] h.kind = "ai" /\ ~IsDict(h.data.output) -> NoText
      [] OTHER -> Output(h.data.output)

Cancel(h) ==
    CASE h.kind \in {"settled", "timer"} ->
            [h EXCEPT !.data.status = "failed", !.data.cancelled = TRUE]
      [] h.kind \in {"written", "ai", "mock"} -> [h EXCEPT !.data.status = "failed"]
      [] OTHER -> h
=============================================================================
