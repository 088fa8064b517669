------------------------------ MODULE Session ------------------------------
(***************************************************************************)
(* A session of the MCP server (ultron/mcp/server.py): a client writes     *)
(* lines, the server answers the requests in them with tools that query    *)
(* the project and write to it (ultron/mcp/tools.py), while analyses       *)
(* commit and reviewers decide in other processes.                         *)
(*                                                                         *)
(* A line is not JSON ("garbage"), JSON that is neither an object nor a    *)
(* list ("scalar"), an object, or a batch.  A message is a record:         *)
(*   current   it says jsonrpc 2.0                                         *)
(*   named     it has an id, so an answer is owed                          *)
(*   method    None makes it a response                                    *)
(*   tool, args   of a tools/call                                          *)
(* A member of a batch that is no object is None.  An answer is of a kind: *)
(* "error" is a JSON-RPC error, "toolerror" a result marked isError, the   *)
(* others are the results of the tools modelled here.                      *)
(* A query of a tool sees the committed graph at that moment; the run of a *)
(* submission commits at once, as in Store.                                *)
(***************************************************************************)
EXTENDS Questions

CONSTANTS
    Started,     \* the artifacts and claims on which a session may begin
    Lines,       \* what the client may write besides its requests for pages
    Refinements, \* the links analyses make
    Submitted,   \* the claims agents submit
    PageSize,    \* the limit the client asks for
    MaxLines,    \* bound: such lines
    MaxChanges   \* bound: changes by other processes

\* The arguments a tool takes as numbers are numbers: of what is none, a limit is
\* the default one, and any other makes int() raise, which is a call that fails.
WellTyped(m) ==
    /\ {m.current, m.named} \subseteq BOOLEAN
    /\ m.tool = "neighbors" => {m.args.depth, m.args.limit} \subseteq Nat
    /\ m.tool = "artifacts" => {m.args.offset, m.args.limit} \subseteq Nat

ASSUME SessionAssumption ==
    /\ Submitted \subseteq Claims /\ Refinements \subseteq Claims \X Claims
    /\ \A g \in Started :
        /\ g.artifacts \subseteq Artifacts /\ \A a \in g.artifacts : Holder[a] \subseteq g.artifacts
        /\ g.claims \subseteq Claims
        /\ \A k \in g.claims : /\ k.evidence \subseteq g.artifacts
                               /\ k.subject \in g.artifacts \cup {None}
    /\ PageSize \in 1..MaxRows
    /\ \A line \in Lines :
        /\ line.items \in Seq(ToSet(line.items))
        /\ \A m \in ToSet(line.items) \ {None} : WellTyped(m)
    /\ None # "tools/call"
    /\ {MaxLines, MaxChanges} \subseteq Nat

VARIABLES
    db,        \* the committed graph
    changed,   \* changes made by other processes
    sent,      \* the lines written so far
    taken,     \* how many of them the server has read
    items,     \* the messages of the current line that are still to be handled
    out,       \* the answers to the current line
    call,      \* the tool call under way, or Idle
    replies,   \* what the server has written
    pager      \* where the client is in paging through the claims

server == <<taken, items, out, call, replies>>
vars == <<db, changed, sent, server, pager>>

-----------------------------------------------------------------------------
Idle == [at |-> "idle"]

\* The session begins on a project in which some analyses were made.
Init ==
    /\ \E g \in Started :
        db = [artifacts |-> g.artifacts, links |-> {},
              claims |-> [k \in g.claims |-> [status |-> "proposed", confidence |-> 30]]]
    /\ changed = 0
    /\ sent = << >>
    /\ taken = 0
    /\ items = << >> /\ out = << >> /\ call = Idle /\ replies = << >>
    /\ pager = [at |-> "off"]

(* Other processes *)

Citable(k) == k.evidence \subseteq db.artifacts /\ k.subject \in db.artifacts \cup {None}

\* add_claim: a row that is there keeps its status, and the confidence of an
\* attestation never lowers the combined one.
Put(g, k, confidence) ==
    LET old == IF k \in DOMAIN g.claims THEN g.claims[k]
               ELSE [status |-> "proposed", confidence |-> 0]
        row == [old EXCEPT !.confidence = Max({@, confidence})]
    IN  [g EXCEPT !.claims = [j \in DOMAIN @ \cup {k} |-> IF j = k THEN row ELSE @[j]]]

Change(g) ==
    /\ changed < MaxChanges
    /\ g # db
    /\ db' = g
    /\ changed' = changed + 1
    /\ UNCHANGED <<sent, server, pager>>

AddArtifact(a) == Holder[a] \subseteq db.artifacts /\ Change([db EXCEPT !.artifacts = @ \cup {a}])

AddClaim(k, confidence) == Citable(k) /\ Change(Put(db, k, confidence))

LinkClaims(l) ==
    /\ {l[1], l[2]} \subseteq DOMAIN db.claims
    /\ Change([db EXCEPT !.links = @ \cup {l}])

Decide(k) ==
    /\ k \in DOMAIN db.claims
    /\ Change([db EXCEPT !.claims[k].status = "rejected"])

-----------------------------------------------------------------------------
(* The client *)

Write(line) ==
    /\ sent' = Append(sent, line)
    /\ UNCHANGED <<db, changed, server>>

Send ==
    /\ Cardinality({n \in DOMAIN sent : sent[n] \in Lines}) < MaxLines
    /\ \E line \in Lines : Write(line)
    /\ UNCHANGED pager

StartPaging ==
    /\ pager.at = "off"
    /\ pager' = [at |-> "ready", want |-> DOMAIN db.claims, got |-> {}, offset |-> 0]
    /\ UNCHANGED <<db, changed, sent, server>>

PageRequest(offset) ==
    [form |-> "object",
     items |-> <<[current |-> TRUE, named |-> TRUE, method |-> "tools/call", tool |-> "find",
                  args |-> [AllClaims EXCEPT !.offset = offset, !.limit = PageSize]]>>]

RequestPage ==
    /\ pager.at = "ready"
    /\ Write(PageRequest(pager.offset))
    /\ pager' = [at |-> "waiting", id |-> <<Len(sent'), 1>>, want |-> pager.want,
                 got |-> pager.got, offset |-> pager.offset]

\* A page that is not full is the last one; an error ends the paging.
ReceivePage ==
    /\ pager.at = "waiting"
    /\ \E r \in Range(replies) :
        /\ r.id = pager.id
        /\ pager' = IF r.kind # "page" THEN [at |-> "failed"]
                    ELSE [at |-> IF Len(r.body) < PageSize THEN "done" ELSE "ready",
                          want |-> pager.want, got |-> pager.got \cup ToSet(r.body),
                          offset |-> pager.offset + Len(r.body)]
    /\ UNCHANGED <<db, changed, sent, server>>

-----------------------------------------------------------------------------
(* The transport: serve *)

Answer(id, kind, body) == [id |-> id, kind |-> kind, body |-> body]

Ready == items = << >> /\ out = << >> /\ call = Idle

\* One line from stdin, and the number of each of its messages.
ReadLine ==
    /\ Ready
    /\ taken < Len(sent)
    /\ taken' = taken + 1
    /\ LET line == sent[taken']
           numbered == [i \in DOMAIN line.items |-> [msg |-> line.items[i], id |-> <<taken', i>>]]
       IN  IF line.form \in {"garbage", "scalar"}
           THEN out' = <<Answer(None, "error", None)>> /\ UNCHANGED items
           ELSE items' = numbered /\ UNCHANGED out
    /\ UNCHANGED <<db, changed, sent, call, replies, pager>>

\* The answers to a line are written when all of its messages are handled.
Flush ==
    /\ items = << >> /\ call = Idle
    /\ out # << >>
    /\ replies' = replies \o out
    /\ out' = << >>
    /\ UNCHANGED <<db, changed, sent, taken, items, call, pager>>

-----------------------------------------------------------------------------
(* handle_message *)

\* Every message is answered, notifications too.
RespondAlways(m) == <<Answer(m.id, "result", None)>>

\* initialize is the first message of a session, and past.
Served == {"ping", "tools/list", "resources/list", "resources/templates/list", "prompts/list"}

\* The answer to a message that is not a tool call, if one is owed.  Members of
\* a batch that are not objects are skipped.
Respond(m) ==
    IF m.msg = None THEN << >>
    ELSE IF ~ m.msg.current THEN <<Answer(IF m.msg.named THEN m.id ELSE None, "error", None)>>
    ELSE IF m.msg.method = None \/ ~ m.msg.named THEN << >>
    ELSE <<Answer(m.id, IF m.msg.method \in Served THEN "result" ELSE "error", None)>>

IsCall(m) == m.msg # None /\ m.msg.current /\ m.msg.named /\ m.msg.method = "tools/call"

Handle ==
    /\ call = Idle /\ items # << >>
    /\ ~ IsCall(Head(items))
    /\ out' = out \o Respond(Head(items))
    /\ items' = Tail(items)
    /\ UNCHANGED <<db, changed, sent, taken, call, replies, pager>>

StartCall ==
    /\ call = Idle /\ items # << >>
    /\ IsCall(Head(items))
    /\ LET m == Head(items)
       IN  call' = [id |-> m.id, tool |-> m.msg.tool, args |-> m.msg.args, at |-> "start"]
    /\ items' = Tail(items)
    /\ UNCHANGED <<db, changed, sent, taken, out, replies, pager>>

Finish(kind, body) ==
    /\ call' = Idle
    /\ out' = Append(out, Answer(call.id, kind, body))
    /\ UNCHANGED <<changed, sent, taken, items, replies, pager>>

\* The arguments are refused, or anything else is raised (a busy database): a
\* tool error for an UltronError, an internal error for the rest.
FailCall ==
    /\ call # Idle
    /\ \E kind \in {"toolerror", "error"} : Finish(kind, None)
    /\ UNCHANGED db

InCall(tool, at) == call.at = at /\ call.tool = tool

-----------------------------------------------------------------------------
(* Tools *)

FindTool ==
    /\ InCall("find", "start")
    /\ Finish("page", FindClaims(db, call.args))
    /\ UNCHANGED db

\* _find_artifacts: the name of the file, the page, and the number of rows in
\* all, in three queries.
ArtifactsTool ==
    /\ InCall("artifacts", "start")
    /\ LET scope == IF call.args.object = None THEN None ELSE ResolveObject(db, call.args.object)
           q == [kind |-> call.args.kind, object |-> scope, named |-> call.args.named,
                 offset |-> call.args.offset, limit |-> call.args.limit]
       IN  \/ /\ call.args.object # None /\ scope = None
              /\ Finish("toolerror", None)
           \/ /\ call.args.object = None \/ scope # None
              /\ call' = [id |-> call.id, tool |-> "artifacts", args |-> q, at |-> "count",
                          page |-> FindArtifacts(db, q)]
              /\ UNCHANGED <<changed, sent, taken, items, out, replies, pager>>
    /\ UNCHANGED db

ArtifactsAnswer ==
    /\ InCall("artifacts", "count")
    /\ Finish("artifacts", [page |-> call.page, total |-> CountArtifacts(db, call.args)])
    /\ UNCHANGED db

\* _get_claim: the claim, and then its evidence and its links.
ClaimTool ==
    /\ InCall("claim", "start")
    /\ IF call.args \in DOMAIN db.claims
       THEN /\ call' = [call EXCEPT !.at = "evidence"]
            /\ UNCHANGED <<changed, sent, taken, items, out, replies, pager>>
       ELSE Finish("toolerror", None)
    /\ UNCHANGED db

ClaimAnswer ==
    /\ InCall("claim", "evidence")
    /\ Finish("claim", [missing |-> call.args.evidence \ db.artifacts,
                        links |-> LinksOf(db, call.args)])
    /\ UNCHANGED db

\* neighbors starts at one node.  What was there then is remembered for the
\* properties.
NeighborsTool ==
    /\ InCall("neighbors", "start")
    /\ LET root == call.args.node
       IN  call' = [id |-> call.id, tool |-> "neighbors", args |-> call.args, at |-> "round",
                    round |-> 1, todo |-> {root}, node |-> root, query |-> 1, next |-> {},
                    seen |-> {root}, edges |-> {}, nodes |-> {}, had |-> db]
    /\ UNCHANGED <<db, changed, sent, taken, items, out, replies, pager>>

\* A round asks for the edges of each node the last one found, in queries that
\* other commits may separate; the ends not seen are for the next round, up to
\* the limit.
WalkQuery ==
    /\ InCall("neighbors", "round")
    /\ \E n \in call.todo :
        /\ call.query = 1 \/ n = call.node
        /\ \E rows \in RowsOf(db, n, call.query) :
            \E added \in AtMost(Clamp(call.args.limit) - Cardinality(call.seen),
                              Ends(rows) \ call.seen) :
                call' = [call EXCEPT !.node = n,
                                     !.query = IF @ = 3 THEN 1 ELSE @ + 1,
                                     !.todo = IF call.query = 3 THEN @ \ {n} ELSE @,
                                     !.next = @ \cup added,
                                     !.seen = @ \cup added,
                                     !.edges = @ \cup rows]
    /\ UNCHANGED <<db, changed, sent, taken, items, out, replies, pager>>

\* The next round, unless it was the last or found nothing; then the nodes
\* are read.
WalkRound ==
    /\ InCall("neighbors", "round") /\ call.todo = {}
    /\ call' = IF call.next = {} \/ call.round = Rounds(call.args.depth)
               THEN [call EXCEPT !.at = "nodes", !.todo = call.seen, !.next = {}]
               ELSE [call EXCEPT !.round = @ + 1, !.todo = call.next, !.next = {}]
    /\ UNCHANGED <<db, changed, sent, taken, items, out, replies, pager>>

\* One node, in the order of their ids; one that is not there is left out.
WalkNode ==
    /\ InCall("neighbors", "nodes") /\ call.todo # {}
    /\ LET n == CHOOSE m \in call.todo : TRUE
       IN  call' = [call EXCEPT !.todo = @ \ {n}, !.nodes = @ \cup ({n} \cap Nodes(db))]
    /\ UNCHANGED <<db, changed, sent, taken, items, out, replies, pager>>

WalkAnswer ==
    /\ InCall("neighbors", "nodes") /\ call.todo = {}
    /\ Finish("walk", [args |-> call.args, nodes |-> call.nodes, edges |-> call.edges,
                       had |-> call.had])
    /\ UNCHANGED db

\* _submit_claim: the run, and the answer with the claim as it is stored then.
SubmitTool ==
    /\ InCall("submit", "start")
    /\ call.args \in Submitted /\ Citable(call.args)
    /\ db' = Put(db, call.args, 50)
    /\ call' = [call EXCEPT !.at = "stored"]
    /\ UNCHANGED <<changed, sent, taken, items, out, replies, pager>>

SubmitAnswer ==
    /\ InCall("submit", "stored")
    /\ Finish("stored", [says |-> "proposed", stored |-> db.claims[call.args].status])
    /\ UNCHANGED db

\* ask: the type of the question and the file it is about; a question that is
\* not understood is declined.
AskTool ==
    /\ InCall("ask", "start")
    /\ LET type == Classify(call.args.question)
           scope == IF call.args.object = None THEN None ELSE ResolveObject(db, call.args.object)
       IN  \/ /\ call.args.object # None /\ scope = None
              /\ Finish("toolerror", None)
           \/ /\ call.args.object = None \/ scope # None
              /\ type = None
              /\ Finish("declined", None)
           \/ /\ call.args.object = None \/ scope # None
              /\ type # None
              /\ call' = [id |-> call.id, tool |-> "ask", at |-> "collect", type |-> type,
                          scope |-> scope, todo |-> Predicates[type], findings |-> << >>,
                          full |-> FALSE, had |-> DOMAIN db.claims]
              /\ UNCHANGED <<changed, sent, taken, items, out, replies, pager>>
    /\ UNCHANGED db

\* The first predicate answers for all.
RestOfNone(todo) == << >>

Rest(todo) == Tail(todo)

\* _collect: one query for each predicate, which other commits may separate.
\* A finding keeps the confidence it was read with.
AskCollect ==
    /\ InCall("ask", "collect")
    /\ call.todo # << >>
    /\ LET q == [AllClaims EXCEPT !.predicate = Head(call.todo), !.subject = call.scope,
                                  !.limit = AskLimit]
           page == FindClaims(db, q)
           Read(findings) ==
               [k \in DOMAIN findings \cup ToSet(page) |->
                   IF k \in DOMAIN findings THEN findings[k] ELSE db.claims[k].confidence]
       IN  call' = [call EXCEPT !.todo = Rest(@), !.findings = Read(@),
                                !.full = @ \/ Len(page) = AskLimit]
    /\ UNCHANGED <<db, changed, sent, taken, items, out, replies, pager>>

\* The answer, which validate_answer refuses if it has an uncited sentence.
AskAnswer ==
    /\ InCall("ask", "collect")
    /\ call.todo = << >>
    /\ LET findings == DOMAIN call.findings
           strongest == CHOOSE k \in findings :
                            \A j \in findings : call.findings[j] <= call.findings[k]
           lines == Summarize(call.type, findings, strongest)
       IN  IF ValidAnswer(lines, findings)
           THEN Finish("answer", [type |-> call.type, scope |-> call.scope, lines |-> lines,
                                  full |-> call.full, had |-> call.had])
           ELSE Finish("uncited", None)
    /\ UNCHANGED db

Next ==
    \/ \E a \in Artifacts : AddArtifact(a)
    \/ \E k \in Claims : AddClaim(k, 90)
    \/ \E l \in Refinements : LinkClaims(l)
    \/ \E k \in Claims : Decide(k)
    \/ Send
    \/ StartPaging \/ RequestPage \/ ReceivePage
    \/ ReadLine \/ Handle \/ StartCall \/ FailCall \/ Flush
    \/ FindTool \/ ArtifactsTool \/ ArtifactsAnswer \/ ClaimTool \/ ClaimAnswer
    \/ NeighborsTool \/ WalkQuery \/ WalkRound \/ WalkNode \/ WalkAnswer
    \/ SubmitTool \/ SubmitAnswer
    \/ AskTool \/ AskCollect \/ AskAnswer

Spec == Init /\ [][Next]_vars

-----------------------------------------------------------------------------
(* Properties *)

\* The ids of the answers JSON-RPC owes for the n-th line: none for a response
\* or a notification, one for a request, one without an id for what is no
\* message at all.
OwedFor(n, i) ==
    LET m == sent[n].items[i]
    IN  IF m = None THEN << >>
        ELSE IF ~ m.current THEN <<IF m.named THEN <<n, i>> ELSE None>>
        ELSE IF m.method # None /\ m.named THEN <<<<n, i>>>> ELSE << >>

Owed(n) ==
    IF sent[n].form \in {"garbage", "scalar"} THEN <<None>>
    ELSE FlattenSeq([i \in DOMAIN sent[n].items |-> OwedFor(n, i)])

\* The server answers what it owes and nothing else, in the order of the
\* requests, whatever its tools raise; when it waits for input it owes nothing.
AnsweredInOrder ==
    LET ids == [i \in DOMAIN replies |-> replies[i].id]
        owed == FlattenSeq([n \in 1..taken |-> Owed(n)])
    IN  IsPrefix(ids, owed) /\ (Ready => ids = owed)

\* A client that pages through the claims until a page is not full has seen
\* every claim that was there when it began, whatever was committed, decided
\* or believed more strongly between its requests.
PagesMissNothing == pager.at = "done" => pager.want \subseteq pager.got

InScope(k, a) == k.predicate \in ToSet(Predicates[a.type]) /\ a.scope \in {None, k.subject}

\* Answers are founded: no answer has to be refused for want of citations, a
\* sentence cites committed claims on the question's subject, that nothing was
\* found is said only if nothing was there when the question was asked, and
\* otherwise all that was there is cited, unless a page was full.  The same of
\* what a tool puts together from several queries: a page of artifacts is part
\* of the total it comes with, and no evidence of a claim is missing.
AnswersAreFounded ==
    \A r \in ToSet(replies) :
        /\ r.kind # "uncited"
        /\ r.kind = "artifacts" => Len(r.body.page) <= r.body.total
        /\ r.kind = "claim" => r.body.missing = {}
        /\ r.kind = "answer" =>
            LET a == r.body
                cited == UNION {l.cites : l \in a.lines}
            IN  /\ \A k \in cited : k \in DOMAIN db.claims /\ InScope(k, a)
                /\ IF \E l \in a.lines : l.caveat
                   THEN \A k \in a.had : InScope(k, a) => k.predicate # Predicates[a.type][1]
                   ELSE a.full \/ \A k \in a.had : InScope(k, a) => k \in cited

\* A walk of the graph answers with what is as near as was asked for, one edge
\* away at least, and with edges that start or end there, however the graph
\* grows between its queries.  It answers with all that was as near when it
\* began, unless that is now more than the limit, or a query on the way had
\* more rows than EdgeLimit.
NeighborsAreNear ==
    \A r \in ToSet(out) \cup ToSet(replies) : r.kind = "walk" =>
        LET a == r.body
            root == a.args.node
            R == Max({1, a.args.depth})
            near == Within(db, root, R)
        IN  /\ a.nodes \subseteq near[R]
            /\ \A e \in a.edges : {e[1], e[2]} \cap (a.nodes \cup {root}) # {}
            /\ \/ Cardinality(near[R]) > Clamp(a.args.limit)
               \/ \E n \in near[R - 1] : Crowded(db, n)
               \/ Within(a.had, root, R)[R] \cap Nodes(a.had) \subseteq a.nodes
=============================================================================
