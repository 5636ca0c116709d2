----------------------------- MODULE McpServer -----------------------------
(***************************************************************************)
(* The MCP server (internal/mcp/server.go) over the Sleeper client that it *)
(* shares with the syncs: JSON-RPC requests on several connections, each   *)
(* with a write timeout shorter than a fetch and a client that may hang    *)
(* up, which cancels the calls made for it.                                *)
(***************************************************************************)
EXTENDS SleeperCache

CONSTANTS
    Conns,          \* connections, the callers that serve MCP requests
    Requests,       \* the requests clients send
    Steps           \* steps registered with the scheduler

\* A request is [method, tool, args, step]; "bad" stands for a body that does
\* not parse and "other" for an unknown method.
ASSUME McpAssumption ==
    /\ Conns \subseteq Callers
    /\ \A r \in Requests : r.method \in {"bad", "initialize", "tools/list", "tools/call", "other"}

VARIABLE
    serving    \* serving[c]: what the request on connection c has come to

vars == <<cacheVars, serving>>

\* The registered tools: the required arguments, whether the schema lists them
\* as a []string (anything else is not enforced), and what the handler uses.
Tool(name, needs, listed, uses) ==
    [name |-> name, needs |-> needs, listed |-> listed, uses |-> uses]

NewsTools ==
    {Tool("search_news", {"query"}, TRUE, "db"), Tool("get_stories", {}, TRUE, "db"),
     Tool("search_facts", {"query"}, TRUE, "db"), Tool("get_recent_news", {}, TRUE, "db")}
PlayerTools ==
    {Tool("search_players", {"query"}, TRUE, "db"), Tool("get_player", {"player_id"}, TRUE, "db"),
     Tool("get_rankings", {}, TRUE, "db"), Tool("get_trending_players", {}, TRUE, "sleeper"),
     Tool("get_free_agents", {"league_id"}, TRUE, "sleeper+db")}
TeamTools ==
    {Tool("get_nfl_state", {}, TRUE, "sleeper"),
     Tool("evaluate_roster", {"league_id"}, TRUE, "sleeper+db"),
     Tool("evaluate_trade", {"give", "get"}, TRUE, "db")}
SleeperTools ==
    {Tool("get_user_info", {"username_or_user_id"}, FALSE, "sleeper"),
     Tool("get_user_leagues", {"user_id"}, FALSE, "sleeper"),
     Tool("get_league_matchups", {"league_id", "week"}, FALSE, "sleeper"),
     Tool("get_league_transactions", {"league_id", "week"}, FALSE, "sleeper")}
    \cup {Tool(name, {"league_id"}, FALSE, "sleeper") :
             name \in {"get_league_info", "get_league_rosters", "get_league_users",
                       "get_league_drafts", "get_league_traded_picks"}}
LeaguemateTools ==
    {Tool("leaguemate_overlap", {"player_id"}, FALSE, "db"),
     Tool("manager_profile", {"username"}, FALSE, "db"),
     Tool("player_trade_value", {"player_id"}, FALSE, "db")}
ControlTools ==
    {Tool("get_study_material", {}, TRUE, "db"), Tool("trigger_pipeline", {"step"}, TRUE, "trigger")}
Tools == UNION {NewsTools, PlayerTools, TeamTools, SleeperTools, LeaguemateTools, ControlTools}

Idle == [pc |-> "idle", uses |-> "", step |-> "", gone |-> FALSE, reply |-> ""]

Init ==
    /\ CacheInit
    /\ serving = [c \in Conns |-> Idle]

\* The handler is over; the reply is a result, a result with isError set, or a
\* JSON-RPC error.
Replied(kind) == [Idle EXCEPT !.pc = "reply", !.reply = kind]

\* missingRequired: only a []string is looked at.
Missing(tool, args) == IF tool.listed THEN tool.needs \ args ELSE {}

\* handleMCP up to the handler: an error reply, an immediate result, or the
\* handler is called.
Dispatch(c, r) ==
    LET called(tool) ==
            IF Missing(tool, r.args) # {} THEN Replied("error")
            ELSE [Idle EXCEPT !.pc = "handler", !.uses = tool.uses, !.step = r.step] IN
    /\ serving[c].pc = "idle"
    /\ serving' = [serving EXCEPT ![c] =
          CASE r.method \in {"initialize", "tools/list"} -> Replied("result")
            [] r.method = "tools/call" /\ \E t \in Tools : t.name = r.tool ->
                 called(CHOOSE t \in Tools : t.name = r.tool)
            [] OTHER -> Replied("error")]
    /\ UNCHANGED cacheVars

\* Handlers over the query service: rows, or an error that becomes the text of
\* an isError result.
QueryDatabase(c) ==
    /\ \/ serving[c].pc = "handler" /\ serving[c].uses = "db"
       \/ serving[c].pc = "db"
    /\ \E kind \in {"result", "isError"} :
          serving' = [serving EXCEPT ![c] = Replied(kind)]
    /\ UNCHANGED cacheVars

\* Handlers that call Sleeper, for a page the arguments select.
CallSleeper(c) ==
    /\ serving[c].pc = "handler" /\ serving[c].uses \in {"sleeper", "sleeper+db"}
    /\ \E p \in Paths : Ask(c, p)
    /\ serving' = [serving EXCEPT ![c].pc = "waiting"]

\* The client returned; GetFreeAgents and EvaluateRoster go on to the database.
SleeperReturns(c) ==
    /\ serving[c].pc = "waiting" /\ call[c].pc = "ended"
    /\ serving' = [serving EXCEPT ![c] =
          IF call[c].v = 0 THEN Replied("isError")
          ELSE IF @.uses = "sleeper" THEN Replied("result")
          ELSE [@ EXCEPT !.pc = "db"]]
    /\ Return(c)

\* trigger_pipeline: TriggerStep refuses a cancelled request and an unknown
\* step; otherwise the run starts (Scheduler.TriggerStep) and is not waited for.
TriggerPipeline(c) ==
    LET s == serving[c] ok == ~s.gone /\ s.step \in Steps IN
    /\ s.pc = "handler" /\ s.uses = "trigger"
    /\ serving' = [serving EXCEPT ![c] = Replied(IF ok THEN "result" ELSE "isError")]
    /\ UNCHANGED cacheVars

\* The reply is written, or is lost: the client hung up or the write timeout
\* has passed.  Either way the connection is free.
Reply(c) ==
    /\ serving[c].pc = "reply"
    /\ serving' = [serving EXCEPT ![c] = Idle]
    /\ UNCHANGED cacheVars

\* The client hangs up, which cancels the request's context.
HangUp(c) ==
    /\ serving[c].pc \in {"handler", "waiting"} /\ ~serving[c].gone
    /\ serving' = [serving EXCEPT ![c].gone = TRUE]
    /\ UNCHANGED cacheVars

\* Once cancelled, a request is not answered by Sleeper any more.
Cancelled(c) == c \in Conns /\ serving[c].gone

ClientStep(c) ==
    \/ Copy(c) \/ Evict(c) \/ AttemptFails(c) \/ Retry(c) \/ DecodeFails(c) \/ Store(c)
    \/ ~Cancelled(c) /\ Respond(c)
    \/ c \notin Conns /\ Return(c)

\* A sync calls the client directly.
SyncCalls(c) == c \notin Conns /\ \E p \in Paths : Ask(c, p)

ServerStep(c) ==
    \/ QueryDatabase(c) \/ CallSleeper(c) \/ SleeperReturns(c)
    \/ TriggerPipeline(c) \/ Reply(c)

Next ==
    \/ \E c \in Callers : (ClientStep(c) \/ SyncCalls(c)) /\ UNCHANGED serving
    \/ \E c \in Conns : ServerStep(c) \/ HangUp(c) \/ \E r \in Requests : Dispatch(c, r)
    \/ (Tick \/ \E p \in Paths : Publish(p)) /\ UNCHANGED serving

\* Every goroutine goes on: a request to Sleeper is answered or times out.
Fairness ==
    /\ \A c \in Callers : WF_vars(ClientStep(c) /\ UNCHANGED serving)
    /\ \A c \in Conns : WF_vars(ServerStep(c))

Spec == Init /\ [][Next]_vars /\ Fairness

-----------------------------------------------------------------------------
\* Type invariant: a connection waits exactly while a call is made for it.
TypeOK ==
    /\ CacheTypeOK
    /\ \A c \in Conns :
         /\ serving[c].pc \in {"idle", "handler", "waiting", "db", "reply"}
         /\ serving[c].reply \in {"", "result", "isError", "error"}
         /\ serving[c].pc = "reply" <=> serving[c].reply # ""
         /\ serving[c].pc = "waiting" <=> call[c].pc # "idle"

\* Every request ends, with a reply or a lost one, however often the client
\* hangs up and the fetch made for it fails.
RequestsEnd == \A c \in Conns : serving[c].pc # "idle" ~> serving[c].pc = "idle"
=============================================================================
