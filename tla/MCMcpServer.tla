---------------------------- MODULE MCMcpServer ----------------------------
\* One connection and one sync share the client; the requests reach each kind
\* of reply and of handler.
EXTENDS McpServer

Request(method, tool, args, step) == [method |-> method, tool |-> tool, args |-> args, step |-> step]
MCRequests ==
    {Request("bad", "", {}, ""), Request("initialize", "", {}, ""),
     Request("tools/call", "no_such_tool", {}, ""),
     Request("tools/call", "get_player", {}, ""),
     Request("tools/call", "get_player", {"player_id"}, ""),
     Request("tools/call", "get_league_rosters", {"league_id"}, ""),
     Request("tools/call", "evaluate_roster", {"league_id"}, ""),
     Request("tools/call", "trigger_pipeline", {"step"}, "enrich"),
     Request("tools/call", "trigger_pipeline", {"step"}, "no_such_step")}
=============================================================================
