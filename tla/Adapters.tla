-------------------------------- MODULE Adapters -------------------------------
(***************************************************************************)
(* The two ways to the service.  REST asks it at once; MCP first looks up   *)
(* what the policy of the caller's context lets it do at all, to list the  *)
(* tools and to refuse the others.  Each step takes the configuration      *)
(* anew, which may have been reloaded since.  One call is followed.        *)
(***************************************************************************)
EXTENDS Access, Sequences

CONSTANTS Setups, \* configurations: [sources, tokens, contexts], by adapter the files with
                  \* their token in the order in which they count, the contexts of their
                  \* names, and the rules to read, create and edit of the contexts
          Calls,  \* [via, token, method, tool, args, raw, file]
          Files   \* notes as in Access: the one that exists, or that is to be created

VARIABLES
  setup, \* the configuration in effect
  call   \* the call, who it comes from, and how far it is

adapterVars == <<setup, call>>

\* The tools and the right that each of them needs; those of REST are the same.
Needs == [get_vault_file |-> "read", query_notes |-> "read",
          create_vault_file |-> "create", edit_vault_file |-> "edit"]
Tools == DOMAIN Needs
NoAsk == [via |-> "none"]

ASSUME SetupsAssumption ==
  \A s \in Setups : \A via \in {"mcp", "rest"} : DOMAIN s.sources[via] \subseteq Nat
ASSUME CallsAssumption ==
  \A ask \in Calls :
    /\ \/ ask.via = "rest" /\ ask.method = "rest" /\ ask.tool \in Tools
       \/ ask.via = "mcp" /\ ask.method \in {"plain", "list", "call", "resource"}
    /\ ask.file \in Files

Reached(ask, pc, who, context) ==
  [pc |-> pc, ask |-> ask, who |-> who, context |-> context, answer |-> "none", shown |-> {},
   changed |-> FALSE, first |-> setup, met |-> {setup}]

AdapterInit == setup \in Setups /\ call = Reached(NoAsk, "idle", Nobody, "none")

\* A reload, or an edit of the files with the tokens.
ReloadSetup ==
  /\ setup' \in Setups \ {setup}
  /\ call' = IF call.pc = "done" THEN call
             ELSE [call EXCEPT !.met = IF call.pc = "idle" THEN {setup'} ELSE @ \cup {setup'},
                               !.first = IF call.pc = "idle" THEN setup' ELSE @]

Ends(answer) == call' = [call EXCEPT !.pc = "done", !.answer = answer]
Shows(tools) == call' = [call EXCEPT !.pc = "done", !.answer = "shown", !.shown = tools]
Goes(pc) == call' = [call EXCEPT !.pc = pc]

-----------------------------------------------------------------------------
(* Who is calling.                                                          *)

\* The files that count, by their place: those whose name the configuration
\* knows, and of those with the same token the first.
Known(via, k) == setup.sources[via][k].name \in DOMAIN setup.tokens[via]
Expected(via) ==
  {k \in DOMAIN setup.sources[via] :
     /\ Known(via, k)
     /\ \A l \in DOMAIN setup.sources[via] :
          l < k /\ Known(via, l) => setup.sources[via][l].token # setup.sources[via][k].token}

(* Mutant of Caller: the file with the token counts, known or not.          *)
CallerOfToken(via, token) ==
  LET all == setup.sources[via]
      held == {k \in DOMAIN all : all[k].token = token}
      first == {k \in held : \A l \in held : k <= l}
  IN {all[k].name : k \in {l \in first : all[l].name \in DOMAIN setup.tokens[via]}}

\* The name of the caller, if the token is expected.
Caller(via, token) ==
  {setup.sources[via][k].name : k \in {l \in Expected(via) : setup.sources[via][l].token = token}}

\* An edit first brings the file up to date, if the caller may read it.
ServiceStep(tool) == IF tool = "edit_vault_file" THEN "refresh" ELSE "decide"

(* mcp_endpoint: what answers itself, what needs the policy, and a file     *)
(* that is read as a resource, which no list of tools stands before, unless *)
(* the URI names none.                                                      *)
McpStep(ask) ==
  CASE ask.method = "plain" -> "itself" [] ask.method \in {"list", "call"} -> "discover"
    [] ask.method = "resource" -> IF ask.args = "bad" THEN "itself" ELSE ServiceStep("get_vault_file")

\* REST cuts limits to what is allowed, and asks.
RestStep(ask) == IF ask.args = "bad" THEN "itself" ELSE ServiceStep(ask.tool)

Arrive(ask) ==
  /\ call.pc = "idle"
  /\ LET names == Caller(ask.via, ask.token)
         name == CHOOSE n \in names : TRUE
         pc == IF ask.via = "rest" THEN RestStep(ask) ELSE McpStep(ask)
     IN call' = IF names = {}
                THEN [Reached(ask, "done", Nobody, "none") EXCEPT !.answer = "unauthorized"]
                ELSE Reached(ask, pc, <<ask.via, name>>, setup.tokens[ask.via][name])
  /\ UNCHANGED setup

AnswerItself ==
  /\ call.pc = "itself"
  /\ Ends(IF call.ask.args = "bad" THEN "invalid" ELSE "answered")
  /\ UNCHANGED setup

-----------------------------------------------------------------------------
(* The policy of the context: what it lets the caller do at all.            *)

Rules(s, context, right) ==
  IF context \in DOMAIN s.contexts THEN s.contexts[context][right] ELSE {}

(* Mutant of Discoverable: any rule that denies takes the right away.       *)
DiscoverableUndenied(rules) == (\A r \in rules : r.allow) /\ \E r \in rules : r.allow

\* operation_has_discoverable_allow
Discoverable(rules) ==
  /\ ~ \E r \in rules : ~ r.allow /\ r.matcher.default
  /\ \E r \in rules : r.allow

AvailableTools == {tool \in Tools : Discoverable(Rules(setup, call.context, Needs[tool]))}

\* Of a context that is missing, the store is asked once more.
Discover ==
  /\ call.pc \in {"discover", "discoverAgain"}
  /\ IF call.pc = "discover" /\ call.context \notin DOMAIN setup.contexts THEN Goes("discoverAgain")
     ELSE IF call.ask.method = "list" THEN Shows(AvailableTools)
     ELSE IF call.ask.tool \notin Tools THEN Ends("unknown")
     ELSE IF call.ask.tool \notin AvailableTools THEN Ends("unavailable")
     ELSE IF call.ask.args # "good" THEN Ends("invalid")
     ELSE Goes(ServiceStep(call.ask.tool))
  /\ UNCHANGED setup

-----------------------------------------------------------------------------
(* The service decides.                                                     *)

\* Of the rules that allow it, none if it is denied or the context is gone.
Granting(c, s, right, file) == Allowing(Rules(s, c.context, right), file, c.who)

Refresh ==
  /\ call.pc = "refresh"
  /\ IF Granting(call, setup, "read", call.ask.file) = {} THEN Ends("notFound") ELSE Goes("decide")
  /\ UNCHANGED setup

\* A new file has to be allowed as it is asked for and as the rules make it.
Permits(c, s, tool, file) ==
  LET granting == Granting(c, s, Needs[tool], file) IN
  CASE tool = "query_notes" -> TRUE
    [] tool \in {"get_vault_file", "edit_vault_file"} -> granting # {}
    [] tool = "create_vault_file" ->
         granting # {} /\ Granting(c, s, "create", Prepared(file, granting, c.who)) # {}

ToolOf(ask) == IF ask.method = "resource" THEN "get_vault_file" ELSE ask.tool

\* sanitize_tool_response: only now MCP looks at the flag "raw" of a tool.
Decide ==
  /\ call.pc = "decide"
  /\ LET tool == ToolOf(call.ask)
         changes == tool \in {"create_vault_file", "edit_vault_file"}
     IN IF ~ Permits(call, setup, tool, call.ask.file)
        THEN Ends(IF changes THEN "denied" ELSE "notFound")
        ELSE call' = [call EXCEPT
               !.pc = "done", !.changed = changes,
               !.shown = IF tool = "query_notes" THEN {f \in Files : Granting(call, setup, "read", f) # {}}
                         ELSE {call.ask.file},
               !.answer = IF call.ask.method = "call" /\ call.ask.raw = "wrong" THEN "invalid" ELSE "answered"]
  /\ UNCHANGED setup

AdapterNext ==
  \/ ReloadSetup \/ AnswerItself \/ Discover \/ Refresh \/ Decide
  \/ \E ask \in Calls : Arrive(ask)

-----------------------------------------------------------------------------
AdapterSpec == AdapterInit /\ [][AdapterNext]_adapterVars

-----------------------------------------------------------------------------
(* Every right that the tool takes, by a configuration s.  REST answers a   *)
(* query of a caller who may read nothing with nothing, MCP not at all.     *)
Granted(c, s, tool, file) ==
  /\ Permits(c, s, tool, file)
  /\ tool = "edit_vault_file" => Granting(c, s, "read", file) # {}
  /\ tool = "query_notes" /\ c.ask.via = "mcp" =>
       /\ \E r \in Rules(s, c.context, "read") : r.allow
       /\ ~ \E r \in Rules(s, c.context, "read") : ~ r.allow /\ r.matcher.default

(* What MCP may not offer: no file, whatever it is, would be granted.       *)
Hopeless(c, s, tool) ==
  tool \in Tools => \A f \in Files : Granting(c, s, Needs[tool], f) = {}

\* The files with the token of the call whose name the configuration knows.
Holders(s, ask) ==
  {k \in DOMAIN s.sources[ask.via] : /\ s.sources[ask.via][k].token = ask.token
                                     /\ s.sources[ask.via][k].name \in DOMAIN s.tokens[ask.via]}

\* The caller is one of them, and has its context.
Named(c) ==
  \E k \in Holders(c.first, c.ask) :
    LET name == c.first.sources[c.ask.via][k].name
    IN c.who = <<c.ask.via, name>> /\ c.context = c.first.tokens[c.ask.via][name]

(* A call is answered as the token and the policy say, whenever the files   *)
(* and the configuration change on its way.  Nothing is changed or shown    *)
(* that none of the policies it met allows; a tool that MCP keeps from a    *)
(* caller would have been of no use to it under one of them (mcp.rs:843);   *)
(* and as long as nothing is reloaded, MCP and REST grant the same.  An     *)
(* answer that the arguments are invalid means that nothing was done,       *)
(* except for "raw", which is looked at when it is done (mcp.rs:1247).      *)
CallsAreAdmitted ==
  LET ask == call.ask
      known == Holders(call.first, ask) # {}
      tool == ToolOf(ask)
  IN call.pc = "done" =>
     /\ call.answer = "unauthorized" <=> ~ known
     /\ known => Named(call)
     /\ call.changed => \E s \in call.met : Permits(call, s, tool, ask.file)
     /\ ask.method \in {"call", "resource", "rest"} =>
          \A f \in call.shown : \E s \in call.met : Granting(call, s, Needs[tool], f) # {}
     /\ call.answer = "unavailable" => \E s \in call.met : Hopeless(call, s, tool)
     /\ call.answer = "invalid" /\ call.changed => ask.raw = "wrong"
     /\ call.met = {call.first} /\ known =>
          /\ call.answer = "answered" /\ ask.method # "plain" => Granted(call, call.first, tool, ask.file)
          /\ ask.method \in {"call", "rest"} /\ ask.args = "good" /\ ask.raw # "wrong" /\ tool \in Tools =>
               (Granted(call, call.first, tool, ask.file) => call.answer = "answered")
          /\ ask.method = "list" => \A t \in Tools \ call.shown : Hopeless(call, call.first, t)
=============================================================================
