-------------------------- MODULE CapabilityAnalysis --------------------------
(***************************************************************************)
(* From what a source says of its skills, servers and tools to what the    *)
(* console says of a session: the observers cut their answers to names,    *)
(* the events are appended to the artifact of the session, every event is  *)
(* projected to the capabilities it shows, and the diagnostics compare the *)
(* events that show some.  A JSON value carries the tag of its type; a     *)
(* text is the sequence of its lines, "" for a blank one.                  *)
(***************************************************************************)
EXTENDS Naturals, Sequences, FiniteSets, SequencesExt

CONSTANTS
  Catalogs,     \* answers to skills/list: a sequence of skills for every cwd
  ServerSets,   \* sets of mcp servers
  ToolSets,     \* sets of tools
  Texts,        \* texts of messages
  Lower,        \* name -> the name in lower case
  Preview,      \* how many skills the codex observer takes
  Radix,        \* the base event ids are written in
  MaxEvents, MaxTime

VARIABLES
  source,  \* what the session is recorded from
  clock,
  log      \* the events of the artifact; "shows" is history: what was so

vars == <<source, clock, log>>

Str(s) == [t |-> "str", v |-> s]
Text(ls) == [t |-> "text", v |-> ls]
Arr(s) == [t |-> "arr", v |-> s]
Obj(f) == [t |-> "obj", v |-> f]
Null == [t |-> "null", v |-> <<>>]
Names(S) == Arr([i \in DOMAIN SetToSeq(S) |-> Str(SetToSeq(S)[i])])
Has(j, k) == j.t = "obj" /\ k \in DOMAIN j.v
HasStr(j, k) == Has(j, k) /\ j.v[k].t = "str"

NamingKeys == <<"name", "id", "title", "label", "slug">>
\* The name an object gives itself, under the first key that holds a string.
OwnName(j) == {j.v[NamingKeys[i]].v :
  i \in {i \in DOMAIN NamingKeys : /\ HasStr(j, NamingKeys[i])
                                   /\ \A h \in 1 .. i - 1 : ~HasStr(j, NamingKeys[h])}}

-----------------------------------------------------------------------------
(* What the observers make of an answer.                                   *)

FirstOf(s, n) == SubSeq(s, 1, IF Len(s) < n THEN Len(s) ELSE n)

SkillsAnswer(c) ==
  Obj([data |-> Arr([i \in DOMAIN c |-> Obj([skills |->
        Arr([n \in DOMAIN c[i] |-> Obj([name |-> Str(c[i][n])])])])])])

\* summarize_capability_payload for skills/list: the skills of all cwds in turn,
\* of which the first are kept.
CodexSkills(answer) ==
  LET lists == [i \in DOMAIN answer.v.data.v |-> answer.v.data.v[i].v.skills.v]
      all == FlattenSeq(lists)
  IN  Obj([method |-> Str("skills/list"),
           skill_names_preview |-> Arr([i \in DOMAIN FirstOf(all, Preview) |-> all[i].v.name])])

RECURSIVE CollectCapabilityNames(_, _)
\* capability_names_from_value of the opencode observer; the names of a map are
\* its keys.
CollectCapabilityNames(j, keys) ==
  CASE j.t = "str" -> {j.v}
    [] j.t = "arr" -> UNION {CollectCapabilityNames(j.v[i], keys) : i \in DOMAIN j.v}
    [] j.t = "obj" ->
         IF OwnName(j) # {} THEN OwnName(j)
         ELSE IF DOMAIN j.v \cap keys # {}
              THEN UNION {CollectCapabilityNames(j.v[k], keys) : k \in DOMAIN j.v \cap keys}
              ELSE {k \in DOMAIN j.v : j.v[k].t \in {"obj", "arr"}}
    [] OTHER -> {}

McpAnswer(S) == Obj([s \in S |-> Obj([status |-> Str("connected")])])

OpencodeMcp(payload) ==
  Obj([method |-> Str("GET /mcp"), source |-> payload, mcp_server_names_preview |->
        Names(CollectCapabilityNames(payload, {"mcp", "servers", "data", "all"}))])

OpencodeTools(payload) ==
  Obj([method |-> Str("GET /experimental/tool/ids"), source |-> payload, tools |->
        Names(CollectCapabilityNames(payload, {"tools", "ids", "data", "all"}))])

-----------------------------------------------------------------------------
(* Events as the read model loads them: what was recorded, and the detail. *)

Event(kind, raw, detail, shows) ==
  [line |-> Len(log) + 1, at |-> clock', kind |-> kind, raw |-> raw, detail |-> detail,
   shows |-> shows]

\* The detail of an observer event is its line in the artifact.
ObserverLine(kind, raw) ==
  Obj([record_type |-> Str("event"), event_kind |-> Str(kind), raw_json |-> raw])

RolloutLine(payload) == Obj([type |-> Str("response_item"), payload |-> payload])

RolloutDetail(line) ==
  LET payload == line.v.payload IN
  CASE payload.v.type.v = "message" ->
         Obj([kind |-> Str("message"), role |-> payload.v.role, full_text |-> payload.v.text])
    [] payload.v.type.v = "function_call" ->
         Obj([kind |-> Str("tool_call"), tool_name |-> payload.v.name])
    [] OTHER -> Obj([kind |-> Str("tool_result"), output_text |-> payload.v.output])

-----------------------------------------------------------------------------
(* project_event_capabilities.                                             *)

KnownKeys(kind) ==
  CASE kind = "skill" -> {"skill_names_preview", "skill_names", "skills", "capabilities"}
    [] kind = "mcp" -> {"mcp_server_names_preview", "mcp_server_names", "mcp_servers", "mcp",
                        "servers", "capabilities"}
    [] OTHER -> {}

Wrappers == {"result", "params", "payload", "raw_json", "detail"}

RECURSIVE NamesIn(_)
NamesIn(j) ==
  CASE j.t = "str" -> {j.v}
    [] j.t = "arr" -> UNION {NamesIn(j.v[i]) : i \in DOMAIN j.v}
    [] j.t = "obj" -> IF OwnName(j) # {} THEN OwnName(j)
                      ELSE UNION {NamesIn(j.v[k]) : k \in DOMAIN j.v}
    [] OTHER -> {}

RECURSIVE NamesUnder(_, _)
NamesUnder(j, keys) ==
  CASE j.t = "arr" -> UNION {NamesUnder(j.v[i], keys) : i \in DOMAIN j.v}
    [] j.t = "obj" -> UNION {NamesIn(j.v[k]) : k \in DOMAIN j.v \cap keys}
                      \cup UNION {NamesUnder(j.v[k], keys) : k \in DOMAIN j.v \cap Wrappers}
    [] OTHER -> {}

NormalType(type) == IF type \in {"function_call", ""} THEN "tool" ELSE type
TypeIn(j, default) == NormalType(IF HasStr(j, "type") THEN j.v.type.v ELSE default)
ToolKeys == {"tools", "functions", "final_tools_json", "payload", "detail"}

RECURSIVE ToolEntries(_)
\* The pairs of type and name, for one of the forms an entry may have.
ToolEntries(j) ==
  CASE j.t = "str" -> {<<"tool", j.v>>}
    [] j.t = "arr" -> UNION {ToolEntries(j.v[i]) : i \in DOMAIN j.v}
    [] j.t = "obj" ->
         IF Has(j, "function") /\ HasStr(j.v.function, "name")
         THEN {<<TypeIn(j, "function"), j.v.function.v.name.v>>}
         ELSE IF HasStr(j, "tool_name") THEN {<<"tool", j.v.tool_name.v>>}
         ELSE IF HasStr(j, "tool") THEN {<<"tool", j.v.tool.v>>}
         ELSE IF HasStr(j, "name") THEN {<<TypeIn(j, "tool"), j.v.name.v>>}
         ELSE UNION {ToolEntries(j.v[k]) : k \in DOMAIN j.v \cap ToolKeys}
    [] OTHER -> {}

NamesForKind(e) ==
  NamesUnder(e.raw, KnownKeys(e.kind)) \cup NamesUnder(e.detail, KnownKeys(e.kind))

\* The tools of a captured request are read from its tool visibility file.
RequestEntries(e) == ToolEntries(e.raw)

\* The tool in the summary of an event is the one in its detail, which is there.
EntriesOf(e) ==
  CASE e.kind \in {"skill", "mcp"} -> {<<e.kind, n>> : n \in NamesForKind(e)}
    [] e.kind = "tool" -> ToolEntries(e.raw) \cup ToolEntries(e.detail)
    [] e.kind = "request" -> RequestEntries(e)
    [] OTHER -> {}

Projection(e, entry) == [line |-> e.line, at |-> e.at, type |-> entry[1], name |-> entry[2]]

Capabilities == UNION {{Projection(e, c) : c \in EntriesOf(e)} : e \in ToSet(log)}

-----------------------------------------------------------------------------
(* The diagnostics.                                                        *)

RECURSIVE Digits(_)
Digits(n) == IF n < Radix THEN <<n>> ELSE Append(Digits(n \div Radix), n % Radix)

TextBefore(s, t) ==
  \E i \in DOMAIN t : /\ \A h \in 1 .. i - 1 : h \in DOMAIN s /\ s[h] = t[h]
                      /\ i \in DOMAIN s => s[i] < t[i]

\* By time, and events of the same millisecond by their ids, which are texts.
Before(a, b) ==
  \/ a.at < b.at
  \/ a.at = b.at /\ TextBefore(Digits(a.line), Digits(b.line))
ByLine(a, b) == a.line < b.line

ShownByEventWithout(types, capabilities) ==
  LET its == {c \in capabilities : c.type \in types}
  IN  {[line |-> c.line, at |-> c.at, names |-> {d.name : d \in {d \in its : d.at = c.at}}] :
       c \in its}

\* The names every event shows that shows one of the types.
ShownByEvent(types, capabilities) ==
  LET its == {c \in capabilities : c.type \in types}
  IN  {[line |-> c.line, at |-> c.at, names |-> {d.name : d \in {d \in its : d.line = c.line}}] :
       c \in its}

Diff(from, to) ==
  [from |-> from.line, to |-> to.line,
   added |-> to.names \ from.names, removed |-> from.names \ to.names]

AdjacentDiffs(snapshots) ==
  LET s == SetToSortSeq(snapshots, Before)
  IN  [i \in 1 .. IF s = <<>> THEN 0 ELSE Len(s) - 1 |-> Diff(s[i], s[i + 1])]

ToolTypes == {"tool", "function"}
ToolDiffs == AdjacentDiffs(ShownByEvent(ToolTypes, Capabilities))
SkillDiffs == AdjacentDiffs(ShownByEvent({"skill"}, Capabilities))

\* The one candidate a diff has, if it has one of each.
Renames(d) ==
  IF Cardinality(d.added) = 1 /\ Cardinality(d.removed) = 1
  THEN {[from |-> a, to |-> b] : a \in d.removed, b \in d.added} ELSE {}

SkillEvents == {c.line : c \in {c \in Capabilities : c.type = "skill"}}
EventsWithExactly(name) == {c.line : c \in {c \in Capabilities : c.type = "skill" /\ c.name = name}}
EventsWith(name) ==
  {c.line : c \in {c \in Capabilities : c.type = "skill" /\ Lower[c.name] = Lower[name]}}

\* diagnose_skill_visibility.
Diagnosis(name) ==
  IF SkillEvents = {} THEN [status |-> "partial", evidence |-> {}]
  ELSE IF EventsWith(name) = {} THEN [status |-> "unavailable", evidence |-> SkillEvents]
  ELSE [status |-> "available", evidence |-> EventsWith(name)]

Visible(type) == {c.name : c \in {c \in Capabilities : c.type = type}}

Inventory ==
  LET all == Capabilities
  IN  [type \in {c.type : c \in all} |-> {c.name : c \in {c \in all : c.type = type}}]

\* One diagnosis for every skill that is visible, and one at least.
SkillDiagnostics ==
  IF Visible("skill") = {} THEN {Diagnosis("*")} ELSE {Diagnosis(n) : n \in Visible("skill")}

AggregateStatus ==
  IF \E d \in SkillDiagnostics : d.status = "available" THEN "available"
  ELSE IF \E d \in SkillDiagnostics : d.status = "partial" THEN "partial" ELSE "unavailable"

NormalizedLines(text) == ToSet(text) \ {""}

PromptKeys == <<"full_text", "prompt", "body_text", "input">>

\* The first of the fields a value has; messages in the form of an API request
\* are not among the events of a session.
FieldText(j) ==
  UNION {NormalizedLines(j.v[PromptKeys[i]].v) :
    i \in {i \in DOMAIN PromptKeys : /\ Has(j, PromptKeys[i])
                                     /\ \A h \in 1 .. i - 1 : ~Has(j, PromptKeys[h])}}

\* The detail comes first, and a text that is blank is none.
PromptText(e) == IF FieldText(e.detail) # {} THEN FieldText(e.detail) ELSE FieldText(e.raw)

Prompt(e) == [line |-> e.line, at |-> e.at, names |-> PromptText(e)]
Prompts == {Prompt(e) : e \in {e \in ToSet(log) : PromptText(e) # {}}}

PromptDiffs == AdjacentDiffs(Prompts)

\* What the diagnostics route answers.
Diagnostics ==
  [prompt_diffs |-> PromptDiffs, tool_diffs |-> ToolDiffs, skill_diffs |-> SkillDiffs,
   skill_diagnostics |-> SkillDiagnostics, skill_status |-> AggregateStatus,
   capability_inventory |-> Inventory]

-----------------------------------------------------------------------------
(* A session goes on.                                                      *)

Init == source \in {"codex", "opencode", "rollout", "capture"} /\ clock = 1 /\ log = <<>>

Record(kind, raw, detail, shows) ==
  /\ Len(log) < MaxEvents
  /\ clock' \in {clock, clock + 1} /\ clock' <= MaxTime
  /\ log' = Append(log, Event(kind, raw, detail, shows))
  /\ UNCHANGED source

Observe(kind, raw, shows) == Record(kind, raw, ObserverLine(kind, raw), shows)

AskSkills ==
  /\ source = "codex"
  /\ \E c \in Catalogs : LET raw == CodexSkills(SkillsAnswer(c)) IN
       Observe("skill", raw, ToSet(FirstOf(FlattenSeq(c), Preview)))

\* A notification of a skill change names no skill.
SkillsChanged ==
  /\ source = "codex"
  /\ Observe("skill", Obj([method |-> Str("skills/changed"), keys |-> Names({"cwd"})]), {})

AskMcp ==
  /\ source = "opencode"
  /\ \E S \in ServerSets : Observe("mcp", OpencodeMcp(McpAnswer(S)), S)

AskTools ==
  /\ source = "opencode"
  /\ \E S \in ToolSets : Observe("tool", OpencodeTools(Names(S)), S)

\* normalize_message_parts: the tool of a part is under a key, and in a summary
\* of a form, that the projection does not look for, so that it shows nothing.
ToolPart ==
  /\ source = "opencode"
  /\ \E n \in UNION ToolSets :
       LET part == Obj([type |-> Str("tool"), tool |-> Str(n)])
       IN  Observe("tool", Obj([info |-> Obj([role |-> Str("assistant")]), part |-> part]), {})

Rollout(kind, payload, shows) ==
  /\ source = "rollout"
  /\ Record(kind, RolloutLine(payload), RolloutDetail(RolloutLine(payload)), shows)

Message ==
  \E x \in Texts : Rollout("message",
    Obj([type |-> Str("message"), role |-> Str("user"), text |-> Text(x)]), NormalizedLines(x))

FunctionCall ==
  \E n \in UNION ToolSets : Rollout("tool", Obj([type |-> Str("function_call"), name |-> Str(n)]), {n})

FunctionOutput ==
  Rollout("tool_result", Obj([type |-> Str("function_call_output"), output |-> Str("done")]), {})

\* A captured request, with its tools in either of two forms.
Request ==
  /\ source = "capture"
  /\ \E S \in ToolSets, nested \in BOOLEAN :
       LET tool(n) == IF nested THEN Obj([type |-> Str("function"), function |-> Obj([name |-> Str(n)])])
                      ELSE Obj([name |-> Str(n)])
           tools == Arr([i \in DOMAIN SetToSeq(S) |-> tool(SetToSeq(S)[i])])
       IN  Record("request", tools, Null, S)

Next ==
  \/ AskSkills \/ SkillsChanged \/ AskMcp \/ AskTools \/ ToolPart
  \/ Message \/ FunctionCall \/ FunctionOutput \/ Request

Spec == Init /\ [][Next]_vars

-----------------------------------------------------------------------------
\* The events that showed something of one of the kinds, in the order they happened.
Showing(kinds) == SelectSeq(log, LAMBDA e : e.kind \in kinds /\ e.shows # {})

TellsTheChanges(diffs, shown) ==
  /\ Len(diffs) = IF shown = <<>> THEN 0 ELSE Len(shown) - 1
  /\ \A i \in DOMAIN diffs :
       /\ diffs[i].from = shown[i].line /\ diffs[i].to = shown[i + 1].line
       /\ diffs[i].added = shown[i + 1].shows \ shown[i].shows
       /\ diffs[i].removed = shown[i].shows \ shown[i + 1].shows

\* A candidate for a renaming is what replaced what, the rest staying as it was.
RenamesReplaceOne(d) ==
  \A r \in Renames(d) :
    r.from # r.to /\ log[d.to].shows = (log[d.from].shows \ {r.from}) \cup {r.to}

\* Where the ids of the events of one millisecond are as long as each other, their
\* order as texts is that of the lines.
IdsAreInOrder ==
  \A e, f \in ToSet(log) : e.at = f.at => Len(Digits(e.line)) = Len(Digits(f.line))

\* As long as the ids of one millisecond are equally long, the skill, tool and
\* prompt diffs of a session are, in order, the changes from one event that showed
\* something to the next that did, through all the forms in which the sources say
\* it and events that say nothing in between (visibility_diffs_for_types).
DiffsTellTheChanges ==
  IdsAreInOrder =>
    /\ TellsTheChanges(Diagnostics.skill_diffs, Showing({"skill"}))
    /\ TellsTheChanges(Diagnostics.tool_diffs, Showing({"tool", "request"}))
    /\ TellsTheChanges(Diagnostics.prompt_diffs, Showing({"message"}))
    /\ \A d \in ToSet(SkillDiffs) : RenamesReplaceOne(d)

\* What docs/stories/add-prompt-diff/design.md:95 says of prompts, whatever their
\* ids: each is compared with the one next before it in time
\* (diff_adjacent_prompts).
PromptDiffsAreOfNeighbours == TellsTheChanges(Diagnostics.prompt_diffs, Showing({"message"}))

\* The inventory names every mcp server and tool the session's events showed, and
\* no other.  The tools in parts of opencode's messages are not shown.
InventoryIsComplete ==
  LET inventory == Diagnostics.capability_inventory
      listed(types) == UNION {inventory[t] : t \in types \cap DOMAIN inventory}
  IN  /\ listed({"mcp"}) = UNION {e.shows : e \in {e \in ToSet(log) : e.kind = "mcp"}}
      /\ listed(ToolTypes) =
           UNION {e.shows : e \in {e \in ToSet(log) : e.kind \in {"tool", "request"}}}

\* What is said of a skill follows from the snapshots: it is available if one
\* showed it in any case, and then its evidence is all those that did; and what
\* is in the inventory was shown.
DiagnosisIsFounded ==
  /\ \A n \in DOMAIN Lower :
       LET snapshots == {e \in ToSet(log) : e.kind = "skill" /\ e.shows # {}}
           with == {e.line : e \in {e \in snapshots : \E m \in e.shows : Lower[m] = Lower[n]}}
           diagnosis == Diagnosis(n)
       IN  /\ diagnosis.status = "available" <=> with # {}
           /\ with # {} => diagnosis.evidence = with
           /\ diagnosis.status = "unavailable" =>
                snapshots # {} /\ diagnosis.evidence = {e.line : e \in snapshots}
  /\ InventoryIsComplete
=============================================================================
