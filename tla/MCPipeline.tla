----------------------------- MODULE MCPipeline -----------------------------
(***************************************************************************)
(* Two parts that share nothing: the way of a definition to a receipt, and *)
(* the catalog cache of one tool.  A behaviour is one of the two, and the  *)
(* other one has ended before it begins.                                   *)
(*                                                                         *)
(* The definitions: every accepted one of DefinitionInputs with one key    *)
(* left out or changed, an entry doubled or a page of the web that fails.  *)
(***************************************************************************)
EXTENDS Pipeline, DefinitionInputs, CatalogRefresh

CONSTANTS o1, o2, o3, d1, d2

(* Two operations with a definition of their own; any other names none.    *)
OwnDef == [o \in Ops |-> CASE o = o1 -> d1 [] o = o2 -> d2 [] OTHER -> NoDef]

Without(table) == {[table EXCEPT ![k] = Absent] : k \in DOMAIN table}
With(table, changes) == {[table EXCEPT ![c[1]] = c[2]] : c \in changes}
Two(a, b, unique) == List(2, {a, b}, unique)

Payload == Variable("payload")
ProbeTemp == Variable("probe_temp")
Root(token) == Template(token, {token}, "", "plain", 1)
Device(token) == [Below(token) EXCEPT !.parts = <<T("device", 3)>>]
Braces(token) == [Below(token) EXCEPT !.rest = "braces"]
Mixed == [Below(Payload) EXCEPT !.tokens = {Payload, ProbeTemp}]
Folder(token) == [Below(token) EXCEPT !.parts = <<T("dir", 3)>>]

Commands1 ==
  Without(Command0) \cup With(Command0, {
    <<"target", Root(Payload)>>, <<"target", Below(Store)>>, <<"target", Device(Payload)>>,
    <<"target", Braces(Payload)>>, <<"args", Just(Literal("plain", 5))>>,
    <<"args", Just(Below(Store))>>, <<"args", Just(Folder(Payload))>>, <<"args", Just(Below(ProbeTemp))>>,
    <<"args", Just(Mixed)>>, <<"environment_profile", T("kebab", 3)>>, <<"required", FALSE>>,
    <<"name", T("device", 3)>>, <<"working_directory", "temp">>})
Profiles1 ==
  Without(Profile0) \cup With(Profile0, {
    <<"path_append", Just(Device(Payload))>>, <<"path_prepend", Two(Below(Payload), Folder(Payload), FALSE)>>,
    <<"path_prepend", Just(Below(ProbeTemp))>>, <<"shell_export", Just(T("dashed", 6))>>,
    <<"unset", Just(T("upper", 6))>>, <<"unset", Just(T("lower", 6))>>, <<"unset", Just(T("equals", 4))>>,
    <<"override_allowed", Two(T("upper", 6), T("lower", 6), FALSE)>>,
    <<"set", [count |-> 1, names |-> {T("upper", 6)}, entries |-> {Literal("nul", 3)}, unique |-> TRUE]>>})
Expecting(expect, regex, version, root) ==
  [Probe0 EXCEPT !.expect = expect, !.regex = regex, !.expected_version = version, !.expected_root = root]
Probes ==
  Without(Probe0) \cup With(Probe0, {
    <<"args", Just(Below(ProbeTemp))>>, <<"args", Just(Below(Payload))>>, <<"args", Just(Device(ProbeTemp))>>,
    <<"args", Just(Literal("braces", 4))>>, <<"runtime_command", T("word", 5)>>, <<"stream", "both">>,
    <<"timeout", T("duration", 121)>>, <<"required", FALSE>>, <<"id", T("kebab", 16)>>, <<"id", StorageName>>,
    <<"regex", Pattern("version", <<"other", "version">>)>>, <<"regex", Pattern("path", <<"path">>)>>,
    <<"expected_version", Below(Variable("version"))>>, <<"expected_version", Below(Payload)>>,
    <<"required_paths", Just([kind |-> "file", path |-> Below(Payload)])>>,
    <<"required_paths", Just([kind |-> "directory", path |-> Folder(Payload)])>>,
    <<"required_paths", Just([kind |-> "link", path |-> Below(Payload)])>>}) \cup {
    Expecting("success", Absent, Absent, Absent),
    Expecting("success", Pattern("plain", <<>>), Absent, Absent),
    Expecting("success", Pattern("plain", <<"other">>), Absent, Absent),
    Expecting("success", Absent, Probe0.expected_version, Absent),
    Expecting("path-within", Pattern("path", <<"path">>), Absent, [kind |-> "payload", name |-> StorageName]),
    Expecting("path-within", Pattern("path", <<"path">>), Absent, [kind |-> "storage", name |-> T("kebab", 3)]),
    Expecting("path-within", Pattern("plain", <<>>), Absent, [kind |-> "payload", name |-> StorageName])}
StorageLists ==
  {Just(s) : s \in Without(Storage0) \cup With(Storage0, {
    <<"scope", "version">>, <<"purge", "with-version">>, <<"purge", "never">>, <<"kind", "temp">>,
    <<"id", T("device", 3)>>, <<"path", [form |-> "absolute", n |-> 9, parts |-> <<"cache">>]>>})}
  \cup {Two(Storage0, Nested, TRUE), Two(Storage0, [Nested EXCEPT !.path.parts = <<"other">>], TRUE),
        Two(Storage0, [Storage0 EXCEPT !.path.parts = <<"other">>], FALSE)}

Assets ==
  Without(ByAsset) \cup {[ByAsset EXCEPT !.selector = s] : s \in Without(ByAsset.selector)}
    \cup {[ByAsset EXCEPT !.checksum = c] : c \in Without(ByAsset.checksum)} \cup
  {[ByAsset EXCEPT !.url = URLOf({Asset("name")}, "https"), !.file = URLOf({Asset("os")}, "plain")],
   [ByAsset EXCEPT !.url = URLOf({Asset("size")}, "https"), !.file = URLOf({Asset("name")}, "plain")],
   [ByAsset EXCEPT !.url = URLOf({}, "query"), !.file = URLOf({Token("asset", T("nothing", 4))}, "plain")],
   [ByAsset EXCEPT !.url = URLOf({}, "https")], [ByAsset EXCEPT !.size = T("number", 7)],
   [ByAsset EXCEPT !.size = T("number", -1)], [ByAsset EXCEPT !.format = "rpm"],
   [ByAsset EXCEPT !.checksum.algorithm = "sha256"], [ByAsset EXCEPT !.checksum.line_format = "sha256-space-filename"],
   [ByAsset EXCEPT !.selector = [@ EXCEPT !.name_regex = Absent, !.os = "linux"]],
   [ByAsset EXCEPT !.selector.name_regex.form = "syntax"],
   [ByAsset EXCEPT !.redirect_hosts = Just(T("host", 9))], [ByAsset EXCEPT !.redirect_hosts = Just(T("plain", 9))]}
Templates ==
  Without(ByTemplate) \cup {[ByTemplate EXCEPT !.checksum = c] : c \in Without(ByTemplate.checksum)} \cup
  {[ByTemplate EXCEPT !.url = URLOf({Asset("name")}, "https")], [ByTemplate EXCEPT !.url.form = "host_variable"],
   [ByTemplate EXCEPT !.file.form = "separator"], [ByTemplate EXCEPT !.file.rest = "braces"],
   [ByTemplate EXCEPT !.selector = ByAsset.selector], [ByTemplate EXCEPT !.checksum = ByAsset.checksum],
   [ByTemplate EXCEPT !.checksum.url = URLOf({Token("metadata", MetaName)}, "https")],
   [ByTemplate EXCEPT !.file = URLOf({Token("metadata", T("snake", 3))}, "plain")]}
Fields(s) == {[s EXCEPT !.asset_fields = [f \in AssetFieldNames \ {left} |-> At(f)]] : left \in AssetFieldNames}
Networks ==
  Without(Json) \cup Fields(Json) \cup With(Json, {
    <<"max_items", T("number", 0)>>, <<"cache_ttl", T("duration", 59)>>, <<"version_regex", T("plain", 9)>>,
    <<"lifecycle_map", Index.lifecycle_map>>, <<"published_at_pointer", At("date")>>,
    <<"required_tokens", Just(T("word", 3))>>, <<"lifecycle_overrides", Two(Override0, [Override0 EXCEPT !.status = "supported"], FALSE)>>,
    <<"lifecycle_overrides", Just([Override0 EXCEPT !.version = V(<<1>>, "malformed", 0, <<>>)])>>,
    <<"item_parent_published_at_pointer", At("date")>>, <<"asset_fields", <<>>>>})
  \cup {[Json EXCEPT !.required_tokens_pointer = At("tokens"), !.required_tokens = Just(T("word", n))] : n \in {3, 4}}
  \cup Without(Index) \cup With(Index, {
    <<"document_lifecycle_pointer", At("status")>>, <<"max_documents", T("number", 33)>>,
    <<"static_versions", Static.static_versions>>, <<"lifecycle_map", [count |-> 1, to |-> [active |-> "eternal"]]>>})
StaticVersions1 ==
  Without(StaticVersion0) \cup With(StaticVersion0, {
    <<"version", V(<<1>>, "malformed", 0, <<>>)>>, <<"channel", "beta">>, <<"published_at", Time(3)>>,
    <<"lifecycle_assessed_at", [Time(3) EXCEPT !.form = "date"]>>, <<"assets", None>>,
    <<"assets", Two(StaticAsset0, [StaticAsset0 EXCEPT !.name = T("windows_name", 20)], TRUE)>>})
  \cup {[StaticVersion0 EXCEPT !.assets = Just(a)] : a \in Without(StaticAsset0) \cup With(StaticAsset0, {
    <<"digest", T("hex", 63)>>, <<"digest_algorithm", "sha512">>, <<"digest_algorithm", "md5">>,
    <<"size", T("number", 0)>>, <<"url", [Address EXCEPT !.form = "http"]>>, <<"name", T("separator", 9)>>,
    <<"os", "darwin">>, <<"release_id", T("plain", 4)>>})}
Statics ==
  Without(Static) \cup {[Static EXCEPT !.static_versions = Just(v)] : v \in StaticVersions1}
  \cup {[Static EXCEPT !.static_versions = Two(StaticVersion0, [StaticVersion0 EXCEPT !.version = v], TRUE)] :
          v \in {Final(1, 0, 9), Beta(1, 1, 0)}}
Others ==
  {p \in Without(Platform0) : p.version_source # Absent}
  \cup {[Platform0 EXCEPT !.provider = v] : v \in Without(Provider0) \cup With(Provider0, {<<"adoption_reason", Plain>>})}
  \cup {[Platform0 EXCEPT !.artifact_kind = "third-party", !.provider = v] :
          v \in With([Provider0 EXCEPT !.repository = Address], {<<"adoption_reason", Plain>>, <<"repository", Absent>>})}
  \cup {[Platform0 EXCEPT !.arch = "arm64"], [Platform0 EXCEPT !.license_notice = T("message", 20)],
        [Platform0 EXCEPT !.install.strip_components = 2], [Platform0 EXCEPT !.license_notice = Plain],
        [Platform0 EXCEPT !.validation.probes = None],
        [Platform0 EXCEPT !.validation.probes = Two(Probe0, [Probe0 EXCEPT !.id = T("kebab", 6)], TRUE)]}

(* Changes of the parts that are the same on both systems                  *)
Changed(p) ==
  {[p EXCEPT !.runtime.commands = Just(c)] : c \in Commands1}
  \cup {[p EXCEPT !.runtime.environment = Just(e)] : e \in Profiles1}
  \cup {[p EXCEPT !.validation.probes = Just(v)] : v \in Probes}
MCPlatforms ==
  Bases \cup Others \cup Changed(Platform0) \cup Changed(Windows(Platform0))
  \cup {[Platform0 EXCEPT !.storage = l] : l \in StorageLists}
  \cup {[Platform0 EXCEPT !.artifact = a] : a \in Assets \cup Templates}
  \cup {[Platform0 EXCEPT !.version_source = s] : s \in Networks \cup Statics}

Input(definition, pages, checksums, fits) ==
  [definition |-> definition, pages |-> pages, checksums |-> checksums, fits |-> fits, byID |-> TRUE]
Text0 == Response(Absent, Lines0)
Served(p) == Input(Definition(<<p>>), PagesOf(p), Text0, TRUE)

(* The tool, the file, and two platforms in one definition                 *)
ToolOf(t) == [Definition(<<Platform0>>) EXCEPT !.tool = t]
FileOf(f) == [Definition(<<Platform0>>) EXCEPT !.file = f]
StaticPlatform(v) == [Platform0 EXCEPT !.version_source = [Static EXCEPT !.static_versions = Just(v)]]
Files ==
  {ToolOf(t) : t \in Without(Tool0) \cup With(Tool0, {
    <<"id", T("word", 3)>>, <<"id", T("device", 3)>>, <<"aliases", Two(T("word", 3), T("word", 4), FALSE)>>, <<"aliases", Just(Definition(<<>>).tool.id)>>,
    <<"homepage", [Address EXCEPT !.form = "query"]>>, <<"name", T("plain", 129)>>})}
  \cup {FileOf(f) : f \in Without(Definition(<<>>).file) \cup With(Definition(<<>>).file, {
    <<"form", "binary">>, <<"n", 2097153>>, <<"schema", 2>>})}
  \cup {Definition(ps) : ps \in {<<>>, <<Platform0, Platform0>>, <<Platform0, Windows(Platform0), Platform0>>,
          <<StaticPlatform(StaticVersion0), Windows(StaticPlatform([StaticVersion0 EXCEPT !.version = Final(2, 0, 0)]))>>,
          <<StaticPlatform(StaticVersion0), Windows(StaticPlatform(StaticVersion0))>>}}

(* Licenses: every text of up to three tokens, and longer ones             *)
withLicense(text) ==
  [form |-> IF Grammar!License(text) THEN "license" ELSE "plain", n |-> 4 * Len(text), tokens |-> text]
Short(n) == [1 .. n -> Grammar!Tokens]
Spelled == UNION {Short(n) : n \in 0 .. 3}
  \cup {l \o <<sign>> \o r : l \in {text \in Short(3) : Grammar!Derived(text)},
          sign \in {"AND", "(", "id", "WITH"}, r \in {<<>>, <<"id">>, <<")">>}}
Licensed == {ToolOf([Tool0 EXCEPT !.license = withLicense(text)]) : text \in Spelled}

(* Every list of up to three versions of a scheme, on one page             *)
Pool(s) ==
  IF s = "go" THEN {V(<<1, 2>>, "", 0, <<>>), V(<<1, 2, 0>>, "", 0, <<>>), V(<<1, 2>>, "rc", 1, <<>>), V(<<1, 2, 1>>, "", 0, <<>>)}
  ELSE IF s = "python" THEN {Final(1, 1, 0), V(<<1, 2, 0>>, "rc", 2, <<>>), V(<<1, 2, 0>>, "b", 3, <<>>), Final(1, 2, 0)}
  ELSE {Final(1, 1, 0), Final(1, 10, 0), Beta(1, 10, 0), Final(1, 9, 9)}
Listed ==
  UNION {{Input([Definition(<<Platform0>>) EXCEPT !.tool.version_scheme = s],
                Base("index") :> Response(ItemsOf(list), <<>>), Text0, IsInjective(list)) :
            list \in UNION {[1 .. n -> Pool(s)] : n \in 0 .. 3}} : s \in Schemes}

(* A web that does not answer, or says something else than the definition  *)
Indexed == [Platform0 EXCEPT !.version_source = Index]
Templated == [Platform0 EXCEPT !.artifact = ByTemplate]
Replaced(page, key, value) == [page EXCEPT !.body[key] = value]
Broken(page) ==
  {Down, [page EXCEPT !.failed = TRUE], [page EXCEPT !.final = "http"], Replaced(page, "n", DocumentMaxBytes + 1),
   Replaced(page, "broken", TRUE), Replaced(page, "trailing", TRUE), Replaced(page, "json", Absent),
   Replaced(page, "json", Object([other |-> String(Plain)])),
   Replaced(page, "json", Array(<<Object([version |-> String([matches |-> FALSE])])>>)),
   Replaced(page, "json", Array(<<Object([Item(Final(1, 0, 1)) EXCEPT !.channel = String("nightly")])>>)),
   Replaced(page, "json", Array(<<Object([Item(Final(1, 0, 1)) EXCEPT !.lifecycle = String("unheard")])>>)),
   Replaced(page, "json", Array(<<Object([Item(Final(1, 0, 1)) EXCEPT !.assets = Array(<<Object([FieldOf EXCEPT !["digest"] = String(T("hex", 63))])>>)])>>)),
   Replaced(page, "json", Array(<<Object([url |-> String([Child EXCEPT !.host = T("host", 5)])])>>)),
   Replaced(page, "json", Array(<<Object([url |-> String(Child)]), Object([url |-> String(Child)])>>))}
BadLines ==
  {<<>>, Lines0 \o Lines0, <<[Lines0[1] EXCEPT !.formed = FALSE]>> \o Lines0, [i \in {1} |-> Lines0[1]],
   [i \in DOMAIN Lines0 |-> [Lines0[i] EXCEPT !.hex.n = 40]]}
Sources1 ==
  {[Json EXCEPT !.items_pointer = At("0")], [Json EXCEPT !.max_items = T("number", 2)],
   [Json EXCEPT !.lifecycle_overrides = Just([Override0 EXCEPT !.version = Final(7, 0, 0)])],
   [Index EXCEPT !.lifecycle_overrides = Just(Override0)], [Json EXCEPT !.assets_pointer = At("meta")]}
Unfit ==
  {Input(Definition(<<Platform0>>), Base("index") :> page, Text0, FALSE) : page \in Broken(Response(Items0, <<>>))}
  \cup {Input(Definition(<<Indexed>>), (Base("index") :> Response(Children0, <<>>)) @@ (Base("child") :> page), Text0, FALSE) :
          page \in Broken(Response(Items0, <<>>))}
  \cup {Input(Definition(<<Indexed>>), (Base("index") :> page) @@ (Base("child") :> Response(Items0, <<>>)), Text0, FALSE) :
          page \in Broken(Response(Children0, <<>>))}
  \cup {Input(Definition(<<Templated>>), PagesOf(Platform0), text, FALSE) :
          text \in Broken(Text0) \cup {Response(Absent, lines) : lines \in BadLines}}
  \cup {[Served([Platform0 EXCEPT !.version_source = s]) EXCEPT !.fits = FALSE] : s \in Sources1}
  \cup {[Served([Platform0 EXCEPT !.artifact = a]) EXCEPT !.fits = FALSE] :
          a \in {[ByAsset EXCEPT !.selector = [@ EXCEPT !.name_regex = Absent, !.libc = "glibc"]],
                 [ByAsset EXCEPT !.checksum.algorithm = "sha512"]}}
(* Probes whose receipts can be read back as they were, in both orders     *)
Stored == [Probe0 EXCEPT !.required_paths = Just([kind |-> "file", path |-> Below(Store)])]
Probed(list) == Served([Platform0 EXCEPT !.validation.probes = list])
ReadBack ==
  {Probed(Just(Stored)), Probed(Just([Stored EXCEPT !.args = None]))}
    \cup {[Probed(Two(Stored, [Stored EXCEPT !.id = T("kebab", 6)], TRUE)) EXCEPT !.byID = order] : order \in BOOLEAN}
(* A page whose items lie below parents that carry their time              *)
Flattened ==
  Input(Definition(<<[Platform0 EXCEPT !.version_source =
          [Json EXCEPT !.item_flatten_pointer = At("items"), !.item_parent_published_at_pointer = At("date")]]>>),
        Base("index") :> Response(Parents0, <<>>), Text0, TRUE)

MCInputs ==
  {Served(p) : p \in MCPlatforms} \cup {Input(d, PagesOf(Platform0), Text0, TRUE) : d \in Files \cup Licensed}
    \cup Listed \cup Unfit \cup {Flattened} \cup ReadBack
BaseInputs == {Served(p) : p \in Bases}
MCOperations == <<"first", "second">>

(* Upstream has published nothing: the cache is never used.                *)
NoRefresh ==
  /\ pc = [o \in Ops |-> "idle"] /\ outcome = [o \in Ops |-> "none"] /\ stale = [o \in Ops |-> FALSE]
  /\ got = [o \in Ops |-> 0] /\ loaded = [o \in Ops |-> NoCatalog]
  /\ built = [o \in Ops |-> NoCatalog] /\ answer = [o \in Ops |-> NoCatalog]
  /\ cache = NoCatalog /\ clock = 0 /\ upstream = 0
NoInstall ==
  /\ given = [definition |-> [tool |-> Absent], fits |-> FALSE] /\ step = "end" /\ ended = "definition" /\ fault = FALSE
  /\ platform = Absent /\ asked = Absent /\ catalog = Absent /\ chosen = Absent /\ plan = Absent
  /\ outcomes = <<>> /\ receipts = <<>>
ToolInit ==
  \/ PipelineInit /\ NoRefresh
  \/ NoInstall /\ Init
ToolNext ==
  \/ upstream = 0 /\ PipelineNext /\ UNCHANGED vars
  \/ upstream > 0 /\ Next /\ UNCHANGED pipelineVars
ToolSpec == ToolInit /\ [][ToolNext]_<<pipelineVars, vars>>
=============================================================================
