-------------------------- MODULE DefinitionInputs --------------------------
(***************************************************************************)
(* Tool definitions for the model checker: five that are accepted, their   *)
(* parts, and what the web answers.                                        *)
(***************************************************************************)
EXTENDS CatalogRules

V(nums, tag, num, pre) == [nums |-> nums, tag |-> tag, num |-> num, pre |-> pre]
Final(a, b, c) == V(<<a, b, c>>, "", 0, <<>>)
Beta(a, b, c) == V(<<a, b, c>>, "-", 0, <<[numeric |-> FALSE, rank |-> 1]>>)

None == List(0, {}, TRUE)
Just(x) == List(1, {x}, TRUE)
Plain == T("plain", 9)
Base(name) == [t \in {Token("name", T(name, 0))} |-> T(name, 1)]
Address == [form |-> "https", n |-> 30, host |-> T("host", 9), base |-> Base("index")]
Pointer1(path) == [form |-> "pointer", n |-> 8 * Len(path), path |-> path]
Everything == Pointer1(<<>>)
At(key) == Pointer1(<<key>>)
Time(at) == [form |-> "utc", n |-> 20, at |-> at]
Variable(kind) == Token(kind, T("", 0))
Asset(f) == Token("asset", T(f, 0))
Below1 == T("tool", 8)
Template(root, tokens, rest, form, n) ==
  [root |-> root, tokens |-> tokens, rest |-> rest, form |-> form, n |-> n,
   parts |-> IF rest = "child" THEN <<Below1>> ELSE <<>>]
Below(token) == Template(token, {token}, "child", "plain", 20)
Literal(form, n) == Template(NoToken, {}, form, "plain", n)
StorageName == T("kebab", 9)
Store == Token("storage", StorageName)
MetaName == T("snake", 7)
URLOf(tokens, form) == Template(NoToken, tokens, "plain", form, 60)

License0 == [form |-> "license", n |-> 3, tokens |-> <<"id">>]
Tool0 == [id |-> T("word", 2), name |-> Plain, aliases |-> Just(T("word", 6)), description |-> Plain,
          homepage |-> Address, license |-> License0, version_scheme |-> "semver"]
Provider0 == [name |-> Plain, repository |-> Absent, homepage |-> Address, license |-> T("license", 3),
              adoption_reason |-> Absent]
StaticAsset0 ==
  [name |-> T("linux_name", 20), url |-> Address, size |-> T("number", 50), digest |-> T("hex", 64),
   digest_algorithm |-> "sha256", os |-> "linux", arch |-> "amd64", libc |-> "glibc",
   published_at |-> Time(2), release_tag |-> Plain, release_url |-> Address,
   release_id |-> T("decimal", 4), asset_id |-> T("decimal", 4)]
StaticVersion0 ==
  [version |-> Final(1, 1, 0), channel |-> "stable", lifecycle |-> "supported",
   lifecycle_evidence |-> Address, lifecycle_assessed_at |-> Time(2),
   published_at |-> Time(2), assets |-> Just(StaticAsset0)]
SourceKeys ==
  {"kind", "url", "index_items_pointer", "index_document_pointer", "max_documents",
   "document_lifecycle_pointer", "lifecycle_map", "items_pointer", "item_flatten_pointer",
   "item_parent_published_at_pointer", "version_pointer", "version_regex", "channel_pointer",
   "lifecycle_pointer", "lifecycle_overrides", "published_at_pointer", "assets_pointer",
   "asset_fields", "metadata_fields", "required_tokens_pointer", "required_tokens", "max_items",
   "cache_ttl", "static_versions"}
NoSource == [k \in SourceKeys |-> Absent]
AllFields == [f \in AssetFieldNames |-> At(f)]
Override0 == [version |-> Final(1, 1, 0), status |-> "eol", evidence |-> Address, assessed_at |-> Time(2)]
Json == [NoSource EXCEPT !.kind = "json", !.url = Address, !.items_pointer = Everything,
  !.version_pointer = At("version"), !.version_regex = T("version", 30), !.cache_ttl = T("duration", 3600),
  !.assets_pointer = At("assets"), !.asset_fields = AllFields, !.max_items = T("number", 100),
  !.lifecycle_overrides = Just(Override0),
  !.metadata_fields = [count |-> 1, entries |-> {MetaName}, pointer |-> At("meta")]]
Index == [Json EXCEPT !.kind = "json-index", !.index_items_pointer = Everything,
  !.index_document_pointer = At("url"), !.max_documents = T("number", 2), !.lifecycle_pointer = At("lifecycle"),
  !.lifecycle_map = [count |-> 1, to |-> [active |-> "supported"]], !.channel_pointer = At("channel"),
  !.lifecycle_overrides = Just([Override0 EXCEPT !.status = "supported"])]
Static == [NoSource EXCEPT !.kind = "static", !.static_versions = Just(StaticVersion0),
  !.max_items = T("number", 100)]

ByAsset == [id |-> T("primary", 7), source |-> "asset", url |-> Absent, file |-> Absent, format |-> "tar.gz",
  size |-> T("number", 0), redirect_hosts |-> Absent,
  selector |-> [name_regex |-> [form |-> "plain", n |-> 20, matches |-> "linux_name"], os |-> Absent, arch |-> Absent, libc |-> Absent],
  checksum |-> [kind |-> "asset-field", url |-> Absent, line_format |-> Absent, algorithm |-> Absent]]
ByTemplate == [ByAsset EXCEPT !.source = "template", !.selector = Absent,
  !.url = URLOf({Variable("version"), Token("metadata", MetaName)}, "https"),
  !.file = URLOf({Variable("version")}, "plain"),
  !.checksum = [kind |-> "text-file", url |-> URLOf({Variable("version")}, "https"),
                line_format |-> "sha256-space-filename", algorithm |-> Absent]]

Storage0 == [id |-> StorageName, kind |-> "content-cache", scope |-> "tool", purge |-> "retain",
             path |-> [form |-> "relative", n |-> 9, parts |-> <<"cache">>]]
Nested == [Storage0 EXCEPT !.id = T("kebab", 4), !.path.parts = <<"cache", "b">>]
Profile0 == [id |-> T("kebab", 7), path_prepend |-> Just(Below(Variable("payload"))), path_append |-> None,
  set |-> [count |-> 1, names |-> {T("upper", 6)}, entries |-> {Below(Store)}, unique |-> TRUE],
  unset |-> None, override_allowed |-> None, shell_export |-> Just(T("upper", 6))]
Command0 == [name |-> T("word", 2), target |-> Below(Variable("payload")), args |-> None,
  environment_profile |-> Profile0.id, required |-> TRUE, working_directory |-> "inherit",
  passthrough_signals |-> TRUE]
(* groups: the names of its captures, in their order                        *)
Pattern(form, groups) == [form |-> form, n |-> 20, groups |-> groups]
Probe0 == [id |-> T("kebab", 5), runtime_command |-> Command0.name, args |-> Just(Literal("plain", 7)),
  stream |-> "stdout", expect |-> "version", regex |-> Pattern("version", <<"version">>),
  expected_version |-> Template(Variable("version"), {Variable("version")}, "", "plain", 11),
  expected_root |-> Absent, required_paths |-> Absent, timeout |-> T("duration", 10), required |-> TRUE]

Platform0 == [id |-> "linux-amd64-glibc", os |-> "linux", arch |-> "amd64", libc |-> "glibc",
  artifact_kind |-> "official", license_notice |-> Absent, provider |-> Provider0, version_source |-> Json,
  artifact |-> ByAsset, install |-> [strip_components |-> 1], storage |-> Just(Storage0),
  runtime |-> [commands |-> Just(Command0), environment |-> Just(Profile0)],
  validation |-> [probes |-> Just(Probe0)]]
Definition(platforms) ==
  [file |-> [form |-> "toml", n |-> 5000, schema |-> 1, schema_id |-> "gdtvm.tool-definition"],
   basename |-> T("word", 2), tool |-> Tool0, platforms |-> platforms]
Windows(p) == [p EXCEPT !.id = "windows-amd64", !.os = "windows", !.libc = "none"]

(* What the web answers                                                    *)
Object(f) == [kind |-> "object", value |-> f]
Array(list) == [kind |-> "array", value |-> list]
String(text) == [kind |-> "string", value |-> text]
Response(json, lines) ==
  [failed |-> FALSE, status |-> 200, final |-> "https",
   body |-> [n |-> 4000, broken |-> FALSE, trailing |-> FALSE, json |-> json, lines |-> lines]]
Down == [Response(Absent, <<>>) EXCEPT !.status = 503, !.body = Absent]

FieldOf == [f \in AssetFieldNames |->
  IF f = "size" THEN [kind |-> "number", value |-> T("number", 50)]
  ELSE String(IF f = "name" THEN T("linux_name", 20)
              ELSE IF f \in {"url", "release_url"} THEN Address
              ELSE IF f = "digest" THEN T("hex", 64) ELSE IF f = "digest_algorithm" THEN "sha256"
              ELSE IF f = "os" THEN "linux" ELSE IF f = "arch" THEN "amd64" ELSE IF f = "libc" THEN "glibc"
              ELSE IF f = "published_at" THEN Time(2) ELSE Plain)]
OtherFile == [FieldOf EXCEPT !["name"] = String(T("windows_name", 20)), !["os"] = String("windows")]
Item(version) ==
  [version |-> String([matches |-> TRUE, raw |-> version, version |-> version]),
   date |-> String(Time(2)), tokens |-> Array(<<String(T("word", 3))>>),
   assets |-> Array(<<Object(FieldOf), Object(OtherFile)>>), meta |-> String(T("plain", 3)),
   lifecycle |-> String("active"), channel |-> String(DeriveChannel([stage |-> IF version.tag = "" THEN 9 ELSE 1]))]
Versions0 == <<Final(1, 1, 0), Beta(1, 2, 0), Final(1, 0, 1)>>
ItemsOf(versions) == Array([i \in DOMAIN versions |-> Object(Item(versions[i]))])
Items0 == ItemsOf(Versions0)
Parents0 == Array(<<Object([date |-> String(Time(2)), items |-> Items0])>>)
Child == [Address EXCEPT !.base = Base("child")]
Children0 == Array(<<Object([url |-> String(Child)])>>)

Line(version) ==
  [formed |-> TRUE, hex |-> T("hex", 64),
   name |-> [t \in {Variable("version"), Token("metadata", MetaName)} |->
               IF t = Variable("version") THEN [form |-> "version", n |-> VersionBytes, of |-> version] ELSE T("plain", 3)]]
Lines0 == [i \in DOMAIN Versions0 |-> Line(Versions0[i])]
PagesOf(p) ==
  (Base("index") :> Response(IF p.version_source.kind = "json-index" THEN Children0 ELSE Items0, <<>>))
    @@ (Base("child") :> Response(Items0, <<>>))

Bases == {Platform0,
          [Platform0 EXCEPT !.artifact = ByTemplate],
          [Platform0 EXCEPT !.version_source = Index],
          [Platform0 EXCEPT !.version_source = Static],
          Windows([Platform0 EXCEPT !.artifact_kind = "third-party",
             !.provider = [Provider0 EXCEPT !.repository = Address, !.adoption_reason = T("message", 30)]])}
=============================================================================
