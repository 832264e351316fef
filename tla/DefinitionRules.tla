--------------------------- MODULE DefinitionRules --------------------------
(***************************************************************************)
(* What package definition accepts as a tool definition (Parse) and what   *)
(* it makes of it.  A definition is a record of tables as they are in the  *)
(* file; every table is checked to its end, and the file is refused when   *)
(* any of them added a diagnostic.                                         *)
(***************************************************************************)
EXTENDS DefinitionText, VersionRules, FiniteSets

PlatformMax == 2
AliasMax == 16
CommandMax == 64
ProfileMax == 16
ProbeMax == 64
StorageMax == 32
EnvironmentEntryMax == 4096
StaticVersionMax == 10000
StaticAssetMax == 16
OverrideMax == 10000
MaxItemsLimit == 10000
MaxDocumentsLimit == 32

Lifecycles == {"supported", "eol", "unknown"}
Channels == {"stable", "prerelease"}
AssetFieldNames == {"name", "url", "size", "digest", "digest_algorithm", "os", "arch",
                    "libc", "published_at", "release_tag", "release_url", "release_id", "asset_id"}

PlatformIDs == {"windows-amd64", "linux-amd64-glibc"}
OsArchLibc(id) == IF id = "windows-amd64" THEN [os |-> "windows", arch |-> "amd64", libc |-> "none"]
               ELSE [os |-> "linux", arch |-> "amd64", libc |-> "glibc"]

(* A list of tables: an answer with the entries that are kept.  An entry   *)
(* the check refuses is left out and the loop goes on; a list that is      *)
(* refused as a whole gives nothing.                                       *)
Refused(reason) == [ok |-> FALSE, why |-> {reason}, kept |-> {}]
Built(key, answer) ==
  LET why == UNION {answer[e].why : e \in key.entries} IN
  IF key.unique THEN [ok |-> TRUE, why |-> why, kept |-> {e \in key.entries : answer[e].ok}]
  ELSE [Refused("duplicate") EXCEPT !.why = @ \cup why]
Tables(key, lo, max, Entry(_)) ==
  IF key = Absent THEN Refused("missing")
  ELSE IF key.count < lo THEN Refused("conditional")
  ELSE IF key.count > max THEN Refused("limit")
  ELSE Built(key, [e \in key.entries |-> Entry(e)])

(***************************************************************************)
(* [tool]                                                                  *)
(***************************************************************************)
(* decodeFile: UTF-8 without BOM, not too long, and no key it does not know *)
Decodes(file) == file.form = "toml" /\ file.n \in 1 .. 2097152
File(d) ==
  IF ~Decodes(d) THEN Bad("decode")
  ELSE All({Require(d.schema, Check(d.schema = 1, "schema")),
            Require(d.schema_id, Check(d.schema_id = "gdtvm.tool-definition", "schema_id"))})

(* The ID of the tool is one of the names that must differ.                *)
Aliases(key, id) ==
  Require(key, IF key.count > AliasMax THEN Bad("limit")
               ELSE All({ToolID(a) : a \in key.entries}
                        \cup {Unique(key), Check(~ToolID(id).ok \/ id \notin key.entries, "duplicate")}))

(* checkLicenseExpression: LicenseGrammar says which expressions have the  *)
(* form "license"                                                          *)
License(key) == Require(key, Check(key.form = "license" /\ key.n \in 1 .. NameMaxBytes, "license"))

Tool(t, basename) ==
  IF t = Absent THEN Bad("missing")
  ELSE All({ToolID(t.id),
            Optional(t.id, Check(~ToolID(t.id).ok \/ t.id = basename, "basename")),
            Text(t.name, NameMaxBytes), Aliases(t.aliases, t.id),
            Text(t.description, DescriptionMaxBytes), URL(t.homepage, "reference"),
            License(t.license), Enum(t.version_scheme, Schemes)})

(* The scheme the platforms are read with: none when it was refused        *)
SchemeOf(t) == IF t = Absent THEN "" ELSE IF Enum(t.version_scheme, Schemes).ok THEN t.version_scheme ELSE ""

(***************************************************************************)
(* [platforms], [platforms.provider], [platforms.install]                  *)
(***************************************************************************)
Tuple(p) ==
  Require(p.id, IF p.id \notin PlatformIDs THEN Bad("enum")
                ELSE All({Require(p[k], Check(p[k] = OsArchLibc(p.id)[k], "platform_tuple"))
                            : k \in {"os", "arch", "libc"}}))
(* A platform whose tuple was refused is not Windows.                      *)
OnWindows(p) == Tuple(p).ok /\ p.id = "windows-amd64"

LicenseNotice(key) == Optional(key, Check(key.form = "message", "message_id"))

Provider(v, kind) ==
  IF v = Absent THEN Bad("missing")
  ELSE All({Text(v.name, NameMaxBytes), URL(v.homepage, "reference"), License(v.license),
            Optional(v.repository, URL(v.repository, "reference")),
            IF kind = "official" THEN Check(v.adoption_reason = Absent, "provider_key")
            ELSE IF kind = "third-party"
            THEN All({Require(v.repository, Fine), Text(v.adoption_reason, DescriptionMaxBytes)})
            ELSE Fine})

Install(i) ==
  IF i = Absent THEN Bad("missing") ELSE Enum(i.strip_components, {0, 1})

(***************************************************************************)
(* [platforms.version_source]                                              *)
(***************************************************************************)
ForbiddenKeys(kind) ==
  IF kind = "json-index" THEN {"static_versions"}
  ELSE {"index_items_pointer", "index_document_pointer", "max_documents",
        "document_lifecycle_pointer", "lifecycle_pointer", "lifecycle_map"}
       \cup (IF kind = "json" THEN {"static_versions"}
             ELSE {"url", "items_pointer", "item_flatten_pointer", "item_parent_published_at_pointer",
                   "version_pointer", "version_regex", "channel_pointer", "lifecycle_overrides",
                   "published_at_pointer", "assets_pointer", "asset_fields", "metadata_fields",
                   "required_tokens_pointer", "required_tokens", "cache_ttl"})
KindKeys(s) == Check(\A k \in ForbiddenKeys(s.kind) : s[k] = Absent, "kind_key")

ExactVersion(key, scheme) ==
  Require(key, IF scheme = "" THEN Silent
               ELSE Check(ParseVersion(scheme, key) # {}, "version"))

(* The parent's time stands in for an item's own, never beside it.         *)
FlattenContract(s) ==
  Optional(s.item_parent_published_at_pointer,
           All({Check(s.item_flatten_pointer # Absent, "conditional"), Forbid(s.published_at_pointer)}))

RequiredTokens(s) ==
  IF s.required_tokens_pointer = Absent /\ s.required_tokens = Absent THEN Fine
  ELSE IF s.required_tokens_pointer = Absent \/ s.required_tokens = Absent THEN Bad("conditional")
  ELSE All({Optional(s.required_tokens_pointer, Pointer(s.required_tokens_pointer)),
            IF s.required_tokens.count = 0 THEN Bad("conditional")
            ELSE IF s.required_tokens.count > ArrayMax THEN Bad("limit")
            ELSE IF \E t \in s.required_tokens.entries : ~ASCIIToken(t) THEN Bad("text")
            ELSE Unique(s.required_tokens)})

AssetFields(key) ==
  Optional(key, IF DOMAIN key = {} THEN Bad("conditional")
                ELSE IF ~(DOMAIN key \subseteq AssetFieldNames) THEN Bad("enum")
                ELSE Check(\A f \in DOMAIN key : PointerOk(key[f]), "pointer"))
MetadataFields(key) ==
  Optional(key, IF key.count = 0 THEN Bad("conditional")
                ELSE IF key.count > ArrayMax THEN Bad("limit")
                ELSE IF \E k \in key.entries : ~MetadataKey(k).ok THEN Bad("identifier")
                ELSE Check(PointerOk(key.pointer), "pointer"))

Override(o, scheme) ==
  All({ExactVersion(o.version, scheme), Enum(o.status, {"supported", "eol"}),
       URL(o.evidence, "reference"), UTCTime(o.assessed_at)})
Overrides(key, scheme) ==
  Optional(key, Tables(key, 0, OverrideMax, LAMBDA o : Override(o, scheme)))

LifecycleMap(key, required) ==
  IF key = Absent THEN Check(~required, "conditional")
  ELSE IF ~required \/ key.count = 0 THEN Bad("conditional")
  ELSE IF key.count > ArrayMax THEN Bad("limit")
  ELSE IF "" \in DOMAIN key.to THEN Bad("text")
  ELSE Check(\A k \in DOMAIN key.to : key.to[k] \in Lifecycles, "enum")

IndexContract(s) ==
  LET pointers == {s.document_lifecycle_pointer, s.lifecycle_pointer} \ {Absent} IN
  All({Pointer(s.index_items_pointer), Pointer(s.index_document_pointer),
       Between(s.max_documents, 1, MaxDocumentsLimit),
       Optional(s.document_lifecycle_pointer, Pointer(s.document_lifecycle_pointer)),
       Optional(s.lifecycle_pointer, Pointer(s.lifecycle_pointer)),
       Check(s.document_lifecycle_pointer = Absent \/ s.lifecycle_pointer = Absent, "conditional"),
       LifecycleMap(s.lifecycle_map, pointers # {})})

NetworkSource(s, scheme) ==
  All({URL(s.url, "endpoint"), Pointer(s.items_pointer), Pointer(s.version_pointer),
       Capture(s.version_regex, "version"), Duration(s.cache_ttl, 60, 2592000),
       FlattenContract(s), RequiredTokens(s), AssetFields(s.asset_fields),
       MetadataFields(s.metadata_fields), Overrides(s.lifecycle_overrides, scheme),
       IF s.kind = "json-index" THEN IndexContract(s) ELSE Fine}
      \cup {Optional(s[k], Pointer(s[k])) : k \in {"channel_pointer", "published_at_pointer",
            "assets_pointer", "item_flatten_pointer", "item_parent_published_at_pointer"}})

StaticAsset(a) ==
  All({FileName(a.name), URL(a.url, "endpoint"), Positive(a.size),
       Enum(a.digest_algorithm, Algorithms), Digest(a.digest, a.digest_algorithm),
       Enum(a.os, {"windows", "linux"}), Enum(a.arch, {"amd64"}), Enum(a.libc, {"none", "glibc"}),
       RFC3339(a.published_at), Text(a.release_tag, NameMaxBytes), URL(a.release_url, "endpoint"),
       DecimalID(a.release_id), DecimalID(a.asset_id)})
(* An asset that is left out fails its version as well.                    *)
StaticAssets(key) ==
  LET assets == Tables(key, 1, StaticAssetMax, StaticAsset) IN
  [assets EXCEPT !.ok = assets.ok /\ assets.kept = key.entries]
StaticVersion(v, scheme) ==
  All({ExactVersion(v.version, scheme), Enum(v.channel, Channels), Enum(v.lifecycle, Lifecycles),
       URL(v.lifecycle_evidence, "reference"), UTCTime(v.lifecycle_assessed_at),
       RFC3339(v.published_at), StaticAssets(v.assets)})
StaticVersions(key, scheme) ==
  Tables(key, 1, StaticVersionMax, LAMBDA v : StaticVersion(v, scheme))

SourceKind(s) == Enum(s.kind, {"json", "json-index", "static"})
(* A source of an unknown kind, or with keys of another kind, is not read. *)
SourceRead(s) == s # Absent /\ SourceKind(s).ok /\ KindKeys(s).ok
VersionSource(s, scheme) ==
  IF s = Absent THEN Bad("missing")
  ELSE IF ~SourceKind(s).ok THEN SourceKind(s)
  ELSE IF ~KindKeys(s).ok THEN KindKeys(s)
  ELSE All({Between(s.max_items, 1, MaxItemsLimit),
            IF s.kind = "static" THEN StaticVersions(s.static_versions, scheme)
            ELSE NetworkSource(s, scheme)})

(***************************************************************************)
(* [[platforms.storage]]                                                   *)
(***************************************************************************)
StorageKinds == {"config", "content-cache", "build-cache", "global-bin", "global-packages",
                 "runtime-data"}
(* What outlives a version is not purged with it, and the other way round. *)
PurgesOf(scope) == IF scope = "tool" THEN {"retain", "explicit"}
                   ELSE IF scope = "version" THEN {"with-version"} ELSE {"retain", "explicit", "with-version"}
StoragePath(key) == Require(key, Check(key.form = "relative", "storage_path"))
Storage(s) ==
  All({ScopedID(s.id), Enum(s.kind, StorageKinds), Enum(s.scope, {"tool", "version"}),
       Enum(s.purge, {"retain", "explicit", "with-version"}), StoragePath(s.path),
       IF Absent \in {s.scope, s.purge} THEN Fine ELSE Check(s.purge \in PurgesOf(s.scope), "conditional")})

Inside(p, q) == Len(p) <= Len(q) /\ \A i \in 1 .. Len(p) : p[i] = q[i]
(* checkPathDisjoint: no storage lies in another                           *)
Disjoint(storages) ==
  \A s, t \in storages : s # t => ~Inside(s.path.parts, t.path.parts)
Separate(storages) ==
  IF storages.ok /\ ~Disjoint(storages.kept)
  THEN [Refused("storage_path") EXCEPT !.why = @ \cup storages.why] ELSE storages
Storages(key) == Separate(Tables(key, 0, StorageMax, Storage))

(***************************************************************************)
(* newTemplateContext: what the templates of the platform may name.  A     *)
(* static source declares every asset field.                               *)
(***************************************************************************)
Context(s, storages) ==
  LET network == SourceRead(s) /\ s.kind # "static" IN
  [storages |-> {t.id : t \in storages},
   metadata |-> IF network /\ s.metadata_fields # Absent /\ MetadataFields(s.metadata_fields).ok
                THEN s.metadata_fields.entries ELSE {},
   assets |-> IF SourceRead(s) /\ s.kind = "static" THEN AssetFieldNames
              ELSE IF network /\ s.asset_fields # Absent /\ AssetFields(s.asset_fields).ok
              THEN DOMAIN s.asset_fields ELSE {}]
NoContext == [storages |-> {}, metadata |-> {}, assets |-> {}]

(***************************************************************************)
(* [platforms.artifact]                                                    *)
(***************************************************************************)
ArtifactURL(key, context) == TemplateURL(key, context)
ArtifactFile(key, context) == TemplateFile(key, context)
Given(key) == key # Absent /\ key.n # 0

Selector(s) ==
  IF s = Absent THEN Bad("missing")
  ELSE All({Optional(s.name_regex, RegexSyntax(s.name_regex)),
            Optional(s.os, Enum(s.os, {"windows", "linux"})), Optional(s.arch, Enum(s.arch, {"amd64"})),
            Optional(s.libc, Enum(s.libc, {"none", "glibc"})),
            Check(\E k \in {"name_regex", "os", "arch", "libc"} : s[k] # Absent, "conditional")})

(* An asset source names its artifact by the asset, or by both templates.  *)
BySource(a, context) ==
  IF a.source = "template"
  THEN All({ArtifactURL(a.url, context), ArtifactFile(a.file, context), Forbid(a.selector)})
  ELSE IF a.source = "asset"
  THEN LET url == Given(a.url) /\ ArtifactURL(a.url, context).ok
           file == Given(a.file) /\ ArtifactFile(a.file, context).ok IN
       All({IF Given(a.url) THEN ArtifactURL(a.url, context) ELSE Fine,
            IF Given(a.file) THEN ArtifactFile(a.file, context) ELSE Fine,
            Check(url <=> file, "conditional"), Selector(a.selector)})
  ELSE Fine

SourceGivesAlgorithm(s) ==
  /\ SourceRead(s)
  /\ IF s.kind = "static" THEN s.static_versions # Absent /\ s.static_versions.count > 0
     ELSE s.asset_fields # Absent /\ AssetFields(s.asset_fields).ok
          /\ "digest_algorithm" \in DOMAIN s.asset_fields

AssetFieldChecksum(c, source, s) ==
  All({Forbid(c.url), Forbid(c.line_format), Check(source # "template", "conditional"),
       IF c.algorithm # Absent THEN Enum(c.algorithm, Algorithms)
       ELSE Check(SourceGivesAlgorithm(s), "conditional")})
(* The template of a checksum file sees no metadata and no asset.          *)
TextFileChecksum(c) ==
  All({TemplateURL(c.url, NoContext), Enum(c.line_format, {"sha256-space-filename"}),
       Forbid(c.algorithm)})
Checksum(c, source, s) ==
  IF c = Absent THEN Bad("missing")
  ELSE IF c.kind = "asset-field" THEN AssetFieldChecksum(c, source, s)
  ELSE IF c.kind = "text-file" THEN TextFileChecksum(c)
  ELSE Enum(c.kind, {"asset-field", "text-file"})

RedirectHosts(key) ==
  Optional(key, IF key.count > ArrayMax THEN Bad("limit")
                ELSE IF \E h \in key.entries : ~Hostname(h) THEN Bad("text") ELSE Unique(key))

Artifact(a, context, s) ==
  IF a = Absent THEN Bad("missing")
  ELSE All({Text(a.id, NameMaxBytes), Optional(a.id, Check(a.id.form = "primary" \/ ~Text(a.id, NameMaxBytes).ok, "enum")),
            Enum(a.source, {"template", "asset"}), Enum(a.format, {"zip", "tar.gz"}),
            NonNegative(a.size), RedirectHosts(a.redirect_hosts),
            BySource(a, context), Checksum(a.checksum, a.source, s)})

(***************************************************************************)
(* [platforms.runtime]                                                     *)
(***************************************************************************)
Fold(name, windows) == IF windows /\ name.form = "lower" THEN [name EXCEPT !.form = "upper"] ELSE name

PathList(key, context) ==
  Require(key, IF key.count > ArrayMax THEN Bad("limit")
               ELSE All({PathTemplate(x, CommandScope, context) : x \in key.entries} \cup {Unique(key)}))
EnvironmentSet(key, context, windows) ==
  Require(key, IF key.count > EnvironmentEntryMax THEN Bad("limit")
               ELSE All({Check(EnvironmentName(n), "environment") : n \in key.names}
                        \cup {IF IsPathTemplate(x) THEN PathTemplate(x, CommandScope, context)
                              ELSE LiteralArg(x) : x \in key.entries}
                        \cup {IF windows THEN Unique(key) ELSE Fine}))
NameList(key) ==
  Require(key, IF key.count > EnvironmentEntryMax THEN Bad("limit")
               ELSE All({Check(EnvironmentName(n), "environment") : n \in key.entries} \cup {Unique(key)}))
(* checkEnvironmentConflicts: no variable is both set and unset            *)
Conflicts(p, windows) ==
  Check(~\E n \in p.set.names, m \in p.unset.entries : Fold(n, windows) = Fold(m, windows), "environment")

Profile(p, context, windows) ==
  LET set == EnvironmentSet(p.set, context, windows)
      unset == NameList(p.unset) IN
  All({ScopedID(p.id), PathList(p.path_prepend, context), PathList(p.path_append, context),
       set, unset, NameList(p.override_allowed), NameList(p.shell_export),
       IF set.ok /\ unset.ok THEN Conflicts(p, windows) ELSE Fine})

Command(c, context, profiles) ==
  All({CommandName(c.name),
       Require(c.target, PathTemplate(c.target, TargetScope, context)),
       Args(c.args, CommandScope, context),
       Require(c.environment_profile, Check(c.environment_profile \in profiles, "conditional")),
       Bool(c.required), Bool(c.passthrough_signals),
       Enum(c.working_directory, {"inherit", "payload"})})

Profiles(key, context, windows) ==
  Tables(key, 1, ProfileMax, LAMBDA e : Profile(e, context, windows))
Commands(key, context, profiles) ==
  Tables(key, 1, CommandMax, LAMBDA c : Command(c, context, {e.id : e \in profiles.kept}))
WithProfiles(r, context, profiles) ==
  [profiles |-> profiles, commands |-> Commands(r.commands, context, profiles)]
Runtime(r, context, windows) ==
  IF r = Absent THEN [profiles |-> Refused("missing"), commands |-> Refused("missing")]
  ELSE WithProfiles(r, context, Profiles(r.environment, context, windows))

(***************************************************************************)
(* [platforms.validation]                                                  *)
(***************************************************************************)
ExpectedRoot(key, context) ==
  Require(key, IF key.kind = "storage" THEN Check(key.name \in context.storages, "conditional")
               ELSE Check(key.kind \in {"payload", "probe_temp"}, "enum"))
RequiredPaths(key, context) ==
  Optional(key, IF key.count > ArrayMax THEN Bad("limit")
                ELSE All({IF r.kind \notin {"file", "directory"} THEN Bad("enum")
                          ELSE PathTemplate(r.path, ProbeScope, context) : r \in key.entries}
                         \cup {Unique(key)}))

Expectation(v, context) ==
  IF v.expect = "version"
  THEN All({Capture(v.regex, "version"),
            Require(v.expected_version, PathTemplate(v.expected_version, VersionScope, context)),
            Forbid(v.expected_root)})
  ELSE IF v.expect = "success"
  THEN All({Optional(v.regex, RegexSyntax(v.regex)), Forbid(v.expected_version), Forbid(v.expected_root)})
  ELSE IF v.expect = "path-within"
  THEN All({Capture(v.regex, "path"), ExpectedRoot(v.expected_root, context), Forbid(v.expected_version)})
  ELSE Fine

Probe(v, context, commands) ==
  All({ScopedID(v.id), Require(v.runtime_command, Check(v.runtime_command \in commands, "conditional")),
       Args(v.args, ProbeScope, context), Enum(v.stream, {"stdout", "stderr", "combined"}),
       Bool(v.required), Duration(v.timeout, 1, 120), RequiredPaths(v.required_paths, context),
       Enum(v.expect, {"version", "success", "path-within"}), Expectation(v, context)})
Validation(v, context, commands) ==
  IF v = Absent THEN Refused("missing")
  ELSE Tables(v.probes, 0, ProbeMax, LAMBDA probe : Probe(probe, context, {c.name : c \in commands}))

(***************************************************************************)
(* The whole file                                                          *)
(***************************************************************************)
(* A platform that was read: what is wrong with it, and what is kept.      *)
PlatformRead(p, scheme, context, storages, runtime, probes) ==
  [why |-> UNION ({a.why : a \in {
     Tuple(p), Enum(p.artifact_kind, {"official", "third-party"}), LicenseNotice(p.license_notice),
     Provider(p.provider, p.artifact_kind), VersionSource(p.version_source, scheme), Install(p.install),
     Artifact(p.artifact, context, p.version_source)}}
     \cup {storages.why, runtime.profiles.why, runtime.commands.why, probes.why}),
   value |-> [id |-> p.id, artifact_kind |-> p.artifact_kind, license_notice |-> p.license_notice,
              provider |-> p.provider, version_source |-> p.version_source, artifact |-> p.artifact,
              install |-> p.install, storages |-> storages.kept, profiles |-> runtime.profiles.kept,
              commands |-> runtime.commands.kept, probes |-> probes.kept]]
(* Each table is read with what the tables before it gave.                 *)
Platform(p, scheme) ==
  LET storages == Storages(p.storage)
      context == Context(p.version_source, storages.kept)
      runtime == Runtime(p.runtime, context, OnWindows(p)) IN
  PlatformRead(p, scheme, context, storages, runtime,
               Validation(p.validation, context, runtime.commands.kept))

StaticSet(p) == {v.version : v \in p.version_source.static_versions.entries}
(* checkStaticVersionSets: static platforms offer the same versions.       *)
StaticSets(platforms) ==
  LET static == {i \in DOMAIN platforms : LET s == platforms[i].version_source IN
                   SourceRead(s) /\ s.kind = "static" /\ s.static_versions # Absent} IN
  Check(\A i, j \in static : StaticSet(platforms[i]) = StaticSet(platforms[j]), "platform_set")

(* what is checked of the platforms together, when there are not too many  *)
PlatformSet(platforms) ==
  IF Len(platforms) > PlatformMax THEN Fine
  ELSE All({Check(\A i, j \in DOMAIN platforms :
                    i # j /\ Tuple(platforms[i]).ok => platforms[i].id # platforms[j].id, "duplicate"),
            StaticSets(platforms)})
Platforms(platforms, scheme) ==
  IF Len(platforms) = 0 THEN <<[why |-> {"missing"}, value |-> Absent]>>
  ELSE IF Len(platforms) > PlatformMax THEN <<[why |-> {"limit"}, value |-> Absent]>>
  ELSE [i \in DOMAIN platforms |-> Platform(platforms[i], scheme)]

(* Parse gives the definition when no diagnostic was added.                *)
DefinitionRead(d, platforms) ==
  [why |-> File(d.file).why \cup Tool(d.tool, d.basename).why
             \cup PlatformSet(d.platforms).why \cup UNION {platforms[i].why : i \in DOMAIN platforms},
   platforms |-> [i \in DOMAIN platforms |-> platforms[i].value]]
Read(d) ==
  IF ~Decodes(d.file) THEN [why |-> File(d.file).why, platforms |-> <<>>]
  ELSE DefinitionRead(d, Platforms(d.platforms, SchemeOf(d.tool)))
=============================================================================
