------------------------------- MODULE Pipeline -------------------------------
(***************************************************************************)
(* The way of a tool definition to a receipt: the definition is parsed,    *)
(* its version source is read into a catalog, a version is chosen, a plan  *)
(* is made and approved, the probes run in the staged payload, and the     *)
(* receipt is encoded.  Every step is carried out by a package that has    *)
(* its own idea of what the one before it let through.                     *)
(*                                                                         *)
(* The version is installed twice, by two operations that know nothing of  *)
(* one another, so that their receipts can be compared.  What the disk and *)
(* the locks do meanwhile is the subject of ExecuteInstall.                *)
(***************************************************************************)
EXTENDS StoreRules

CONSTANTS
  Inputs,      \* definitions, each with what the web answers
  Operations   \* the operations that install, in their order

VARIABLES
  given,      \* the file of the definition, whether it lists its probes by their IDs, and the web
  platform,   \* what Parse made of the file: its first platform
  step,       \* what has been done
  asked,      \* the version that was asked for
  catalog, chosen, plan,
  outcomes,   \* of the probes that have run in the present operation
  receipts,   \* of the operations that are done
  fault,      \* a process failed or said something else than the definition expects
  ended       \* where the pipeline stopped, "" as long as it goes on

pipelineVars == <<given, platform, step, asked, catalog, chosen, plan, outcomes, receipts, fault, ended>>

scheme == given.definition.tool.version_scheme
onWindows == platform.id = "windows-amd64"
Grammar == INSTANCE LicenseGrammar
(* A definition has a list of platforms, each with finitely many commands, *)
(* probes, arguments and paths; what follows the root of a path is a list, *)
(* and the root is one of the variables of the text.                       *)
(* The license of its tool is the one text whose grammar is spelled out:   *)
(* its form says what the parser makes of its tokens.                      *)
spelled(license) ==
  /\ license.tokens \in Seq(Grammar!Tokens) /\ license.n \in Nat
  /\ license.n = 0 => license.tokens = <<>>
  /\ license.form = "license" <=> Grammar!License(license.tokens)
isList(list) == Len(list) \in Nat /\ DOMAIN list = 1 .. Len(list)
isPath(x) == x.parts \in Seq(ToSet(x.parts)) /\ x.root \in x.tokens \cup {NoToken}
isTable(key, Entry(_)) == key # Absent => IsFiniteSet(key.entries) /\ \A e \in key.entries : Entry(e)
isPlatform(p) ==
  /\ p.validation # Absent =>
       isTable(p.validation.probes, LAMBDA v :
         isTable(v.args, isPath) /\ isTable(v.required_paths, LAMBDA r : isPath(r.path)))
  /\ p.runtime # Absent => isTable(p.runtime.commands, LAMBDA c :
                                     (c.target # Absent => isPath(c.target)) /\ isTable(c.args, isPath))
isDefinition(d) ==
  /\ isList(d.platforms) /\ \A i \in DOMAIN d.platforms : isPlatform(d.platforms[i])
  /\ d.tool # Absent /\ d.tool.license # Absent => spelled(d.tool.license)
ASSUME InputsAssumption == \A input \in Inputs : isDefinition(input.definition) /\ input.byID \in BOOLEAN
(* There is an operation, and no two have the same identifier.             *)
ASSUME OperationsAssumption ==
  Operations \in Seq(ToSet(Operations)) /\ Operations # <<>> /\ IsInjective(Operations)

PipelineInit ==
  /\ given \in Inputs
  /\ platform = Absent
  /\ step = "file" /\ asked = Absent /\ fault = FALSE /\ ended = ""
  /\ catalog = Absent /\ chosen = Absent /\ plan = Absent /\ outcomes = <<>> /\ receipts = <<>>

Stop(at) ==
  /\ ended' = at /\ step' = "end"
  /\ UNCHANGED <<given, platform, asked, catalog, chosen, plan, outcomes, receipts>>

(***************************************************************************)
(* definition.Parse, catalog.Refresher, catalog.Resolve                    *)
(***************************************************************************)
Parse ==
  /\ step = "file"
  /\ \E definition \in {Read(given.definition)} :
       IF definition.why = {}
       THEN platform' = definition.platforms[1] /\ step' = "definition"
            /\ UNCHANGED <<given, asked, catalog, chosen, plan, outcomes, receipts, ended>>
       ELSE Stop("definition")
  /\ UNCHANGED fault

Now == 50
read == collectItems(platform, scheme, given)
(* A static source has no URL: the tool and the platform stand for it.     *)
staticSourceIdentity == T("record", 12 + given.definition.tool.id.n)
identity ==
  IF platform.version_source.kind = "static" THEN staticSourceIdentity ELSE platform.version_source.url
catalogOf(items) ==
  BuildCatalog(platform, given.definition.tool.id, T("hex", 64), items,
               identity, Now, given)
Refresh ==
  /\ step = "definition"
  /\ \E items \in {read} :
       IF items.code # "OK" THEN Stop("source")
       ELSE \E built \in {catalogOf(items.value)} :
         IF built.code # "OK" \/ ~EncodeCatalog(built.value, scheme) THEN Stop("catalog")
         ELSE /\ catalog' = built.value /\ step' = "catalog"
              /\ UNCHANGED <<given, platform, asked, chosen, plan, outcomes, receipts, ended>>
  /\ UNCHANGED fault

Texts == {catalog.items[i].version.text : i \in DOMAIN catalog.items}
Choose ==
  /\ step = "catalog"
  /\ \E text \in Texts \cup {Absent} :
       LET answer == IF text = Absent THEN ResolveLatest(catalog.items) ELSE ResolveExact(catalog.items, text) IN
       /\ asked' = text
       /\ IF answer.code = "OK" THEN chosen' = answer.value /\ step' = "chosen" /\ UNCHANGED ended
          ELSE UNCHANGED chosen /\ step' = "end" /\ ended' = answer.code
  /\ UNCHANGED <<given, platform, catalog, plan, outcomes, receipts, fault>>

(***************************************************************************)
(* install.BuildInstallPlan for the operation that is next                 *)
(***************************************************************************)
operation == Operations[Len(receipts) + 1]
Component(name) == T(name, 8)
Directory(role, names) == Path(role, [i \in DOMAIN names |-> Component(names[i])], 9 * Len(names))
DataRoot == Directory("data-root", <<"data">>)
Distribution == Directory("distribution-root", <<"distribution">>)
roots ==
  [version |-> chosen.version.text, platform |-> platform.id,
   payload |-> Directory("payload", <<"data", "operations", operation, "payload">>),
   probeTemp |-> Absent, windows |-> onWindows,
   storage |-> [id \in {s.id : s \in platform.storages} |->
                  Path("storage", <<Component("data"), Component("storage"), id>>, 40)]]
request ==
  [client |-> "client", invocation |-> operation, operation |-> operation,
   createdAt |-> [form |-> "utc", n |-> 20, at |-> Now], tool |-> catalog.tool,
   item |-> chosen, platform |-> platform, roots |-> roots,
   probeTempRoot |-> Directory("staging", <<"data", "operations", operation, "probe">>),
   download |-> Directory("download-cache", <<"data", "cache", "archive">>),
   staging |-> Directory("staging", <<"data", "operations", operation, "payload">>),
   inputs |-> [definition |-> catalog.definition, fetchedAt |-> catalog.fetchedAt]]
MakePlan ==
  /\ step = "chosen"
  /\ LET made == BuildInstallPlan(request) IN
     IF \E it \in made : EncodePlan(it)
     THEN plan' = One(made) /\ step' = "planned"
          /\ UNCHANGED <<given, platform, asked, catalog, chosen, outcomes, receipts, ended>>
     ELSE Stop("plan")
  /\ UNCHANGED fault

(***************************************************************************)
(* app: the approval, and the ports that let pass what the plan names      *)
(***************************************************************************)
Approvals == {AssumeYesApproval} \cup NewApproval("confirmed", {}) \cup NewApproval("confirmed", plan.warnings)
scope == One(ScopeFromPlan(plan, DataRoot, Distribution, onWindows))
Written ==
  {plan.downloads[1].destination, plan.extracts[1].destination}
    \cup {plan.storage[i].target : i \in DOMAIN plan.storage}
    \cup UNION {plan.probes[i].writePaths : i \in DOMAIN plan.probes}
Approve ==
  /\ step = "planned"
  /\ \E approval \in Approvals, invocation \in ToSet(Operations) :
       IF ~CheckApproval(plan, approval) \/ ~CheckPlanIdentity(plan, "client", invocation) THEN Stop("approval")
       ELSE IF ~AllowsDownload(scope, chosen.url) \/ \E path \in Written : AllowsWrite(scope, path) = {}
       THEN Stop("scope")
       ELSE step' = "staged" /\ UNCHANGED <<given, platform, asked, catalog, chosen, plan, outcomes, receipts, ended>>
  /\ UNCHANGED fault

(***************************************************************************)
(* install.ProbeRunner, in the order of the plan                           *)
(***************************************************************************)
(* what the tool says when it is what the definition expects               *)
Says(probe) ==
  [name \in {"version", "path", "other"} |->
     IF name = "version" /\ probe.expectedVersion # Absent
     THEN [says |-> [t \in DOMAIN probe.expectedVersion.says |-> chosen.version.text], rest |-> <<>>]
     ELSE [parts |-> <<Component(name)>>]]
Healthy(probe) ==
  [started |-> TRUE, timedOut |-> FALSE, exit |-> 0, matches |-> TRUE, says |-> Says(probe), at |-> Now + Len(receipts)]
Faulty(probe) ==
  LET well == Healthy(probe) IN
  {[well EXCEPT !.started = FALSE], [well EXCEPT !.timedOut = TRUE], [well EXCEPT !.exit = 1],
   [well EXCEPT !.matches = FALSE], [well EXCEPT !.says["version"] = [parts |-> <<>>]]}
RunProbe ==
  /\ step = "staged" /\ Len(outcomes) < Len(plan.probes)
  /\ LET probe == plan.probes[Len(outcomes) + 1] IN
     \E result \in {Healthy(probe)} \cup Faulty(probe) :
       LET outcome == runOne(probe, result, onWindows) IN
       /\ fault' = (fault \/ result # Healthy(probe))
       /\ IF ~AllowsProcess(scope, processOf(probe)) THEN Stop("scope")
          ELSE IF outcome.code # "OK" THEN Stop("probe")
          ELSE /\ outcomes' = Append(outcomes, outcome.value)
               /\ UNCHANGED <<given, platform, step, asked, catalog, chosen, plan, receipts, ended>>

(***************************************************************************)
(* install.Engine: the receipt.  Its tables are given by the caller, out   *)
(* of the definition.                                                      *)
(***************************************************************************)
Receipt(targets) ==
  [installID |-> operation, installedAt |-> Now + Len(receipts), platform |-> platform.id,
   tool |-> catalog.tool, version |-> chosen.version,
   artifact |-> [kind |-> chosen.providerKind, name |-> platform.provider.name, release |-> chosen.release,
                 url |-> chosen.url, file |-> chosen.file, size |-> chosen.size, digest |-> chosen.digest,
                 checksumSource |-> chosen.checksumSource,
                 thirdPartyApproved |-> chosen.providerKind = "third-party"],
   storage |-> SetToSeq(platform.storages), profiles |-> SetToSeq(platform.profiles),
   commands |-> SetToSeq(platform.commands),
   probes |-> mergeProbeOutcomes(plan.probes, ToSet(outcomes)), targets |-> targets]
Record ==
  /\ step = "staged" /\ Len(outcomes) = Len(plan.probes)
  /\ \E targets \in {CollectCommandTargets(platform, [roots EXCEPT !.probeTemp = Absent])} :
       IF targets = {} THEN Stop("targets")
       ELSE \E receipt \in {Receipt(One(targets))} :
         IF ~EncodeReceipt(receipt) THEN Stop("receipt")
         ELSE /\ receipts' = Append(receipts, receipt)
              /\ step' = IF Len(receipts) + 1 = Len(Operations) THEN "end" ELSE "chosen"
              /\ outcomes' = <<>> /\ plan' = Absent
              /\ UNCHANGED <<given, platform, asked, catalog, chosen, ended>>
  /\ UNCHANGED fault

PipelineNext ==
  \/ Parse \/ Refresh \/ Choose \/ MakePlan \/ Approve \/ RunProbe \/ Record
PipelineSpec == PipelineInit /\ [][PipelineNext]_pipelineVars

(***************************************************************************)
(* Properties                                                              *)
(***************************************************************************)
(* A tool's license is refused exactly when the grammar does not derive it *)
(* or when it is too long, and a definition whose license is refused is    *)
(* not used.                                                               *)
LicenseParsed ==
  LET tool == given.definition.tool
      refused == "license" \in Tool(tool, given.definition.basename).why IN
  tool # Absent /\ tool.license # Absent /\ step # "file" =>
    /\ refused <=> ~Grammar!Derived(tool.license.tokens) \/ tool.license.n > NameMaxBytes
    /\ refused => ended = "definition"

(* A check of the definition that leaves an entry out says so: what was    *)
(* accepted is used as it was written, and nothing of it is lost.          *)
Lists(written, used) ==
  {<<written.storage, used.storages>>, <<written.runtime.environment, used.profiles>>,
   <<written.runtime.commands, used.commands>>, <<written.validation.probes, used.probes>>}
NothingDroppedSilently ==
  step # "file" /\ ended # "definition" =>
    \A pair \in Lists(given.definition.platforms[1], platform) :
      pair[1] # Absent => pair[2] = pair[1].entries

(* The latest version is the greatest of those that are offered as stable  *)
(* and still supported, and no other one is as great.                      *)
LatestIsGreatest ==
  step # "catalog" /\ catalog # Absent /\ asked = Absent =>
    LET greatest == Greatest(catalog.items) IN
    IF chosen = Absent THEN Cardinality(greatest) # 1
    ELSE {catalog.items[i] : i \in greatest} = {chosen} /\ Cardinality(greatest) = 1

(***************************************************************************)
(* What one package lets through and a later one refuses, where it is      *)
(* refused.  Each is a disagreement of the code with itself; the README    *)
(* gives the lines.                                                        *)
(***************************************************************************)
probesOf == platform.probes
ofOperation(x) == x.root.kind \in {"payload", "probe_temp"}
catalogGap ==
  LET a == platform.artifact
      s == platform.version_source
      used == UNION {x.tokens : x \in {a.url, a.file} \ {Absent}}
      fields == IF s.kind = "static" THEN AssetFieldNames ELSE IF s.asset_fields = Absent THEN {} ELSE DOMAIN s.asset_fields IN
  \/ a.source = "template" /\ \E t \in used : t.kind = "asset"
  \/ \E t \in used : t.kind = "asset" /\ t.name.form = "size"
  \/ a.source = "asset" /\ a.url = Absent /\ ~({"name", "url"} \subseteq fields)
  \/ a.checksum.kind = "asset-field" /\ "digest" \notin fields
  \/ /\ s.kind = "static"
     /\ \E v \in s.static_versions.entries : \E b \in v.assets.entries : b.published_at.at # v.published_at.at
planGap ==
  LET ids == {PlanDownloadID, PlanExtractID} \cup {t.id : t \in platform.storages}
      paths == UNION {{lookupCommand(platform, v.runtime_command)} : v \in probesOf}
      texts == {c.target : c \in UNION paths} \cup UNION {c.args.entries : c \in (UNION paths) \cup probesOf} IN
  \/ \E v \in probesOf : v.expect = "path-within" \/ v.id \in ids
  \/ platform.artifact_kind = "third-party" /\ platform.provider.adoption_reason.form # "message"
  \/ onWindows /\ \E x \in texts : \E i \in DOMAIN x.parts : x.parts[i].form = "device"
probeGap ==
  \E v \in probesOf :
    \/ v.regex # Absent /\ v.regex.groups = <<>>
    \/ v.expect = "version" /\ (v.regex.groups[1] # "version" \/ v.expected_version.parts # <<>>)
targetsGap ==
  \E c \in RequiredCommands(platform) : \E x \in c.args.entries :
    x.root.kind = "payload" /\ x.parts # <<>> /\ Kind(x.parts) = "directory"
receiptGap ==
  \/ probesOf = {} \/ \E v \in probesOf : v.expect = "success" /\ v.regex # Absent
  \/ ~\E c \in RequiredCommands(platform) : c.target.parts # <<>>
  \/ \E e \in platform.profiles :
       \E name \in e.set.names \cup e.unset.entries \cup e.override_allowed.entries \cup e.shell_export.entries :
         ~requireEnvName(name)

(* A definition that is accepted, a web that answers as it says and a tool *)
(* that behaves as it says give an install: what the parser accepts, the   *)
(* catalog, the plan, the scope of the operation, the probes and the codec *)
(* of the receipt accept as well, but for the gaps.  And the version of an *)
(* item is what its text is parsed to, so that a catalog that is read from *)
(* its file is the one that was written.                                   *)
VersionsParsed ==
  catalog # Absent =>
    /\ isList(catalog.items)
    /\ \A i \in DOMAIN catalog.items :
         LET item == catalog.items[i] IN
         /\ item # Absent /\ item.version.text \in VersionTexts
         /\ item.version \in ParseVersion(scheme, item.version.text)
AcceptedInstalls ==
  /\ VersionsParsed
  /\ given.fits /\ ~fault =>
       \/ ended \in {"", "definition", "VERSION_NOT_FOUND", "PLATFORM_UNSUPPORTED", "approval"}
       \/ ended = "catalog" /\ catalogGap
       \/ ended = "plan" /\ planGap
       \/ ended = "probe" /\ probeGap
       \/ ended = "targets" /\ targetsGap
       \/ ended = "receipt" /\ receiptGap

(* What an operation that installs the same again finds is the same, as    *)
(* docs/08 wants it, but for three gaps.  A probe names a path: the        *)
(* receipt keeps the path under the directory of the operation.  A list of *)
(* a probe is empty: it is read back as nil.  The probes are not listed by *)
(* their IDs: they are read back in that order.                            *)
pathInProbe ==
  \E v \in probesOf : \/ \E x \in v.args.entries : ofOperation(x)
                      \/ v.required_paths # Absent /\ \E r \in v.required_paths.entries : ofOperation(r.path)
                      \/ \E c \in lookupCommand(platform, v.runtime_command) : \E x \in c.args.entries : ofOperation(x)
emptyListInProbe ==
  \E v \in probesOf :
    \/ v.required_paths = Absent \/ v.required_paths.entries = {}
    \/ \A c \in lookupCommand(platform, v.runtime_command) : c.args.entries \cup v.args.entries = {}
probesOutOfOrder == ~given.byID /\ Cardinality(probesOf) > 1
onDisk(receipt) == ParseReceipt(receipt, given.byID)
TwinInstallsAgree ==
  Len(receipts) = 2 =>
    (SameInstall(onDisk(receipts[1]), receipts[2]) <=> ~(pathInProbe \/ emptyListInProbe \/ probesOutOfOrder))

(* A receipt that was written and is read back is the same installation,   *)
(* as the comment of comparableReceipt and the test of the round trip have *)
(* it.                                                                     *)
RoundTripAgrees == \A i \in DOMAIN receipts : SameInstall(onDisk(receipts[i]), receipts[i])
=============================================================================
