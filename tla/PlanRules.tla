------------------------------ MODULE PlanRules ------------------------------
(***************************************************************************)
(* How package install makes a plan of a definition and a catalog item,    *)
(* runs its probes and says what was installed; how package app derives    *)
(* from the plan what the operation may do.                                *)
(*                                                                         *)
(* A path is its role, its components and its length.  A component is a    *)
(* text.  Roots that are not given are Absent.                             *)
(***************************************************************************)
EXTENDS CatalogRules

LogicalPathMaxBytes == 32768

(***************************************************************************)
(* security/path.go                                                        *)
(***************************************************************************)
Path(role, parts, n) == [role |-> role, parts |-> parts, n |-> n]
ValidateComponent(component, windows) ==
  /\ component.n \in 1 .. PathComponentMaxBytes
  /\ component.form \notin {"dots", "separator", "nul", "not_utf8"}
  /\ windows => component.form \notin {"colon", "device", "dot_last"}
Join(root, components, windows) ==
  IF root = Absent THEN {}
  ELSE LET n == root.n + FoldSeq(LAMBDA c, sum : sum + c.n + 1, 0, components) IN
       When(/\ \A i \in DOMAIN components : ValidateComponent(components[i], windows)
            /\ n <= LogicalPathMaxBytes,
            Path(root.role, root.parts \o components, n))
(* The root itself is in the root; a root without a component holds nothing. *)
IsContained(root, child, windows) ==
  /\ Len(root.parts) \in 1 .. Len(child.parts)
  /\ \A i \in DOMAIN root.parts : Fold(root.parts[i], windows) = Fold(child.parts[i], windows)

(***************************************************************************)
(* install/render.go.  The roots of a text are the version, the platform,  *)
(* and the directories its variables stand for.                            *)
(***************************************************************************)
resolvePathRoot(token, roots) ==
  IF token.kind = "payload" THEN {roots.payload} \ {Absent}
  ELSE IF token.kind = "probe_temp" THEN {roots.probeTemp} \ {Absent}
  ELSE IF token.kind = "storage" /\ token.name \in DOMAIN roots.storage
  THEN {roots.storage[token.name]} \ {Absent} ELSE {}
RenderPath(x, roots) ==
  IF ~IsPathTemplate(x) THEN {}
  ELSE Then(resolvePathRoot(x.root, roots), LAMBDA root :
       {path \in Join(root, x.parts, roots.windows) : path.n <= RenderedMaxBytes})

resolveScalar(token, roots) ==
  IF token.kind = "version" THEN {roots.version} \ {Absent}
  ELSE IF token.kind = "platform.id" THEN {roots.platform} \ {Absent} ELSE {}
RenderText(x, roots) ==
  When(/\ \A token \in x.tokens : resolveScalar(token, roots) # {}
       /\ x.n + VersionBytes <= RenderedMaxBytes,
       [says |-> [token \in x.tokens |-> One(resolveScalar(token, roots))], rest |-> x.parts])

(***************************************************************************)
(* install/planprobe.go                                                    *)
(***************************************************************************)
PlanDownloadID == T("word", 8)
PlanExtractID == T("kebab", 16)

lookupCommand(platform, name) == {c \in platform.commands : c.name = name}
(* An argument is the text it is, or a path; the command's come first.     *)
ArgOf(x, roots) ==
  IF x.tokens = {} THEN {[kind |-> "literal", value |-> x]}
  ELSE Then(RenderPath(x, roots), LAMBDA path : {[kind |-> "path", value |-> path]})
buildPlanArgs(command, args, roots) ==
  Each(SetToSeq(command.args.entries) \o SetToSeq(args.entries), LAMBDA x : ArgOf(x, roots))
buildRequiredPaths(required, roots) ==
  IF required = Absent THEN {<<>>}
  ELSE Each(SetToSeq(required.entries), LAMBDA r :
         Then(RenderPath(r.path, roots), LAMBDA path : {[kind |-> r.kind, path |-> path]}))
(* A key that may be left out stays out, or is rendered.                   *)
IfGiven(key, Render(_)) == IF key = Absent THEN {Absent} ELSE Render(key)

probeRoots(req, probe) ==
  Then(Join(req.probeTempRoot, <<probe.id>>, req.roots.windows), LAMBDA temp :
       {[req.roots EXCEPT !.probeTemp = temp]})
(* The bare words of expected_root name a root without its braces.         *)
WordTemplate(word) == [root |-> NoToken, tokens |-> {}, parts |-> <<>>, word |-> word]
buildPlanProbe(req, probe, roots) ==
  Then(lookupCommand(req.platform, probe.runtime_command), LAMBDA command :
  Then(RenderPath(command.target, roots), LAMBDA executable :
  Then(buildPlanArgs(command, probe.args, roots), LAMBDA args :
  Then(IfGiven(probe.expected_version, LAMBDA x : RenderText(x, roots)), LAMBDA version :
  Then(IfGiven(probe.expected_root, LAMBDA word : RenderPath(WordTemplate(word), roots)), LAMBDA root :
  Then(buildRequiredPaths(probe.required_paths, roots), LAMBDA required :
  {[id |-> probe.id, command |-> command.name, executable |-> executable, args |-> args,
    url |-> req.item.url, digest |-> req.item.digest, workingDirectory |-> roots.probeTemp,
    writePaths |-> {roots.probeTemp}, stream |-> probe.stream, expect |-> probe.expect,
    regex |-> probe.regex, expectedVersion |-> version, expectedRoot |-> root,
    requiredPaths |-> required, timeout |-> probe.timeout, required |-> probe.required]}))))))
buildPlanProbes(req) ==
  Each(SetToSeq(req.platform.probes), LAMBDA probe :
       Then(probeRoots(req, probe), LAMBDA roots : buildPlanProbe(req, probe, roots)))

(***************************************************************************)
(* install/plan.go                                                         *)
(***************************************************************************)
validateRequest(req) ==
  /\ Absent \notin {req.client, req.invocation, req.operation, req.createdAt, req.tool,
                    req.download, req.staging, req.roots.payload}
  /\ req.createdAt.form = "utc" /\ req.item.installable
  /\ req.download.role \in {"download-cache", "staging"} /\ req.staging.role = "staging"
  /\ req.probeTempRoot # Absent => req.probeTempRoot.role = "staging"

buildPlanDownload(req) ==
  LET provider == req.platform.provider IN
  When(Absent \notin {req.item.url, req.item.file, req.item.digest},
       [id |-> PlanDownloadID, kind |-> req.platform.artifact_kind, name |-> provider.name,
        repository |-> provider.repository, homepage |-> provider.homepage, license |-> provider.license,
        release |-> req.item.release, url |-> req.item.url, file |-> req.item.file,
        size |-> req.item.size, digest |-> req.item.digest, checksumSource |-> req.item.checksumSource,
        reason |-> provider.adoption_reason, destination |-> req.download])
buildPlanExtract(req) ==
  [id |-> PlanExtractID, source |-> PlanDownloadID, format |-> req.platform.artifact.format,
   strip |-> req.platform.install.strip_components, destination |-> req.staging]
buildPlanStorage(req) ==
  Each(SetToSeq(req.platform.storages), LAMBDA s :
       When(s.id \in DOMAIN req.roots.storage,
            [id |-> s.id, kind |-> s.kind, scope |-> s.scope, purge |-> s.purge,
             target |-> req.roots.storage[s.id], action |-> "create"]))
buildPlanWarnings(req) ==
  (IF req.platform.artifact_kind = "third-party" THEN {"W_THIRD_PARTY"} ELSE {})
    \cup (IF req.platform.license_notice # Absent THEN {"W_RESTRICTIVE_LICENSE"} ELSE {})
    \cup (IF req.item.channel = "prerelease" THEN {"W_PRERELEASE"} ELSE {})
    \cup (IF req.item.lifecycle = "eol" THEN {"W_EOL"} ELSE {})
buildPlanSummary(req, warnings) ==
  [tool |-> req.tool, version |-> req.item.version, platform |-> req.platform.id,
   kind |-> req.platform.artifact_kind, provider |-> req.platform.provider,
   notice |-> req.platform.license_notice, release |-> req.item.release, channel |-> req.item.channel,
   lifecycle |-> req.item.lifecycle, digest |-> req.item.digest,
   checksumSource |-> req.item.checksumSource, warnings |-> Cardinality(warnings)]
BuildInstallPlan(req) ==
  IF ~validateRequest(req) THEN {}
  ELSE Then(buildPlanDownload(req), LAMBDA download :
       Then(buildPlanStorage(req), LAMBDA storage :
       Then(buildPlanProbes(req), LAMBDA probes :
       {[client |-> req.client, invocation |-> req.invocation, operation |-> req.operation,
         kind |-> "install", createdAt |-> req.createdAt, setup |-> Absent, inputs |-> req.inputs,
         summary |-> buildPlanSummary(req, buildPlanWarnings(req)),
         downloads |-> <<download>>, extracts |-> <<buildPlanExtract(req)>>, probes |-> probes,
         writes |-> <<>>, storage |-> storage, warnings |-> buildPlanWarnings(req)]})))

(***************************************************************************)
(* install/commandtarget.go                                                *)
(***************************************************************************)
(* What the staged payload holds: the archive is as the definition says,   *)
(* and the name of a component tells what it is.                           *)
Kind(parts) ==
  IF parts # <<>> /\ parts[Len(parts)].form \in {"tool", "device"} THEN "file" ELSE "directory"

PathsOfCommand(c, roots) ==
  {RenderPath(c.target, roots)} \cup {RenderPath(x, roots) : x \in {a \in c.args.entries : a.tokens # {}}}
RequiredCommands(platform) == {c \in platform.commands : c.required}
payloadRelative(paths, roots) ==
  {SubSeq(p.parts, Len(roots.payload.parts) + 1, Len(p.parts)) :
     p \in {q \in paths : IsContained(roots.payload, q, roots.windows)}} \ {<<>>}
CollectCommandTargets(platform, roots) ==
  LET rendered == UNION {PathsOfCommand(c, roots) : c \in RequiredCommands(platform)}
      targets == payloadRelative(UNION rendered, roots) IN
  When({} \notin rendered /\ \A t \in targets : Kind(t) = "file", targets)

(***************************************************************************)
(* install/probe.go.  A result says how the process ended and what each    *)
(* capture of the probe's regex takes from its output (nothing: no match). *)
(***************************************************************************)
evaluate(result) == ~result.timedOut /\ result.exit = 0
matchProbe(probe, result) ==
  IF probe.regex = Absent THEN Error("INTERNAL")
  ELSE IF ~result.matches THEN Error("PROBE_FAILED")
  ELSE IF probe.regex.groups = <<>> THEN Error("DEFINITION_INVALID")
  ELSE Ok(result.says[probe.regex.groups[1]])
reportedVersion(probe, result, windows) ==
  LET matched == matchProbe(probe, result) IN
  IF probe.expect = "success"
  THEN IF probe.regex = Absent THEN Ok(Absent) ELSE matched
  ELSE IF matched.code # "OK" THEN matched
  ELSE IF probe.expect = "version"
  THEN IF matched.value = probe.expectedVersion THEN matched ELSE Error("PROBE_FAILED")
  ELSE IF IsContained(probe.expectedRoot, matched.value, windows) THEN Ok(Absent) ELSE Error("PROBE_FAILED")
checkRequiredPaths(probe) ==
  \A i \in DOMAIN probe.requiredPaths : Kind(probe.requiredPaths[i].path.parts) = probe.requiredPaths[i].kind
runOne(probe, result, windows) ==
  LET reported == reportedVersion(probe, result, windows) IN
  IF ~result.started THEN Error("PERMISSION")
  ELSE IF ~evaluate(result) THEN Error("PROBE_FAILED")
  ELSE IF reported.code # "OK" THEN reported
  ELSE IF checkRequiredPaths(probe)
  THEN Ok([id |-> probe.id, reported |-> reported.value, finishedAt |-> result.at])
  ELSE Error("PROBE_FAILED")

(***************************************************************************)
(* install/engine.go: a probe of the receipt is the probe of the plan, its *)
(* paths rendered; one that did not run was skipped.  Its two lists are    *)
(* made with make, so that an empty one is not nil.                        *)
(***************************************************************************)
Made(items) == [items |-> items, nil |-> FALSE]
mergeProbeOutcomes(probes, outcomes) ==
  [i \in DOMAIN probes |->
     LET ran == {o \in outcomes : o.id = probes[i].id} IN
     [id |-> probes[i].id, command |-> probes[i].command, stream |-> probes[i].stream,
      args |-> Made([j \in DOMAIN probes[i].args |-> probes[i].args[j].value]),
      expect |-> probes[i].expect, regex |-> probes[i].regex,
      expectedVersion |-> probes[i].expectedVersion, expectedRoot |-> probes[i].expectedRoot,
      requiredPaths |-> Made(probes[i].requiredPaths), timeout |-> probes[i].timeout,
      required |-> probes[i].required, status |-> IF ran = {} THEN "skipped" ELSE "passed",
      reported |-> IF ran = {} THEN Absent ELSE One(ran).reported,
      finishedAt |-> IF ran = {} THEN Absent ELSE One(ran).finishedAt]]

(***************************************************************************)
(* install/conflict.go: the same installation, but for its own identity    *)
(* and its times.  An empty list and a nil one are the same at the top of  *)
(* the receipt and different inside a probe, as reflect.DeepEqual has it.  *)
(***************************************************************************)
\* Bug: the time of the installation counts.
comparableReceiptTimed(receipt) ==
  [receipt EXCEPT !.installID = Absent, !.probes = [i \in DOMAIN @ |-> [@[i] EXCEPT !.finishedAt = Absent]]]
comparableReceipt(receipt) ==
  [receipt EXCEPT !.installID = Absent, !.installedAt = Absent,
     !.probes = [i \in DOMAIN @ |-> [@[i] EXCEPT !.finishedAt = Absent]]]
SameInstall(left, right) == comparableReceipt(left) = comparableReceipt(right)

(***************************************************************************)
(* app/approval.go: --yes approves what asks for an approval, and a plan   *)
(* is carried out by the invocation that made it.                          *)
(***************************************************************************)
PlanWarningCodes == {"W_THIRD_PARTY", "W_RESTRICTIVE_LICENSE", "W_PRERELEASE", "W_EOL", "W_DESTRUCTIVE",
                     "W_SHELL_MODIFICATION", "W_MODE_CHANGE", "W_RESTART_REQUIRED"}
ApprovalRequiredCodes == PlanWarningCodes \ {"W_RESTART_REQUIRED"}
NewApproval(mode, codes) == When(codes \subseteq PlanWarningCodes, [mode |-> mode, codes |-> codes])
AssumeYesApproval == [mode |-> "assumed", codes |-> ApprovalRequiredCodes]
missing(plan, approval) == (plan.warnings \cap ApprovalRequiredCodes) \ approval.codes
CheckApproval(plan, approval) == approval.mode # Absent /\ missing(plan, approval) = {}
CheckPlanIdentity(plan, client, invocation) == plan.client = client /\ plan.invocation = invocation

(***************************************************************************)
(* app/planscope.go, app/scope.go, app/guard.go: what an operation may do  *)
(***************************************************************************)
planScopeRoots(plan, data, distribution) ==
  When(data.role = "data-root" /\ distribution.role = "distribution-root",
       {data, distribution} \cup {plan.writes[i].target :
          i \in {j \in DOMAIN plan.writes : plan.writes[j].action # "registry-value"}})
processOf(probe) ==
  [executable |-> probe.executable, dir |-> probe.workingDirectory,
   args |-> [j \in DOMAIN probe.args |-> probe.args[j].value]]
ScopeFromPlan(plan, data, distribution, windows) ==
  Then(planScopeRoots(plan, data, distribution), LAMBDA roots :
  {[roots |-> roots, windows |-> windows,
    processes |-> {processOf(plan.probes[i]) : i \in DOMAIN plan.probes},
    downloads |-> {plan.downloads[i].url : i \in DOMAIN plan.downloads}]})
(* The role of the deepest root a write lies in; none when it is refused   *)
AllowsWrite(scope, path) ==
  LET holds == {r \in scope.roots : IsContained(r, path, scope.windows)} IN
  {r.role : r \in {r \in holds : \A s \in holds : Len(s.parts) <= Len(r.parts)}}
AllowsProcess(scope, process) == process \in scope.processes
AllowsDownload(scope, url) == url \in scope.downloads
=============================================================================
