------------------------------ MODULE StoreRules ------------------------------
(***************************************************************************)
(* What package store writes and reads of a catalog, a plan and a receipt. *)
(* An encoder builds the file of the value, sorted, and parses it before   *)
(* it writes it, so that what is written can be read: a value is encoded   *)
(* when the rules below hold of it, and refused otherwise.                 *)
(***************************************************************************)
EXTENDS PlanRules

(* codec.go, fields.go, receiptfile.go                                     *)
requireNonEmpty(text) == text # Absent /\ text.n > 0
requireHTTPSURL(url) ==
  url # Absent /\ url.form \in URLForms("endpoint") /\ url.n \in 1 .. URLMaxBytes
(* A text with a scheme is a URL; the record of a definition has none.     *)
looksLikeURL(text) == text.form # "record"
requireSourceIdentity(text) == requireNonEmpty(text) /\ (looksLikeURL(text) => requireHTTPSURL(text))
requireIdentifier(text) == text.form \in {"word", "kebab"} /\ text.n > 0
requireCommandName(text) == text.form \in {"word", "kebab", "dotted"} /\ text.n > 0
requireMessageID(text) == text # Absent /\ text.form = "message" /\ text.n > 0
requireRelativePath(path) == path.form = "relative"
requireFileName(text) == requireNonEmpty(text) /\ text.form \notin {"separator", "dots"}
requireDigest(digest) ==
  digest # Absent /\ digest.hex.form = "hex" /\ digest.hex.n = HexLength(digest.algorithm)
requireTimestamp(at) == at # Absent
(* An entry without a key of its own, or a key two entries have            *)
requireUnique(list, Key(_)) ==
  \A i, j \in DOMAIN list : i # j => Key(list[i]) # Key(list[j])
requireTable(list, Key(_), Entry(_)) ==
  requireUnique(list, Key) /\ \A i \in DOMAIN list : Entry(list[i])

(* template.go: a text that names no root is left as it is.                *)
matchTemplateRoot(token, scope, storages) ==
  token.kind \in scope /\ (token.kind = "storage" => token.name \in storages)
validateTemplate(x, scope, storages) ==
  /\ x.n > 0
  /\ \A token \in x.tokens : matchTemplateRoot(token, scope, storages)
  /\ IsPathTemplate(x) => x.rest \in {"", "child"} /\ x.tokens = {x.root}
requireTemplateList(list, scope, storages) ==
  \A x \in list.entries : validateTemplate(x, scope, storages)

ProviderKinds == {"official", "third-party"}
ChecksumSources == {"asset-field", "text-file"}
checkStorageScopePurge(s) == s.purge \in PurgesOf(s.scope)

(***************************************************************************)
(* catalog.go                                                              *)
(***************************************************************************)
checkUnavailableReason(item) ==
  IF item.installable THEN item.reason = Absent ELSE requireMessageID(item.reason)
(* What an item that cannot be installed says of its artifact is checked   *)
(* only when it says something.                                            *)
catalogItemArtifact(item) ==
  /\ item.file # Absent \/ item.installable => requireFileName(item.file)
  /\ item.url # Absent \/ item.installable => requireHTTPSURL(item.url)
  /\ item.digest # Absent \/ item.installable => requireDigest(item.digest)
catalogItemFields(item) ==
  /\ item.channel \in Channels /\ item.lifecycle \in Lifecycles
  /\ requireHTTPSURL(item.evidence) /\ requireTimestamp(item.assessedAt)
  /\ checkUnavailableReason(item)
  /\ item.providerKind \in ProviderKinds /\ item.release # Absent
  /\ item.checksumSource \in ChecksumSources
  /\ catalogItemArtifact(item)
(* The order that is checked is the one of the texts, read again.          *)
EncodeCatalog(c, scheme) ==
  LET versions(i) == ParseVersion(scheme, c.items[i].version.text) IN
  /\ requireSourceIdentity(c.identity) /\ requireTimestamp(c.fetchedAt)
  /\ c.expiresAt # Absent => c.expiresAt >= c.fetchedAt
  /\ \A i \in DOMAIN c.items : versions(i) # {} /\ catalogItemFields(c.items[i])
  /\ requireCatalogItemOrder([i \in DOMAIN c.items |-> [version |-> One(versions(i))]])

(***************************************************************************)
(* plan.go, planbuild.go, planarray.go                                     *)
(***************************************************************************)
PlanOperations == {"setup", "setup-remove", "install", "use", "uninstall"}
(* A third party says where it comes from and under which license.         *)
thirdPartyFields(d) ==
  d.kind = "third-party" => requireNonEmpty(d.repository) /\ requireNonEmpty(d.homepage) /\ requireNonEmpty(d.license)
planSummary(s) ==
  /\ s.kind \in ProviderKinds /\ s.platform \in PlatformIDs
  /\ s.channel \in Channels /\ s.lifecycle \in Lifecycles
  /\ requireDigest(s.digest) /\ s.checksumSource \in ChecksumSources
  /\ requireNonEmpty(s.provider.name) /\ s.release # Absent
  /\ thirdPartyFields([kind |-> s.kind, repository |-> s.provider.repository,
                       homepage |-> s.provider.homepage, license |-> s.provider.license])
planDownload(d) ==
  /\ requireIdentifier(d.id) /\ d.kind \in ProviderKinds /\ requireNonEmpty(d.name) /\ d.release # Absent
  /\ requireHTTPSURL(d.url) /\ requireFileName(d.file) /\ d.size >= 0
  /\ requireDigest(d.digest) /\ d.checksumSource \in ChecksumSources
  /\ IF d.kind = "official" THEN d.reason = Absent ELSE requireMessageID(d.reason)
  /\ thirdPartyFields(d)
  /\ d.destination.role \in {"download-cache", "staging"}
planExtract(e, downloads) ==
  /\ requireIdentifier(e.id) /\ e.source \in downloads /\ e.format \in {"zip", "tar.gz"}
  /\ e.strip \in {0, 1} /\ e.destination.role = "staging"
planArg(arg) == arg.kind = "literal" => arg.value.n > 0

(* receipt.go; reported is Absent in a plan                                *)
checkProbeExpectFields(p, reported) ==
  IF p.expect = "version"
  THEN /\ Absent \notin {p.regex, p.expectedVersion} /\ p.expectedRoot = Absent
       /\ reported \in {Absent, p.expectedVersion}
  ELSE IF p.expect = "success" THEN {p.expectedVersion, p.expectedRoot, reported} = {Absent}
  ELSE Absent \notin {p.regex, p.expectedRoot} /\ {p.expectedVersion, reported} = {Absent}
probeFields(p, reported) ==
  /\ requireIdentifier(p.id) /\ requireCommandName(p.command)
  /\ p.stream \in {"stdout", "stderr", "combined"} /\ p.expect \in {"version", "success", "path-within"}
  /\ p.timeout.n \in 1 .. 120 /\ checkProbeExpectFields(p, reported)
planProbe(p) ==
  /\ probeFields(p, Absent) /\ requireHTTPSURL(p.url) /\ requireDigest(p.digest)
  /\ \A i \in DOMAIN p.args : planArg(p.args[i])
planStorage(s) == requireIdentifier(s.id) /\ s.kind \in StorageKinds /\ checkStorageScopePurge(s)

IDsOf(list) == [i \in DOMAIN list |-> list[i].id]
requireUniquePlanIDs(plan) ==
  IsInjective(IDsOf(plan.downloads) \o IDsOf(plan.extracts) \o IDsOf(plan.probes)
              \o IDsOf(plan.writes) \o IDsOf(plan.storage))
EncodePlan(plan) ==
  /\ plan.kind \in PlanOperations /\ requireTimestamp(plan.createdAt)
  /\ planSummary(plan.summary)
  /\ plan.warnings \subseteq PlanWarningCodes /\ plan.summary.warnings = Cardinality(plan.warnings)
  /\ plan.setup = Absent
  /\ \A i \in DOMAIN plan.downloads : planDownload(plan.downloads[i])
  /\ \A i \in DOMAIN plan.extracts : planExtract(plan.extracts[i], {d.id : d \in ToSet(plan.downloads)})
  /\ \A i \in DOMAIN plan.probes : planProbe(plan.probes[i])
  /\ \A i \in DOMAIN plan.storage : planStorage(plan.storage[i])
  /\ requireUniquePlanIDs(plan)

(***************************************************************************)
(* receipt.go                                                              *)
(***************************************************************************)
(* envNameRe: a letter or an underscore, then letters, digits, underscores *)
requireEnvName(name) == name.form \in {"upper", "lower", "word"} /\ name.n > 0
requireEnvNameList(list, windows) ==
  (\A name \in list.entries : requireEnvName(name)) /\ (windows => list.unique)

receiptArtifact(a) ==
  /\ a.kind \in ProviderKinds /\ requireNonEmpty(a.name) /\ a.release # Absent
  /\ requireHTTPSURL(a.url) /\ requireFileName(a.file) /\ a.size >= 0
  /\ requireDigest(a.digest) /\ a.checksumSource \in ChecksumSources
  /\ a.thirdPartyApproved <=> a.kind = "third-party"
receiptStorage(s) ==
  requireIdentifier(s.id) /\ s.kind \in StorageKinds /\ requireRelativePath(s.path) /\ checkStorageScopePurge(s)
receiptProfile(e, storages, windows) ==
  /\ requireIdentifier(e.id)
  /\ requireTemplateList(e.path_prepend, CommandScope, storages)
  /\ requireTemplateList(e.path_append, CommandScope, storages)
  /\ \A names \in {e.unset, e.override_allowed, e.shell_export} : requireEnvNameList(names, windows)
  /\ requireEnvNameList([entries |-> e.set.names, unique |-> e.set.unique], windows)
  /\ requireTemplateList(e.set, CommandScope, storages)
receiptCommand(c, storages, profiles) ==
  /\ requireCommandName(c.name) /\ validateTemplate(c.target, CommandScope, storages)
  /\ requireTemplateList(c.args, CommandScope, storages)
  /\ c.environment_profile \in profiles /\ c.working_directory \in {"inherit", "payload"}
(* The arguments and paths of a probe are rendered: they name no root.     *)
receiptProbe(p) ==
  /\ probeFields(p, p.reported) /\ p.status \in {"passed", "skipped"}
  /\ p.required => p.status = "passed"
  /\ requireTimestamp(p.finishedAt)
receiptTable(list, Key(_), Entry(_)) == list # <<>> /\ requireTable(list, Key, Entry)
ID(entry) == entry.id
Name(entry) == entry.name
EncodeReceipt(r) ==
  LET windows == r.platform = "windows-amd64"
      storages == {s.id : s \in ToSet(r.storage)}
      profiles == {e.id : e \in ToSet(r.profiles)} IN
  /\ requireTimestamp(r.installedAt) /\ receiptArtifact(r.artifact)
  /\ requireTable(r.storage, ID, receiptStorage)
  /\ receiptTable(r.profiles, ID, LAMBDA e : receiptProfile(e, storages, windows))
  /\ receiptTable(r.commands, Name, LAMBDA c : receiptCommand(c, storages, profiles))
  /\ receiptTable(r.probes, ID, receiptProbe)
  /\ r.targets # {}

(* What is read of a file that was written: the probes in the order of     *)
(* their IDs, which need not be the order of the definition (of two it is  *)
(* then the other one, which stands for all), and an empty list of a probe *)
(* as nil.  The other tables are taken to be given in their order.         *)
readList(list) == [items |-> list.items, nil |-> list.items = <<>>]
ParseReceipt(receipt, byID) ==
  LET probes == IF byID THEN receipt.probes ELSE Reverse(receipt.probes) IN
  [receipt EXCEPT !.probes = [i \in DOMAIN probes |->
     [probes[i] EXCEPT !.args = readList(probes[i].args), !.requiredPaths = readList(probes[i].requiredPaths)]]]
=============================================================================
