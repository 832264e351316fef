---------------------------- MODULE CatalogRules ----------------------------
(***************************************************************************)
(* How package catalog makes a catalog of a definition's version source:   *)
(* documents, version items, artifacts, digests, and the two ways a        *)
(* version is chosen from the result.                                      *)
(*                                                                         *)
(* A function that can fail in one way is a set of its results, empty when *)
(* it fails; one that can fail in several ways answers [code, value].      *)
(* A JSON value is a record of its kind and what it holds; the text of a   *)
(* string is whatever the key it is read for compares.                     *)
(***************************************************************************)
EXTENDS DefinitionRules, CatalogOrder, SequencesExt

DocumentMaxBytes == 16777216
ChecksumTextMaxBytes == 2097152
VersionBytes == 9

One(results) == CHOOSE r \in results : TRUE
Then(results, F(_)) == UNION {F(r) : r \in results}
When(condition, result) == IF condition THEN {result} ELSE {}
(* every entry of a list or none                                           *)
Each(list, F(_)) ==
  IF \E i \in DOMAIN list : F(list[i]) = {} THEN {} ELSE {[i \in DOMAIN list |-> One(F(list[i]))]}

Ok(value) == [code |-> "OK", value |-> value]
Error(code) == [code |-> code, value |-> Absent]
AnswerOf(answers) == IF answers = {} THEN Error("DEFINITION_INVALID") ELSE One(answers)
OrInvalid(results) == IF results = {} THEN Error("DEFINITION_INVALID") ELSE Ok(One(results))

(***************************************************************************)
(* pointer.go: a token names a key of an object, or a place in an array    *)
(* written without a leading zero.                                         *)
(***************************************************************************)
arrayIndex == ("0" :> 1) @@ ("1" :> 2)
resolveToken(node, key) ==
  IF node.kind = "object" THEN When(key \in DOMAIN node.value, node.value[key])
  ELSE IF node.kind = "array" /\ key \in DOMAIN arrayIndex
  THEN When(arrayIndex[key] \in DOMAIN node.value, node.value[arrayIndex[key]])
  ELSE {}
resolvePointer(root, pointer) ==
  FoldLeft(LAMBDA found, key : Then(found, LAMBDA node : resolveToken(node, key)), {root}, pointer.path)
pointerKind(root, pointer, kind) ==
  Then(resolvePointer(root, pointer), LAMBDA node : When(node.kind = kind, node.value))
pointerArray(root, pointer) == pointerKind(root, pointer, "array")
pointerString(root, pointer) == pointerKind(root, pointer, "string")

(* normalizeTimestamp: a date is its midnight; an offset must be zero      *)
normalizeTimestamp(text) == When(text.form \in {"utc", "date"}, text.at)

(***************************************************************************)
(* document.go, checksum.go: what is made of an answer                     *)
(***************************************************************************)
Received(response, max) ==
  /\ ~response.failed /\ response.status = 200 /\ response.final = "https"
  /\ response.body # Absent /\ response.body.n <= max /\ ~response.body.broken
(* what the web answers to a request for a URL                             *)
Web(web, url) == IF url.base \in DOMAIN web.pages THEN web.pages[url.base] ELSE web.checksums
FetchDocument(response) ==
  IF ~Received(response, DocumentMaxBytes) THEN Error("NETWORK")
  ELSE OrInvalid(When(response.body.json # Absent /\ ~response.body.trailing, response.body.json))
FetchChecksumText(response) ==
  IF Received(response, ChecksumTextMaxBytes) THEN Ok(response.body.lines) ELSE Error("NETWORK")

(***************************************************************************)
(* index.go: the documents an index names, each once, in order             *)
(***************************************************************************)
documentHost(url) == When(url.form = "https", url.host)
allowedChildHosts(source, hosts) == {source.url.host} \cup hosts
checkChildHost(child, source, hosts) ==
  Then(documentHost(child), LAMBDA host : When(host \in allowedChildHosts(source, hosts), child))
Limit(declared, builtin) == IF declared.n \in 1 .. builtin THEN declared.n ELSE builtin
checkDocumentLimit(urls, source) == When(Len(urls) <= Limit(source.max_documents, MaxDocumentsLimit), urls)
FirstOfEach(list) ==
  LET firsts == SelectSeq([i \in DOMAIN list |-> i], LAMBDA i : \A j \in 1 .. i - 1 : list[j] # list[i]) IN
  [k \in DOMAIN firsts |-> list[firsts[k]]]
ChildDocumentURLs(document, source, hosts) ==
  Then(pointerArray(document, source.index_items_pointer), LAMBDA entries :
  Then(Each(entries, LAMBDA e : Then(pointerString(e, source.index_document_pointer),
                                     LAMBDA child : checkChildHost(child, source, hosts))), LAMBDA children :
  checkDocumentLimit(FirstOfEach(children), source)))

(***************************************************************************)
(* judge.go                                                                *)
(***************************************************************************)
DeriveChannel(v) == IF IsPrerelease(v) THEN "prerelease" ELSE "stable"
MapChannel(node) ==
  IF node.kind = "string" THEN When(node.value \in Channels, node.value)
  ELSE IF node.kind = "boolean" THEN {IF node.value THEN "stable" ELSE "prerelease"} ELSE {}
MapLifecycle(map, text) ==
  When(map # Absent /\ text \in DOMAIN map.to, map.to[text])

OverridesOf(source, version) ==
  IF source.lifecycle_overrides = Absent THEN {}
  ELSE {o \in source.lifecycle_overrides.entries : o.version = version.text}
(* mapped is what the source says: Absent when it says nothing             *)
ResolveLifecycle(source, version, mapped) ==
  LET declared == OverridesOf(source, version) IN
  IF declared # {}
  THEN When(mapped \in {Absent, One(declared).status}, [value |-> One(declared).status, from |-> "override"])
  ELSE {IF mapped # Absent THEN [value |-> mapped, from |-> "source"]
        ELSE [value |-> "unknown", from |-> "default"]}
UnusedOverrides(source, versions) ==
  IF source.lifecycle_overrides = Absent THEN {}
  ELSE {o \in source.lifecycle_overrides.entries : o.version \notin {v.text : v \in versions}}

(***************************************************************************)
(* source.go: the items of one document                                    *)
(***************************************************************************)
Raw(node, stamp) == [node |-> node, stamp |-> stamp]
parentStamp(source, parent) ==
  IF source.item_parent_published_at_pointer = Absent THEN {Absent}
  ELSE Then(pointerString(parent, source.item_parent_published_at_pointer), normalizeTimestamp)
flatten(source, parent) ==
  Then(pointerArray(parent, source.item_flatten_pointer), LAMBDA children :
  Then(parentStamp(source, parent), LAMBDA stamp :
  {[i \in DOMAIN children |-> Raw(children[i], stamp)]}))
collectRawItems(source, document) ==
  Then(pointerArray(document, source.items_pointer), LAMBDA parents :
  IF source.item_flatten_pointer = Absent
  THEN {[i \in DOMAIN parents |-> Raw(parents[i], Absent)]}
  ELSE Then(Each(parents, LAMBDA parent : flatten(source, parent)), LAMBDA lists : {FlattenSeq(lists)}))

(* The raw text says whether the regex matches and what it captures.       *)
applyVersionRegex(raw) == When(raw.matches, raw.version)
resolveChannel(source, node, version) ==
  IF source.channel_pointer = Absent THEN {DeriveChannel(version)}
  ELSE Then(resolvePointer(node, source.channel_pointer), MapChannel)
resolvePublishedAt(source, raw) ==
  IF source.published_at_pointer = Absent THEN {raw.stamp}
  ELSE Then(pointerString(raw.node, source.published_at_pointer), normalizeTimestamp)
lifecycleAt(source, node, pointer) ==
  Then(pointerString(node, pointer), LAMBDA text : MapLifecycle(source.lifecycle_map, text))
resolveDocumentLifecycle(source, document) ==
  IF source.document_lifecycle_pointer = Absent THEN {Absent}
  ELSE lifecycleAt(source, document, source.document_lifecycle_pointer)
resolveItemLifecycle(source, node, version, ofDocument) ==
  Then(IF source.lifecycle_pointer = Absent THEN {ofDocument}
       ELSE lifecycleAt(source, node, source.lifecycle_pointer),
       LAMBDA mapped : ResolveLifecycle(source, version, mapped))

buildItem(source, scheme, raw, ofDocument) ==
  Then(pointerString(raw.node, source.version_pointer), LAMBDA text :
  Then(applyVersionRegex(text), LAMBDA canonical :
  Then(ParseVersion(scheme, canonical), LAMBDA version :
  Then(resolveChannel(source, raw.node, version), LAMBDA channel :
  Then(resolvePublishedAt(source, raw), LAMBDA publishedAt :
  Then(resolveItemLifecycle(source, raw.node, version, ofDocument), LAMBDA lifecycle :
  {[version |-> version, raw |-> text.raw, channel |-> channel, publishedAt |-> publishedAt,
    lifecycle |-> lifecycle, node |-> raw.node, static |-> Absent]}))))))

BuildItems(source, scheme, document) ==
  Then(collectRawItems(source, document), LAMBDA raws :
  IF Len(raws) > MaxItemsLimit THEN {}
  ELSE Then(resolveDocumentLifecycle(source, document), LAMBDA ofDocument :
       Each(raws, LAMBDA raw : buildItem(source, scheme, raw, ofDocument))))
CheckItemLimit(items, source) == When(Len(items) <= Limit(source.max_items, MaxItemsLimit), items)

(* static.go                                                               *)
buildStaticItem(scheme, entry) ==
  LET version == One(ParseVersion(scheme, entry.version)) IN
  [version |-> version, raw |-> entry.version, channel |-> entry.channel,
   publishedAt |-> entry.published_at.at, lifecycle |-> [value |-> entry.lifecycle, from |-> "static"],
   node |-> Absent, static |-> entry]
sortByComparisonKey(items) == SortSeq(items, LAMBDA l, r : Above(r.version, l.version))
BuildStaticItems(source, scheme) ==
  LET entries == SetToSeq(source.static_versions.entries) IN
  Then(CheckItemLimit(entries, source), LAMBDA list :
  {sortByComparisonKey([i \in DOMAIN list |-> buildStaticItem(scheme, list[i])])})

(***************************************************************************)
(* refresh.go: the items of all documents, or the first failure.           *)
(***************************************************************************)
FirstError(answers) ==
  answers[CHOOSE i \in DOMAIN answers : answers[i].code # "OK" /\ \A j \in 1 .. i - 1 : answers[j].code = "OK"]
AllOk(answers) == \A i \in DOMAIN answers : answers[i].code = "OK"
itemsOfDocuments(source, scheme, documents) ==
  IF ~AllOk(documents) THEN FirstError(documents)
  ELSE OrInvalid(Then(Each(documents, LAMBDA d : BuildItems(source, scheme, d.value)), LAMBDA lists :
                 CheckItemLimit(FlattenSeq(lists), source)))
collectIndexItems(source, scheme, hosts, index, web) ==
  AnswerOf(Then(ChildDocumentURLs(index, source, hosts), LAMBDA urls :
            {itemsOfDocuments(source, scheme, [i \in DOMAIN urls |-> FetchDocument(Web(web, urls[i]))])}))
redirectHosts(artifact) == IF artifact.redirect_hosts = Absent THEN {} ELSE artifact.redirect_hosts.entries
itemsOfFirst(p, scheme, first, web) ==
  IF first.code # "OK" THEN first
  ELSE IF p.version_source.kind = "json-index"
  THEN collectIndexItems(p.version_source, scheme, redirectHosts(p.artifact), first.value, web)
  ELSE itemsOfDocuments(p.version_source, scheme, <<first>>)
collectItems(p, scheme, web) ==
  IF p.version_source.kind = "static" THEN OrInvalid(BuildStaticItems(p.version_source, scheme))
  ELSE itemsOfFirst(p, scheme, FetchDocument(Web(web, p.version_source.url)), web)

(***************************************************************************)
(* asset.go: what an item says of its files                                *)
(***************************************************************************)
assetSize(node, pointer) ==
  Then(pointerKind(node, pointer, "number"), LAMBDA size : When(size.form = "number" /\ size.n >= 0, size))
assignAssetField(field, node, pointer) ==
  IF field = "size" THEN assetSize(node, pointer)
  ELSE Then(pointerString(node, pointer), LAMBDA text :
       IF field = "digest_algorithm" THEN When(text \in Algorithms, text)
       ELSE IF field = "published_at" THEN normalizeTimestamp(text) ELSE {text})
buildAsset(fields, node) ==
  LET found == [f \in DOMAIN fields |-> assignAssetField(f, node, fields[f])] IN
  When(\A f \in DOMAIN fields : found[f] # {},
       [f \in AssetFieldNames |-> IF f \in DOMAIN fields THEN One(found[f]) ELSE Absent])
buildAssets(source, node) ==
  IF source.assets_pointer = Absent THEN {<<>>}
  ELSE Then(pointerArray(node, source.assets_pointer), LAMBDA nodes :
       Each(nodes, LAMBDA asset :
         buildAsset(IF source.asset_fields = Absent THEN <<>> ELSE source.asset_fields, asset)))
buildMetadata(source, node) ==
  IF source.metadata_fields = Absent THEN {<<>>}
  ELSE Then(pointerString(node, source.metadata_fields.pointer), LAMBDA text :
       {[key \in source.metadata_fields.entries |-> text]})
hasRequiredTokens(source, node) ==
  IF source.required_tokens_pointer = Absent THEN {TRUE}
  ELSE Then(pointerArray(node, source.required_tokens_pointer), LAMBDA nodes :
       When((\A i \in DOMAIN nodes : nodes[i].kind = "string") /\ IsInjective(nodes),
            \A t \in source.required_tokens.entries : \E i \in DOMAIN nodes : nodes[i].value = t))

(***************************************************************************)
(* artifact.go                                                             *)
(***************************************************************************)
matchesSelector(asset, selector) ==
  /\ selector.name_regex # Absent => asset.name # Absent /\ asset.name.form = selector.name_regex.matches
  /\ \A k \in {"os", "arch", "libc"} : selector[k] # Absent => asset[k] = selector[k]
selectAsset(selector, assets) ==
  LET matched == {i \in DOMAIN assets : matchesSelector(assets[i], selector)} IN
  IF matched = {} THEN {Absent}
  ELSE When(Cardinality(matched) = 1, assets[One(matched)])

(* A value is a text: its form, its length and what it says.  Every field  *)
(* but the size may be used; an undeclared one is empty.                   *)
Enumerated == {"digest_algorithm", "os", "arch", "libc", "published_at"}
assetFieldValue(asset, field) ==
  IF field = "size" \/ asset[field] = Absent THEN {}
  ELSE {IF field \in Enumerated THEN [form |-> "word", n |-> 5, of |-> asset[field]] ELSE asset[field]}
templateValue(token, values) ==
  Then(IF token.kind = "version" THEN {[form |-> "version", n |-> VersionBytes, of |-> values.version.text]}
       ELSE IF token.kind = "metadata" THEN When(token.name \in DOMAIN values.metadata, values.metadata[token.name])
       ELSE IF token.kind = "asset" /\ values.asset # Absent THEN assetFieldValue(values.asset, token.name.form)
       ELSE {}, LAMBDA value : When(value.n > 0, value))
(* escaped, a value cannot add a separator                                 *)
renderTemplate(x, values, escape) ==
  Then({[t \in x.tokens |-> templateValue(t, values)]}, LAMBDA found :
  IF \E t \in x.tokens : found[t] = {} THEN {}
  ELSE LET value == [t \in x.tokens |-> One(found[t])]
           n == x.n + MapThenSumSet(LAMBDA t : value[t].n - 1, x.tokens)
           split == ~escape /\ \E t \in x.tokens : value[t].form = "separator" IN
       When(n <= RenderedMaxBytes, [form |-> IF split THEN "separator" ELSE x.form, n |-> n, base |-> value]))

checkArtifactURL(url) == When(url.form \in {"https", "query"}, url)
checkFileName(name) ==
  When(name.form \notin {"separator", "dots", "nul"} /\ name.n \in 1 .. PathComponentMaxBytes, name)

resolvedArtifact(url, file, size, asset) == [url |-> url, file |-> file, size |-> size, asset |-> asset]
Rendered(artifact, values, size) ==
  Then(renderTemplate(artifact.url, values, TRUE), LAMBDA rendered :
  Then(checkArtifactURL(rendered), LAMBDA url :
  Then(renderTemplate(artifact.file, values, FALSE), LAMBDA name :
  Then(checkFileName(name), LAMBDA file : {resolvedArtifact(url, file, size, values.asset)}))))
assetURLAndFile(artifact, values, size) ==
  IF artifact.url # Absent THEN Rendered(artifact, values, size)
  ELSE LET asset == values.asset IN
       IF Absent \in {asset.url, asset.name} THEN {}
       ELSE Then(checkArtifactURL(asset.url), LAMBDA url :
            Then(checkFileName(asset.name), LAMBDA file : {resolvedArtifact(url, file, size, asset)}))
(* The definition's size, when it has one, wins over the asset's; without  *)
(* an asset that matches there is no artifact for this platform.           *)
resolveArtifact(artifact, values, assets) ==
  IF artifact.source = "template" THEN Rendered(artifact, [values EXCEPT !.asset = Absent], artifact.size.n)
  ELSE Then(selectAsset(artifact.selector, assets), LAMBDA asset :
       IF asset = Absent THEN {Absent}
       ELSE assetURLAndFile(artifact, [values EXCEPT !.asset = asset],
              IF artifact.size.n > 0 THEN artifact.size.n ELSE IF asset.size = Absent THEN 0 ELSE asset.size.n))

(***************************************************************************)
(* checksum.go                                                             *)
(***************************************************************************)
HexOf(digest, algorithm) ==
  When(digest # Absent /\ digest.form = "hex" /\ digest.n = HexLength(algorithm),
       [algorithm |-> algorithm, hex |-> digest])
resolveAssetFieldDigest(checksum, asset) ==
  IF asset = Absent THEN {}
  ELSE LET algorithms == {checksum.algorithm, asset.digest_algorithm} \ {Absent} IN
       IF Cardinality(algorithms) # 1 THEN {} ELSE HexOf(asset.digest, One(algorithms))
(* One line for the file, and every line of the text well formed           *)
ParseChecksumText(lines, basename) ==
  LET own == {i \in DOMAIN lines : lines[i].name = basename} IN
  IF \E i \in DOMAIN lines : ~lines[i].formed \/ lines[i].hex.n # HexLength("sha256") THEN {}
  ELSE IF Cardinality(own) # 1 THEN {} ELSE HexOf(lines[One(own)].hex, "sha256")

(***************************************************************************)
(* catalog.go: one request for each checksum URL                           *)
(***************************************************************************)
staticAssets(entry) ==
  LET list == SetToSeq(entry.assets.entries) IN
  [i \in DOMAIN list |-> [list[i] EXCEPT !.published_at = list[i].published_at.at]]
itemInputs(source, item) ==
  IF item.static # Absent THEN {[assets |-> staticAssets(item.static), metadata |-> <<>>, available |-> TRUE]}
  ELSE Then(hasRequiredTokens(source, item.node), LAMBDA available :
       Then(buildAssets(source, item.node), LAMBDA assets :
       Then(buildMetadata(source, item.node), LAMBDA metadata :
       {[assets |-> assets, metadata |-> metadata, available |-> available]})))

lifecycleRecord(source, item, identity, now) ==
  IF item.lifecycle.from = "override"
  THEN LET o == One(OverridesOf(source, item.version)) IN [evidence |-> o.evidence, at |-> o.assessed_at.at]
  ELSE IF item.lifecycle.from = "static"
  THEN [evidence |-> item.static.lifecycle_evidence, at |-> item.static.lifecycle_assessed_at.at]
  ELSE [evidence |-> identity, at |-> now]
(* The item's time and the asset's must agree when both are given.         *)
mergePublishedAt(ofItem, asset) ==
  LET times == {ofItem, IF asset = Absent THEN Absent ELSE asset.published_at} IN
  IF times = {Absent} THEN {Absent}
  ELSE When(Cardinality(times \ {Absent}) = 1, One(times \ {Absent}))
providerRelease(item, asset) ==
  IF asset # Absent /\ asset.release_tag # Absent THEN asset.release_tag ELSE item.raw

resolveDigest(a, values, artifact, web) ==
  IF a.checksum.kind = "asset-field" THEN OrInvalid(resolveAssetFieldDigest(a.checksum, artifact.asset))
  ELSE LET urls == Then(renderTemplate(a.checksum.url, [values EXCEPT !.asset = artifact.asset], TRUE), checkArtifactURL) IN
       IF urls = {} THEN Error("DEFINITION_INVALID")
       ELSE LET text == FetchChecksumText(Web(web, One(urls))) IN
            IF text.code # "OK" THEN text ELSE OrInvalid(ParseChecksumText(text.value, artifact.url.base))

CatalogItem(item, record, published, providerKind, checksumSource) ==
  [version |-> item.version, channel |-> item.channel, lifecycle |-> item.lifecycle.value,
   evidence |-> record.evidence, assessedAt |-> record.at, publishedAt |-> published,
   providerKind |-> providerKind, checksumSource |-> checksumSource,
   installable |-> FALSE, reason |-> T("message", 26), release |-> item.raw,
   file |-> Absent, url |-> Absent, size |-> 0, digest |-> Absent]
catalogItem(p, item, identity, now, published) ==
  CatalogItem(item, lifecycleRecord(p.version_source, item, identity, now), published,
              p.artifact_kind, p.artifact.checksum.kind)
installableItem(blank, release, artifact, digest) ==
  IF digest.code # "OK" THEN digest
  ELSE Ok([blank EXCEPT !.installable = TRUE, !.reason = Absent, !.release = release,
           !.file = artifact.file, !.url = artifact.url, !.size = artifact.size, !.digest = digest.value])
(* An item without an artifact stays in the catalog, not installable.      *)
itemOfArtifact(p, item, identity, now, values, artifact, web) ==
  Then(IF artifact = Absent THEN {item.publishedAt} ELSE mergePublishedAt(item.publishedAt, artifact.asset),
       LAMBDA published :
       Then({catalogItem(p, item, identity, now, published)}, LAMBDA blank :
       {IF artifact = Absent THEN Ok(blank)
        ELSE installableItem(blank, providerRelease(item, artifact.asset), artifact,
                             resolveDigest(p.artifact, values, artifact, web))}))
artifactsOf(p, values, inputs) ==
  IF inputs.available THEN resolveArtifact(p.artifact, values, inputs.assets) ELSE {Absent}
itemValues(item, inputs) == [version |-> item.version, metadata |-> inputs.metadata, asset |-> Absent]
buildCatalogItem(p, item, identity, now, web) ==
  AnswerOf(Then(itemInputs(p.version_source, item), LAMBDA inputs :
            Then({itemValues(item, inputs)}, LAMBDA values :
            Then(artifactsOf(p, values, inputs), LAMBDA artifact :
            itemOfArtifact(p, item, identity, now, values, artifact, web)))))

sortCatalogItems(items) == SortSeq(items, Newer)

(* unused: the overrides the caller is warned of                           *)
Catalog(p, tool, sha256, items, built, identity, now) ==
  [tool |-> tool, platform |-> p.id, definition |-> sha256, identity |-> identity, fetchedAt |-> now,
   expiresAt |-> IF p.version_source.kind = "static" THEN Absent ELSE now + p.version_source.cache_ttl.n,
   items |-> sortCatalogItems([i \in DOMAIN items |-> built[i].value]),
   unused |-> UnusedOverrides(p.version_source, {items[i].version : i \in DOMAIN items})]
CatalogOf(p, tool, sha256, items, built, identity, now) ==
  IF AllOk(built) THEN Ok(Catalog(p, tool, sha256, items, built, identity, now)) ELSE FirstError(built)
BuildCatalog(p, tool, sha256, items, identity, now, web) ==
  CatalogOf(p, tool, sha256, items,
            [i \in DOMAIN items |-> buildCatalogItem(p, items[i], identity, now, web)], identity, now)

(***************************************************************************)
(* resolve.go                                                              *)
(***************************************************************************)
ResolveExact(items, text) ==
  LET same == {i \in DOMAIN items : items[i].version.text = text} IN
  IF same = {} THEN Error("VERSION_NOT_FOUND")
  ELSE LET item == items[CHOOSE i \in same : \A j \in same : i <= j] IN
       IF item.installable THEN Ok(item) ELSE Error("PLATFORM_UNSUPPORTED")

ResolveLatest(items) == IF Latest(items) = {} THEN Error("VERSION_NOT_FOUND") ELSE Ok(One(Latest(items)))
=============================================================================
