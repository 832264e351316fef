--------------------------- MODULE DefinitionText ---------------------------
(***************************************************************************)
(* How package definition checks one key: what it answers and which        *)
(* diagnostics it adds.                                                    *)
(*                                                                         *)
(* A value is abstracted to what the checks tell apart.  A text is         *)
(* T(form, n): its form and its length in bytes; a number or a duration is *)
(* T("number", n).  A text with template variables is a record of its      *)
(* leading variable (root, NoToken when it does not begin with one), all   *)
(* its variables (tokens), the form of what is left without them (rest),   *)
(* the form of the whole (form) and its length, a variable counted as one  *)
(* byte (n).  A list is the number of its entries, the set of what they    *)
(* look like, and whether they are pairwise different when case is ignored.*)
(* A key that is not there is Absent.                                      *)
(***************************************************************************)
EXTENDS Integers

CONSTANT Absent

T(form, n) == [form |-> form, n |-> n]
Token(kind, name) == [kind |-> kind, name |-> name]
NoToken == Token("none", T("", 0))
List(count, entries, unique) == [count |-> count, entries |-> entries, unique |-> unique]

(* limits.go and the limits beside the tables they bound                   *)
ArrayMax == 256
URLMaxBytes == 8192
NameMaxBytes == 128
DescriptionMaxBytes == 512
PathComponentMaxBytes == 255
RegexMaxBytes == 1024
PointerMaxBytes == 255
RenderedMaxBytes == 32768

(***************************************************************************)
(* An answer: ok is what the function returns, why the diagnostics it adds.*)
(* The two are kept apart because the code keeps them apart: an entry that *)
(* is not ok is left out of the definition, and only a diagnostic makes    *)
(* the definition refused.                                                 *)
(***************************************************************************)
Fine == [ok |-> TRUE, why |-> {}]
Bad(reason) == [ok |-> FALSE, why |-> {reason}]
Silent == [ok |-> FALSE, why |-> {}]
Check(holds, reason) == IF holds THEN Fine ELSE Bad(reason)
All(answers) == [ok |-> \A a \in answers : a.ok, why |-> UNION {a.why : a \in answers}]

Require(key, answer) == IF key = Absent THEN Bad("missing") ELSE answer
Optional(key, answer) == IF key = Absent THEN Fine ELSE answer
Forbid(key) == Check(key = Absent, "conditional")

Enum(key, values) == Require(key, Check(key \in values, "enum"))
Bool(key) == Require(key, Fine)
Between(key, lo, hi) == Require(key, Check(key.n \in lo .. hi, "limit"))
Positive(key) == Require(key, Check(key.n > 0, "limit"))
NonNegative(key) == Require(key, Check(key.n >= 0, "limit"))
\* Bug: the duration is refused without a word.
DurationUnsaid(key, lo, hi) ==
  Require(key, IF key.form = "duration" /\ key.n \in lo .. hi THEN Fine ELSE Silent)
Duration(key, lo, hi) ==
  Require(key, Check(key.form = "duration" /\ key.n \in lo .. hi, "duration"))

Text(key, max) ==
  Require(key, Check(key.n \in 1 .. max /\ key.form # "padded", "text"))
FileName(key) ==
  All({Text(key, PathComponentMaxBytes),
       Optional(key, Check(key.form \notin {"separator", "dots"}, "text"))})

(* checkIdentifier: a pattern, a length, and no name Windows reserves      *)
Identifier(key, forms, max) ==
  Require(key, Check(key.form \in forms /\ key.n \in 1 .. max, "identifier"))
ToolID(key) == Identifier(key, {"word", "kebab"}, 64)
ScopedID(key) == Identifier(key, {"word", "kebab"}, 96)
CommandName(key) == Identifier(key, {"word", "kebab", "dotted"}, 64)
MetadataKey(key) == Identifier(key, {"word", "snake", "reserved"}, 64)
Unique(list) == Check(list.unique, "duplicate")

(* checkHTTPSURL: only an endpoint may have a query                        *)
URLForms(kind) == IF kind = "endpoint" THEN {"https", "query"} ELSE {"https"}
URL(key, kind) ==
  Require(key, Check(key.form \in URLForms(kind) /\ key.n \in 1 .. URLMaxBytes, "url"))

(* validatePointer: the empty pointer is the whole document                *)
PointerOk(p) == p.n = 0 \/ (p.form = "pointer" /\ p.n <= PointerMaxBytes)
Pointer(key) == Require(key, Check(PointerOk(key), "pointer"))

RegexSyntax(key) == Check(key.form # "syntax" /\ key.n \in 1 .. RegexMaxBytes, "regex")
(* checkNamedCaptureRegex: a form that is a name has that capture once     *)
Capture(key, name) ==
  Require(key, Check(key.form = name /\ key.n \in 1 .. RegexMaxBytes, "regex"))

RFC3339(key) == Require(key, Check(key.form \in {"utc", "date"}, "time"))
UTCTime(key) == Require(key, Check(key.form = "utc", "time"))

Algorithms == {"sha256", "sha512"}
HexLength(algorithm) == IF algorithm = "sha256" THEN 64 ELSE 128
(* requireDigest: without an algorithm it refuses and says nothing         *)
Digest(key, algorithm) ==
  Require(key, IF key.form # "hex" THEN Bad("digest")
               ELSE IF algorithm \notin Algorithms THEN Silent
               ELSE Check(key.n = HexLength(algorithm), "digest"))
DecimalID(key) ==
  Require(key, Check(key.form = "decimal" /\ key.n \in 1 .. NameMaxBytes, "text"))

Hostname(host) == host.form = "host" /\ host.n \in 1 .. 253
ASCIIToken(token) == token.form = "word" /\ token.n \in 1 .. NameMaxBytes
EnvironmentName(name) == name.form \notin {"equals", "padded", "non_ascii"} /\ name.n \in 1 .. NameMaxBytes

(***************************************************************************)
(* Templates.  A scope names the kinds of variables a place may use, the   *)
(* context the storages, metadata keys and asset fields that are declared. *)
(***************************************************************************)
ArtifactScope == {"version", "metadata", "asset"}
TargetScope == {"payload"}
CommandScope == {"payload", "storage"}
ProbeScope == {"payload", "probe_temp", "storage"}
VersionScope == {"version"}

Declared(token, context) ==
  \/ token.kind \in {"version", "platform.id", "payload", "probe_temp"}
  \/ token.kind = "storage" /\ token.name \in context.storages
  \/ token.kind = "metadata" /\ token.name \in context.metadata
  \/ token.kind = "asset" /\ token.name.form \in context.assets

InScope(token, scope, context) == token.kind \in scope /\ Declared(token, context)

Substitution(x, scope, context) ==
  Check(/\ x.n <= RenderedMaxBytes /\ x.rest # "braces"
        /\ \A token \in x.tokens : InScope(token, scope, context), "template")

(* A path begins with its one variable and goes on below it, or ends.      *)
PathTemplate(x, scope, context) ==
  Check(/\ x.n <= RenderedMaxBytes
        /\ x.root # NoToken /\ InScope(x.root, scope, context)
        /\ x.rest \in {"", "child"} /\ x.tokens = {x.root}, "template")

IsPathTemplate(x) == x.root # NoToken
LiteralArg(x) == Check(x.n \in 1 .. RenderedMaxBytes /\ x.rest \notin {"braces", "nul"}, "template")

\* Bug: any argument may name what only a probe has.
ArgsOfProbe(key, scope, context) ==
  Require(key, IF key.count > ArrayMax THEN Bad("limit")
               ELSE All({IF IsPathTemplate(x) THEN PathTemplate(x, ProbeScope, context) ELSE LiteralArg(x)
                           : x \in key.entries}))
(* buildArgs: each argument is a path or a literal, never a mixture        *)
Args(key, scope, context) ==
  Require(key, IF key.count > ArrayMax THEN Bad("limit")
               ELSE All({IF IsPathTemplate(x) THEN PathTemplate(x, scope, context) ELSE LiteralArg(x)
                           : x \in key.entries}))

(* checkTemplateURLSkeleton: the variables stay out of the host            *)
TemplateURL(key, context) ==
  Require(key, IF ~Substitution(key, ArtifactScope, context).ok THEN Bad("template")
               ELSE Check(key.form \in URLForms("endpoint") /\ key.n \in 1 .. URLMaxBytes, "url"))
TemplateFile(key, context) ==
  Require(key, IF ~Substitution(key, ArtifactScope, context).ok THEN Bad("template")
               ELSE Check(key.n > 0 /\ key.form \notin {"separator", "dots", "dot_first"}, "text"))
=============================================================================
