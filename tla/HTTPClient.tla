------------------------------ MODULE HTTPClient ------------------------------
(***************************************************************************)
(* Client.Get and Client.Head: one request with its redirects, its         *)
(* retries and the body the caller then reads.  The network may give any   *)
(* answer to each hop, and the caller may cancel, or reach its deadline,   *)
(* at any moment.                                                          *)
(*                                                                         *)
(* A URL is "good" or "refused" (not https, user information, no host; for *)
(* a request also a header with a secret).  Times are in seconds.          *)
(***************************************************************************)
EXTENDS Integers, Sequences, FiniteSetsExt

CONSTANTS
  MaxRedirects,
  Asked,        \* requests: [method, url, redirects, bytes]
  RetryAfters,  \* headers: [form, value]
  Lengths,      \* of bodies
  DurationMax   \* the longest time.Duration

ASSUME ClientAssumption ==
  /\ MaxRedirects \in Nat /\ Lengths \subseteq Nat /\ DurationMax \in Nat
  /\ Asked \subseteq [method : {"GET", "HEAD"}, url : {"good", "refused"}, redirects : Int, bytes : Int]
  /\ RetryAfters \subseteq [form : {"none", "invalid", "seconds", "date"}, value : Int]

VARIABLES
  asked,     \* the request
  sending,   \* the step of Get or Head
  attempt, hop,
  reply,     \* what the last hop was answered
  pause,     \* how long the client sleeps before it tries again
  slept,     \* how long it has slept
  received,  \* bytes of the body the caller has read
  left,      \* has the caller cancelled or passed its deadline?
  got        \* how it ended

httpVars == <<asked, sending, attempt, hop, reply, pause, slept, received, left, got>>

MaxRetries == 3
retryBackoff == <<1, 2, 4>>
MaxRetryAfter == 30

\* "transient": 429 and from 500; "redirect" has a Location; "final" is the rest.
NoReply == [status |-> "none"]
NoRetryAfter == [form |-> "none", value |-> 0]
Responses ==
  [status : {"success", "final"}, length : Lengths, declared : BOOLEAN]
  \cup [status : {"transient"}, length : Lengths, declared : BOOLEAN, after : RetryAfters]
  \cup [status : {"redirect"}, url : {"good", "refused"}]
\* The connection: a timeout is "temporary", a certificate "refused".
NetworkErrors == [status : {"temporary", "offline", "refused"}]
Retryable(r) == r.status \in {"transient", "temporary", "offline"}

HTTPInit ==
  /\ asked \in Asked /\ sending = "validate"
  /\ attempt = 0 /\ hop = 0 /\ reply = NoReply
  /\ pause = 0 /\ slept = 0 /\ received = 0
  /\ left = "no" /\ got = ""

GetEnds(how) ==
  sending' = "done" /\ got' = how /\ UNCHANGED <<attempt, hop, pause, slept, received>>
SendGoes(step) == sending' = step /\ UNCHANGED <<hop, attempt, pause, slept, received, got>>

validateRequest == asked.url = "good" /\ asked.redirects >= 0 /\ asked.bytes > 0
Validate ==
  /\ sending = "validate"
  /\ IF validateRequest THEN SendGoes("send") ELSE GetEnds("invalid")
  /\ UNCHANGED <<asked, reply, left>>

\* A hop is not begun with a context that has ended.
Send ==
  /\ sending = "send"
  /\ \/ left # "cancelled" /\ SendGoes("await")
     \/ left = "cancelled" /\ GetEnds("cancelled")
  /\ UNCHANGED <<asked, reply, left>>

-----------------------------------------------------------------------------
\* A duration wraps around.
Wrapped(seconds) == ((seconds + DurationMax + 1) % (2 * DurationMax + 2)) - DurationMax - 1
retryAfterOf(header) ==
  IF header.form \in {"none", "invalid"} \/ header.value <= 0 THEN 0
  ELSE IF header.form = "seconds" THEN Wrapped(header.value)
  ELSE header.value
Wait(retryAfter) ==
  IF retryAfter > 0 THEN Min({retryAfter, MaxRetryAfter}) ELSE retryBackoff[attempt + 1]

\* do: after an attempt that failed
Failed(r) ==
  IF ~Retryable(r) \/ attempt >= MaxRetries THEN GetEnds("failed")
  ELSE /\ sending' = "sleep"
       /\ pause' = Wait(IF r.status = "transient" THEN retryAfterOf(r.after) ELSE 0)
       /\ UNCHANGED <<attempt, hop, slept, received, got>>

readBody(r) == asked.method = "GET" => ~(r.declared /\ r.length > asked.bytes)
limit == Min({asked.redirects, MaxRedirects})
resolveRedirect(r) == r.url = "good"

Answered(r) ==
  IF r.status = "redirect"
  THEN IF hop >= limit \/ ~resolveRedirect(r) THEN GetEnds("failed")
       ELSE sending' = "send" /\ hop' = hop + 1 /\ UNCHANGED <<attempt, pause, slept, received, got>>
  ELSE IF ~readBody(r) THEN GetEnds("failed")
  ELSE IF r.status # "success" THEN Failed(r)
  ELSE IF asked.method = "HEAD" THEN GetEnds("whole")
  ELSE SendGoes("body")
\* A deadline of the caller looks like a timeout of the hop.
Receive ==
  /\ sending = "await"
  /\ \/ \E r \in Responses : reply' = r /\ Answered(r)
     \/ left # "cancelled" /\ \E e \in NetworkErrors : reply' = e /\ Failed(e)
     \/ left = "cancelled" /\ GetEnds("cancelled") /\ UNCHANGED reply
  /\ UNCHANGED <<asked, left>>

WakeUp ==
  /\ sending = "sleep"
  /\ \/ left # "no" /\ GetEnds("cancelled")
     \/ /\ left = "no" /\ sending' = "send" /\ slept' = slept + pause
        /\ attempt' = attempt + 1 /\ hop' = 0 /\ UNCHANGED <<pause, received, got>>
  /\ UNCHANGED <<asked, reply, left>>

-----------------------------------------------------------------------------
\* Bug: the body ends quietly at the limit.
offeredQuietly == Min({reply.length, asked.bytes})
\* io.LimitReader: one byte more than is allowed
offered == Min({reply.length, asked.bytes + 1})
\* The caller reads on, gives up, or is told of the limit or of the connection,
\* over which the time of the last hop still runs.
ReadBody ==
  /\ sending = "body"
  /\ \/ \E n \in 1 .. offered - received :
          IF received + n > asked.bytes THEN GetEnds("too_long")
          ELSE received' = received + n /\ UNCHANGED <<sending, attempt, hop, pause, slept, got>>
     \/ received = offered /\ GetEnds("whole")
     \/ GetEnds("interrupted")
  /\ UNCHANGED <<asked, reply, left>>

CallerLeaves ==
  /\ left = "no" /\ sending # "done"
  /\ left' \in {"cancelled", "deadline"}
  /\ UNCHANGED <<asked, sending, attempt, hop, reply, pause, slept, received, got>>

HTTPStep == Validate \/ Send \/ Receive \/ WakeUp \/ ReadBody
HTTPNext == HTTPStep \/ CallerLeaves
\* Every hop has a timeout and a sleep an end; the caller reads until it closes.
HTTPSpec == HTTPInit /\ [][HTTPNext]_httpVars /\ WF_httpVars(HTTPStep)

-----------------------------------------------------------------------------
(* Properties *)

\* What the caller is told is due to what happened: a body that ended has come
\* whole and within its limit, a transient failure is reported only after the
\* last retry or for a body announced too long, cancelled is who cancelled, and
\* the client has slept no longer than the longest Retry-After for each retry.
Due ==
  /\ got = "whole" /\ asked.method = "GET" =>
       reply.status = "success" /\ received = reply.length /\ received <= asked.bytes
  /\ got = "failed" /\ Retryable(reply) => attempt = MaxRetries \/ ~readBody(reply)
  /\ got = "cancelled" => left # "no"
  /\ slept <= MaxRetries * MaxRetryAfter

\* A request is answered in the end, whatever the network answers and however
\* it redirects, and the answer is due.
AnswerComes == <>(sending = "done" /\ Due)
===============================================================================
