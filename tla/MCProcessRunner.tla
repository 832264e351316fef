--------------------------- MODULE MCProcessRunner ---------------------------
(***************************************************************************)
(* Three parts of one machine that share nothing: a child process with its *)
(* tree, processes that rotate one log, and one HTTP request.  A behaviour *)
(* is one of the three, and the others have ended before it begins.        *)
(***************************************************************************)
EXTENDS ProcessRunner, LogRotation, HTTPClient

(* A child has a pipe for its output or one for its input, not both.       *)
OnePipe == stdin = "none" \/ ~captured
NoRun ==
  /\ system = "linux" /\ captured = FALSE /\ limited = FALSE /\ pc = "returned"
  /\ proc = [p \in Procs |-> Nobody] /\ stdin = "none" /\ exited = FALSE /\ stateless = FALSE
  /\ expired = FALSE /\ cancelled = FALSE
  /\ timedOut = FALSE /\ signalled = FALSE /\ forced = FALSE /\ outcome = "none"
(* no file at all: the directory of a log that is used never is empty      *)
NoLog == logs = <<>> /\ second = LastSecond /\ logging = [p \in Writers |-> Quiet]

(* One fault of a request at a time; the limits are not all combined.      *)
Ask(method, url, redirects, bytes) ==
  [method |-> method, url |-> url, redirects |-> redirects, bytes |-> bytes]
MCAsked ==
  {Ask("GET", "good", r, 2) : r \in -1 .. 3}
  \cup {Ask("GET", "good", 1, b) : b \in {0, 1}} \cup {Ask("GET", "refused", 1, 2), Ask("HEAD", "good", 1, 2)}
RetryAfter(form, value) == [form |-> form, value |-> value]
MCRetryAfters ==
  {NoRetryAfter, RetryAfter("invalid", 0)} \cup {RetryAfter("date", n) : n \in {-1, 31}}
  \cup {RetryAfter("seconds", n) : n \in {0, 3, 31, 64, 130}}
NoRequest ==
  /\ asked = Ask("HEAD", "none", 0, 0) /\ sending = "done" /\ attempt = 0 /\ hop = 0 /\ reply = NoReply
  /\ pause = 0 /\ slept = 0 /\ received = 0 /\ left = "no" /\ got = ""

HostInit ==
  \/ Init /\ OnePipe /\ NoLog /\ NoRequest
  \/ NoRun /\ LogInit /\ NoRequest
  \/ NoRun /\ NoLog /\ HTTPInit
HostNext ==
  \/ Names = {} /\ asked.url = "none" /\ Next /\ UNCHANGED <<logVars, httpVars>>
  \/ Names # {} /\ LogNext /\ UNCHANGED <<vars, httpVars>>
  \/ asked.url # "none" /\ HTTPNext /\ UNCHANGED <<vars, logVars>>
HostSpec == HostInit /\ [][HostNext]_<<vars, logVars, httpVars>>
(* as in FairSpec and HTTPSpec                                             *)
HostFairSpec ==
  HostSpec /\ WF_vars(Run) /\ WF_vars(CopyBreaks) /\ WF_vars(Expire) /\ WF_httpVars(HTTPStep) /\ \A p \in Procs : WF_vars(Die(p))
=============================================================================
