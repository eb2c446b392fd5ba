----------------------------- MODULE RetryPolicy -----------------------------
(***************************************************************************)
(* Failures and what becomes of them: FailureClassifier.classify,           *)
(* RetryPolicy and Backoff (app/services/reliability), as functions of an   *)
(* answer's status code or an exception's text, against the table of        *)
(* README.md (lines 64-71).                                                 *)
(*                                                                          *)
(* WebhookEngine takes the failure types and their limits as parameters.    *)
(* A text is the set of phrases found in it; a delay in seconds is the      *)
(* interval it is drawn from.                                               *)
(***************************************************************************)
EXTENDS Naturals

FailureType == {"TRANSIENT", "PERMANENT", "TIMEOUT", "RATE_LIMITED",
                "DNS_ERROR", "CONNECTION_REFUSED"}

Phrases == {"timeout", "name or service not known", "connection refused"}

\* Mutated form of ClassifyStatus: every 4xx is the client's fault.
ClassifyStatusRange(c) ==
  CASE c >= 500 -> "TRANSIENT"
    [] c \in 400..499 -> "PERMANENT"
    [] OTHER -> "TRANSIENT"

\* Codes that no line names, redirects among them, are transient.
ClassifyStatus(c) ==
  CASE c = 429 -> "RATE_LIMITED"
    [] c >= 500 -> "TRANSIENT"
    [] c \in {400, 401, 403, 404} -> "PERMANENT"
    [] OTHER -> "TRANSIENT"

ClassifyError(text) ==
  CASE "timeout" \in text -> "TIMEOUT"
    [] "timeout" \notin text /\ "name or service not known" \in text -> "DNS_ERROR"
    [] text = {"connection refused"} -> "CONNECTION_REFUSED"
    [] OTHER -> "TRANSIENT"

IsRetryable(ft) == ft # "PERMANENT"

MaxRetriesOf(ft) ==
  CASE ft = "PERMANENT" -> 0
    [] ft = "RATE_LIMITED" -> 10
    [] OTHER -> 5

Exactly(n) == [least |-> n, most |-> n]

\* Mutated form of Exponential: the jitter grows with the delay.
ExponentialWild(n) == [least |-> 2 ^ n, most |-> 3 * 2 ^ n]

\* The jitter is at most a second.
Exponential(n) == [least |-> 2 ^ n, most |-> 2 ^ n + 1]

GetDelay(ft, n) ==
  CASE ft = "TIMEOUT" -> Exactly(2 * n)
    [] ft = "DNS_ERROR" -> Exactly(5 * n)
    [] ft = "RATE_LIMITED" -> Exactly(60 * n)
    [] OTHER -> Exponential(n)

\* A failure of either kind, as process_event hands it to classify.
Failures ==
  [status : (100..599) \ (200..299), text : {{}}]
    \cup [status : {0}, text : SUBSET Phrases]

Classify(f) == IF f.status # 0 THEN ClassifyStatus(f.status)
                               ELSE ClassifyError(f.text)

(***************************************************************************)
(* Properties.                                                              *)
(***************************************************************************)
\* The documented table: failures, retries allowed, the delay of the nth.
Documented ==
  {[of |-> {f \in Failures : f.status \in {400, 401, 403, 404}},
    retries |-> 0, delay |-> [n \in {} |-> Exactly(0)]],
   [of |-> {f \in Failures : f.status >= 500},
    retries |-> 5, delay |-> [n \in 1..5 |-> [least |-> 2 ^ n, most |-> 2 ^ n + 1]]],
   [of |-> {f \in Failures : f.status = 429},
    retries |-> 10, delay |-> [n \in 1..10 |-> Exactly(60 * n)]],
   [of |-> {f \in Failures : f.text = {"timeout"}},
    retries |-> 5, delay |-> [n \in 1..5 |-> Exactly(2 * n)]],
   [of |-> {f \in Failures : f.text = {"name or service not known"}},
    retries |-> 5, delay |-> [n \in 1..5 |-> Exactly(5 * n)]],
   [of |-> {f \in Failures : f.text = {"connection refused"}},
    retries |-> 5, delay |-> [n \in 1..5 |-> [least |-> 2 ^ n, most |-> 2 ^ n + 1]]]}

\* The four functions together keep the table.
TableKept ==
  \A line \in Documented : \A f \in line.of :
    LET ft == Classify(f)
    IN  /\ MaxRetriesOf(ft) = line.retries
        /\ IsRetryable(ft) <=> line.retries > 0
        /\ \A n \in DOMAIN line.delay : GetDelay(ft, n) = line.delay[n]

\* The longest delay of a retry is no longer than the shortest of the next.
DelaysMonotone ==
  \A ft \in {Classify(f) : f \in Failures} :
    \A n \in 1 .. MaxRetriesOf(ft) - 1 :
      GetDelay(ft, n).most <= GetDelay(ft, n + 1).least

=============================================================================
