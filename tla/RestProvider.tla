----------------------------- MODULE RestProvider -----------------------------
(***************************************************************************)
(* BaseRestProvider.retryRequest: one request is tried at each of the      *)
(* configured URLs in turn, several times, until one of them answers 200.  *)
(* One action per attempt; while the provider waits for the next one, the  *)
(* nodes behind the URLs may change their minds.                           *)
(***************************************************************************)
EXTENDS Integers

CONSTANTS
    UrlCount,       \* length of baseUrls
    MAX_RETRIES,    \* requestPolicy.maxRetries
    RETRY_DELAY,    \* requestPolicy.retryDelay, in milliseconds
    MAX_BACKOFF,    \* the delay at which the retrier gives up: 10000
    NoRequest       \* nothing is asked

ASSUME RestAssumption ==
    /\ UrlCount \in Nat \ {0}
    /\ MAX_RETRIES \in Nat
    /\ RETRY_DELAY \in Nat \ {0}
    /\ MAX_BACKOFF \in Nat

Urls == 1..UrlCount

VARIABLES
    request,        \* what is asked, or NoRequest
    url,            \* index of the URL in use
    attempt,        \* "first", or "retry" once the first one failed
    maxRetryCount,  \* what the retrier has left
    minBackoff,     \* its next delay
    status,         \* "pending", "ok", or the error thrown: "404" or "other"
    answer          \* the body of the answer, when status is "ok"

restVars == <<request, url, attempt, maxRetryCount, minBackoff, status, answer>>

StartUrl(i) ==
    /\ url' = i
    /\ attempt' = "first"
    /\ maxRetryCount' = MAX_RETRIES
    /\ minBackoff' = RETRY_DELAY

NothingAsked ==
    /\ request' = NoRequest
    /\ StartUrl(1)
    /\ status' = "pending"
    /\ answer' = 0

Ask(what) ==
    /\ request' = what
    /\ StartUrl(1)
    /\ status' = "pending"
    /\ answer' = 0

RestInit ==
    /\ request = NoRequest
    /\ url = 1
    /\ attempt = "first"
    /\ maxRetryCount = MAX_RETRIES
    /\ minBackoff = RETRY_DELAY
    /\ status = "pending"
    /\ answer = 0

Waiting == request # NoRequest /\ status = "pending"

(* The URL in use answers 200. *)
Resolve(value) ==
    /\ Waiting
    /\ status' = "ok"
    /\ answer' = value
    /\ UNCHANGED <<request, url, attempt, maxRetryCount, minBackoff>>

RetriesExhausted == maxRetryCount <= 1 \/ minBackoff >= MAX_BACKOFF

-----------------------------------------------------------------------------
(* An attempt fails with error e. *)

(* The first one at a URL: rejectDelay, and the retrier takes over.        *)
FirstFails ==
    /\ attempt = "first"
    /\ attempt' = "retry"
    /\ UNCHANGED <<url, maxRetryCount, minBackoff, status>>

(* The retrier waits, each time twice as long. *)
RetryLater ==
    /\ attempt = "retry"
    /\ ~RetriesExhausted
    /\ maxRetryCount' = maxRetryCount - 1
    /\ minBackoff' = minBackoff * 2
    /\ UNCHANGED <<url, attempt, status>>

(* useFallbackOnRejected: the error is dropped, and the next URL is tried. *)
NextUrl ==
    /\ attempt = "retry"
    /\ RetriesExhausted
    /\ url < UrlCount
    /\ StartUrl(url + 1)
    /\ UNCHANGED status

(* The error of the last URL is what the caller gets. *)
AllUrlsFailed(e) ==
    /\ attempt = "retry"
    /\ RetriesExhausted
    /\ url = UrlCount
    /\ status' = e
    /\ UNCHANGED <<url, attempt, maxRetryCount, minBackoff>>

Reject(e) ==
    /\ Waiting
    /\ FirstFails \/ RetryLater \/ NextUrl \/ AllUrlsFailed(e)
    /\ UNCHANGED <<request, answer>>

=============================================================================
