----------------------------- MODULE HttpFetch -----------------------------
(***************************************************************************)
(* Registry documents through the response cache: GetJSONCached and        *)
(* PostJSONCached of src/http/cache.go, their retries (retry.go) and what  *)
(* one request may answer (once.go, response_handling.go).                 *)
(*                                                                         *)
(* The registry has one document per URL, of which it publishes newer      *)
(* versions.  A server may answer anything at any time.                    *)
(***************************************************************************)
EXTENDS FileStore

CONSTANTS
  MaxAge,       \* how old a cached answer may be (CacheOptions.MaxAge)
  MaxAttempts,  \* DefaultMaxRetries + 1
  StatusCodes   \* the status codes a server answers with

ASSUME HttpAssumption == MaxAge \in Nat /\ MaxAttempts \in Nat \ {0}

VARIABLES
  doc,          \* the current version of the document of a URL
  publishedAt,  \* when each of its versions was published
  tries         \* the requests a task has sent so far

httpVars == <<doc, publishedAt, tries>>

HttpTasks == {t \in Tasks : t.kind = "http"}
\* cacheKey, postCacheKey, or the key the registry client chooses: by URL
\* (and body), so that no two documents share one.
HttpKey(t) == <<"http", t.url>>

IsRetryableStatusCode(code) == code \in {429, 500, 502, 503, 504}

\* What one request comes back with: a document, a status that is not 200, or
\* an error that carries none: the transport's, or a body that does not parse.
Answers == [status : StatusCodes, parses : BOOLEAN] \cup {[status |-> 0, parses |-> FALSE]}
Accepted(answer) == answer.status = 200 /\ answer.parses
\* RetryIf: only a StatusCodeError has a code to look at.
Retryable(answer) == answer.status # 200 /\ IsRetryableStatusCode(answer.status)
AttemptsLeft(n) == n < MaxAttempts

HttpLookup(t) == Lookup(t, HttpKey(t), MaxAge) /\ UNCHANGED httpVars

HttpHit(t) == ReadEntry(t, HttpKey(t), "done") /\ UNCHANGED httpVars

\* The answer is accepted and goes to writeCache, its status being 200.
RequestSucceeds(t, answer) ==
  /\ pc[t] = "fetch"
  /\ Accepted(answer)
  /\ Holds(t, doc[t.url])
  /\ tries' = [tries EXCEPT ![t] = 0]
  /\ Goto(t, "store")
  /\ UNCHANGED <<storeVars, doc, publishedAt>>

\* A bug: the retry starts over from the cache, with all its attempts.
RequestFailsAnew(t, answer) ==
  /\ pc[t] = "fetch"
  /\ ~Accepted(answer)
  /\ Goto(t, IF Retryable(answer) THEN "lookup" ELSE "failed")
  /\ UNCHANGED <<storeVars, got, httpVars>>

\* The answer is refused: try again after a pause, or give up.
RequestFails(t, answer) ==
  /\ pc[t] = "fetch"
  /\ ~Accepted(answer)
  /\ LET again == Retryable(answer) /\ AttemptsLeft(tries[t] + 1) IN
     /\ Goto(t, IF again THEN "fetch" ELSE "failed")
     /\ tries' = [tries EXCEPT ![t] = IF again THEN @ + 1 ELSE 0]
  /\ UNCHANGED <<storeVars, got, doc, publishedAt>>

HttpPublish(t) == Publish(t, HttpKey(t)) /\ UNCHANGED httpVars

HttpStep(t) ==
  \/ HttpLookup(t) \/ HttpHit(t) \/ HttpPublish(t)
  \/ \E answer \in Answers : RequestSucceeds(t, answer) \/ RequestFails(t, answer)
  \/ (CreateTemp(t, HttpKey(t)) \/ WriteTemp(t) \/ SetFails(t)) /\ UNCHANGED httpVars

\* Version v of a document was the current one at time `when' or later.
CurrentSince(url, v, when) ==
  /\ v \in 1 .. doc[url]
  /\ v = doc[url] \/ publishedAt[url][v + 1] >= when
=============================================================================
