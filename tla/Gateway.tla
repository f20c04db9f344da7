------------------------------- MODULE Gateway -------------------------------
(***************************************************************************)
(* The compatibility routes of the TCP listener: chat (whole and streamed), *)
(* embeddings and rerank of app.py over DirectInferenceGateway             *)
(* (gateway.py).  A request is one task; it reads its body, proves its     *)
(* input against the measured envelope, takes a lease of the scheduler,    *)
(* calls the model and gives the lease back.  The task may be cancelled    *)
(* once, at any await.                                                     *)
(*                                                                         *)
(* What the model answered is abstracted to what the routes tell apart:    *)
(* a gateway error, a response of the wrong type, one that cannot be       *)
(* accepted, one whose validation raises, and a good one.                  *)
(***************************************************************************)
EXTENDS Naturals, FiniteSets

CONSTANTS Calls,     \* requests
          Lanes      \* leases the model grants at a time

ASSUME GwConstants == Lanes \in Nat \ {0}

VARIABLES call,      \* the request tasks
          measured   \* the registration carries an envelope (schema v2)

gwVars == <<call, measured>>

Routes == {"chat", "stream", "embeddings", "rerank"}
Waits == {"body", "check", "warm", "recheck", "acquire", "open", "json", "streaming",
          "close", "release", "shielded"}

GwInit ==
  /\ measured \in BOOLEAN
  /\ call = [r \in Calls |-> [at |-> "new", route |-> "chat", lease |-> "none",
                              outcome |-> "none", good |-> FALSE, proven |-> FALSE,
                              guarded |-> FALSE, cancelled |-> FALSE, cut |-> FALSE]]

At(r, stage) == call[r].at = stage
Goes(r, rec) == call' = [call EXCEPT ![r] = rec] /\ UNCHANGED measured
Moved(r, stage) == [call[r] EXCEPT !.at = stage]

Ended(r) == Moved(r, "done")
Chat(r) == call[r].route \in {"chat", "stream"}

Arrive(r) ==
  /\ At(r, "new")
  /\ \E route \in Routes : Goes(r, [Moved(r, "body") EXCEPT !.route = route])

(* _read_json, the DTO, the catalog lookups and, for embeddings and rerank, *)
(* the envelope checks that need no tokenizer.                              *)
ReadJson(r) ==
  /\ At(r, "body")
  /\ \/ Goes(r, Ended(r))
     \/ Goes(r, [Moved(r, IF measured /\ Chat(r) THEN "check" ELSE "acquire")
                  EXCEPT !.proven = ~Chat(r)])

(* check_chat_input: an EnvelopeError refuses; a counter that fails (a cold *)
(* model has no tokenizer) warms the model first.                           *)
Check(r) ==
  /\ At(r, "check")
  /\ \/ Goes(r, [Moved(r, "acquire") EXCEPT !.proven = TRUE])
     \/ Goes(r, Ended(r))
     \/ Goes(r, Moved(r, "warm"))

Warm(r) ==
  /\ At(r, "warm")
  /\ \/ Goes(r, Moved(r, "recheck"))
     \/ Goes(r, Ended(r))

(* The second count; whatever is wrong with it now refuses the request.     *)
Recheck(r) ==
  /\ At(r, "recheck")
  /\ \/ Goes(r, [Moved(r, "acquire") EXCEPT !.proven = TRUE])
     \/ Goes(r, Ended(r))

Leased == {r \in Calls : call[r].lease = "held"}

(* scheduler.acquire: a lease, or QueueFull, a deadline, ModelUnavailable.  *)
Acquire(r) ==
  /\ At(r, "acquire")
  /\ \/ /\ Cardinality(Leased) < Lanes
        /\ Goes(r, [Moved(r, "open") EXCEPT !.lease = "held"])
     \/ Goes(r, Ended(r))

(* The handlers of GatewayError and TimeoutError release outside the try.   *)
HandlerReleases(r, outcome) ==
  Goes(r, [Moved(r, "release") EXCEPT !.outcome = outcome, !.guarded = FALSE])

(* close_and_release; in_try: a cancellation is caught around it.           *)
CloseAndRelease(r, outcome, good, inTry) ==
  Goes(r, [Moved(r, "close") EXCEPT !.outcome = outcome, !.good = good, !.guarded = inTry])

(* DirectInferenceGateway.open and the checks of the status and media type  *)
(* of the response: 400, 413, 422 and 429 are rejections, the rest aborts.  *)
Open(r) ==
  /\ At(r, "open")
  /\ \/ \E outcome \in {"rejected", "aborted"} : HandlerReleases(r, outcome)
     \/ /\ call[r].route # "chat"
        /\ CloseAndRelease(r, "aborted", FALSE, TRUE)
     \/ Goes(r, Moved(r, IF call[r].route = "stream" THEN "streaming" ELSE "json"))

(* OpenedHTTPXResponse.json with the validation that follows it.  The chat  *)
(* route validates inside its try, embeddings and rerank after acquire_json *)
(* has returned: what raises there leaves the handler with the lease.       *)
Json(r) ==
  /\ At(r, "json")
  /\ \/ HandlerReleases(r, "aborted")
     \/ CloseAndRelease(r, "aborted", FALSE, Chat(r))
     \/ CloseAndRelease(r, "success", TRUE, Chat(r))
     \/ /\ ~Chat(r)
        /\ Goes(r, [Ended(r) EXCEPT !.cut = TRUE])

(* stream_body under _LeasedStreamingResponse: [DONE] completes it; an      *)
(* oversized event, an upstream error or timeout and a client that goes     *)
(* away end it; the cleanup is shielded in every case.                      *)
Streaming(r) ==
  /\ At(r, "streaming")
  /\ \E done \in BOOLEAN :
       Goes(r, [Moved(r, "shielded") EXCEPT !.good = done,
                  !.outcome = IF done THEN "success" ELSE "aborted"])

(* aclose returns or raises; the release is in a finally.                   *)
Close(r) ==
  /\ At(r, "close")
  /\ Goes(r, Moved(r, "release"))

(* scheduler.release: the book forgets the lease under its lock.            *)
Release(r) ==
  /\ call[r].at \in {"release", "shielded"}
  /\ Goes(r, [Ended(r) EXCEPT !.lease = "released"])

\* Mutant: a stream that is cancelled is not cleaned up.
Caught_opened == {"open", "json"}

(* The awaits inside the try of a route, or under the shield of the stream.  *)
Caught == {"open", "json", "streaming"}

(* The task is cancelled at its await.                                      *)
CancelCall(r) ==
  /\ call[r].at \in Waits \ {"shielded"} /\ ~call[r].cancelled
  /\ LET handled == [Moved(r, "shielded") EXCEPT !.outcome = "aborted", !.good = FALSE]
         rec == CASE call[r].at \in Caught -> handled
                  [] At(r, "close") -> Moved(r, "release")
                  [] At(r, "release") /\ call[r].guarded -> handled
                  [] At(r, "release") /\ ~call[r].guarded -> [Ended(r) EXCEPT !.cut = TRUE]
                  [] OTHER -> Ended(r)
     IN Goes(r, [rec EXCEPT !.cancelled = TRUE])

CallStep(r) == \/ ReadJson(r) \/ Check(r) \/ Warm(r) \/ Recheck(r) \/ Acquire(r) \/ Open(r)
               \/ Json(r) \/ Streaming(r) \/ Close(r) \/ Release(r)
GwNext == \E r \in Calls : Arrive(r) \/ CallStep(r) \/ CancelCall(r)

(* Every await of a route has a timeout or a deadline behind it.            *)
GwFair == \A r \in Calls : WF_gwVars(CallStep(r))
GwSpec == GwInit /\ [][GwNext]_gwVars /\ GwFair

---------------------------------------------------------------------------
(* Properties *)

(* A chat request, streamed or not, gives its lease back however it ends: a  *)
(* gateway error, a bad response, a client that leaves or a cancellation.   *)
(* The one exception is a cancellation inside the release an error handler  *)
(* awaits.                                                                  *)
ChatLeaseReturned ==
  \A r \in Calls : At(r, "done") /\ Chat(r) /\ call[r].lease = "held" =>
    call[r].cut /\ call[r].cancelled /\ call[r].outcome # "success"

(* Every request ends: no lane, cold model or silent upstream holds a task.  *)
CallsEnd == \A r \in Calls : At(r, "body") ~> At(r, "done")
=============================================================================
