-------------------------------- MODULE Reapi --------------------------------
(* The REAPI client: a remote cache that speaks gRPC.  A caller makes calls   *)
(* one after another; every request may fail in transport, and a server may   *)
(* reject a blob, answer for some of a batch only and send other bytes than   *)
(* were asked for.  A blob is its bytes; a size is in units of the limit.     *)
EXTENDS Naturals, Sequences, SequencesExt, FiniteSets, Command

CONSTANTS
  Blobs, Size(_),
  Limit,              \* max_batch_total_size_bytes
  Overhead,           \* what batch_pairs adds for a digest
  Keys,               \* trace keys
  ActionBlobs(_),     \* key -> its Command and its Action, in that order
  Uploads,            \* sequences of blobs that callers upload
  Servers,            \* digest functions that a server may offer
  MaxCalls,
  Tampered

ASSUME ReapiAssumption ==
  /\ Limit \in Nat /\ Overhead \in Nat /\ \A b \in Blobs : Size(b) \in Nat
  /\ Uploads \subseteq Seq(Blobs) /\ \A k \in Keys : ActionBlobs(k) \in Seq(Blobs)

VARIABLES
  connected,          \* the client is kept once it is there
  offers,             \* the server's digest functions
  cas, results,       \* the server: blobs, and keys that have an ActionResult
  call,               \* [kind, key, left, small, sent]: blobs that are left, those
                      \* put aside for batches, and ghost: how many were sent
  response,           \* of the last call: [status, what], what is a set
  asked,              \* ghost: what the last call was for
  calls

reapiVars == <<connected, offers, cas, results, call, response, asked, calls>>

NoResponse == [status |-> "none", what |-> {}]
Error == [status |-> "error", what |-> {}]

ReapiInit ==
  /\ connected = FALSE /\ offers \in Servers /\ cas = {} /\ results = {}
  /\ call = None /\ response = NoResponse /\ asked = None /\ calls = 0

-----------------------------------------------------------------------------
(* batch_pairs *)

\* What the first blobs come to, with what is added for each.
Sum(blobs, extra) ==
  LET sum[n \in 0..Len(blobs)] == IF n = 0 THEN 0 ELSE sum[n - 1] + Size(blobs[n]) + extra
  IN sum

\* Mutant: the first blob of a batch is not counted.
MutFits(blobs, n) ==
  n = 1 \/ Sum(blobs, Overhead)[n] - Sum(blobs, Overhead)[1] <= Limit

\* A blob that is the first of its batch is in it, whatever its size.
Fits(blobs, n) == n = 1 \/ Sum(blobs, Overhead)[n] <= Limit

\* A batch ends before the first blob that does not fit.
BatchEnd(blobs) ==
  CHOOSE n \in DOMAIN blobs :
    /\ \A i \in 1..n : Fits(blobs, i)
    /\ n + 1 \in DOMAIN blobs => ~Fits(blobs, n + 1)
Batch(blobs) == SubSeq(blobs, 1, BatchEnd(blobs))

-----------------------------------------------------------------------------
(* Calls *)

Large(b) == Size(b) > Limit

Request(kind, key) == [kind |-> kind, key |-> key, left |-> <<>>, small |-> <<>>, sent |-> 0]
Upload(kind, key, blobs) == [Request(kind, key) EXCEPT !.left = blobs]

\* trace_key_blobs: what an entry of the action cache has to name.
PublishResult(k) == Upload("publish", k, ActionBlobs(k))

\* put_action uploads the blobs of the key first.
Requests ==
  {Upload("upload", blobs, blobs) : blobs \in Uploads}
    \cup {PublishResult(k) : k \in Keys}
    \cup {Request("download", b) : b \in Blobs}
    \cup {Request(kind, k) : kind \in {"result", "execute"}, k \in Keys}
    \cup {Request("missing", blobs) : blobs \in Uploads}

\* ReapiBackend::client: a failed connection is tried again by the next call, and so
\* is a server that does not offer SHA-256.
BeginCall ==
  /\ call = None /\ calls < MaxCalls /\ calls' = calls + 1
  /\ \E request \in Requests :
       /\ asked' = request /\ UNCHANGED <<offers, cas, results>>
       /\ \/ /\ connected \/ "SHA256" \in offers
             /\ connected' = TRUE /\ call' = request /\ response' = NoResponse
          \/ ~connected /\ response' = Error /\ UNCHANGED <<connected, call>>

Fails == response' = Error /\ call' = None
Gives(what) == response' = [status |-> "ok", what |-> what] /\ call' = None

\* upload_blobs: a large blob is written on its own (write_bytestream), before the others.
WriteLarge ==
  /\ call # None /\ call.left # <<>> /\ Large(Head(call.left))
  /\ \/ Fails /\ UNCHANGED cas
     \/ /\ cas' = cas \cup {Head(call.left)} /\ UNCHANGED response
        /\ call' = [call EXCEPT !.left = Tail(@), !.sent = @ + 1]
  /\ UNCHANGED <<connected, offers, results, asked, calls>>

SetAside ==
  /\ call # None /\ call.left # <<>> /\ ~Large(Head(call.left))
  /\ call' = [call EXCEPT !.left = Tail(@), !.small = Append(@, Head(call.left))]
  /\ UNCHANGED <<connected, offers, cas, results, response, asked, calls>>

\* Mutant: a short answer is zipped with the requests.
MutAccepted(answers, batch) == \A i \in DOMAIN answers : answers[i] = "stored"

\* upload_blobs: every blob is answered for, and none is rejected.
Accepted(answers, batch) ==
  Len(answers) = Len(batch) /\ \A i \in DOMAIN answers : answers[i] = "stored"

\* A server stores what it says it has stored.
WriteBatch ==
  /\ call # None /\ call.left = <<>> /\ call.small # <<>>
  /\ LET batch == Batch(call.small) IN
     \/ Fails /\ UNCHANGED cas
     \/ \E n \in 0..Len(batch) : \E answers \in [1..n -> {"stored", "rejected"}] :
          /\ cas' = cas \cup {batch[i] : i \in {j \in 1..n : answers[j] = "stored"}}
          /\ IF Accepted(answers, batch)
             THEN /\ call' = [call EXCEPT !.small = SubSeq(@, Len(batch) + 1, Len(@)),
                                           !.sent = @ + Len(batch)]
                  /\ UNCHANGED response
             ELSE Fails
  /\ UNCHANGED <<connected, offers, results, asked, calls>>

Sent(kinds) == call # None /\ call.kind \in kinds /\ call.left = <<>> /\ call.small = <<>>

EndUpload ==
  /\ Sent({"upload"}) /\ Gives({})
  /\ UNCHANGED <<connected, offers, cas, results, asked, calls>>

\* update_action_result
UpdateActionResult ==
  /\ Sent({"publish"})
  /\ \/ Fails /\ UNCHANGED results
     \/ Gives({}) /\ results' = results \cup {call.key}
  /\ UNCHANGED <<connected, offers, cas, asked, calls>>

\* Mutant: what was received is not hashed.
MutVerify(digest, data) == TRUE

\* Digest::verify
Verify(digest, data) == data = digest

\* What a server may send for a blob: it, if it has it, or something else.
Arrives(b) == {Tampered} \cup (IF b \in cas THEN {b} ELSE {})

\* download_blob and read_bytestream: either data are hashed.
ReadBatch == {data \in Arrives(call.key) : ~Large(call.key)}
ReadBytestream == {data \in Arrives(call.key) : Large(call.key)}

DownloadBlob ==
  /\ Sent({"download"})
  /\ \/ Fails
     \/ \E data \in ReadBatch \cup ReadBytestream :
          IF Verify(call.key, data) THEN Gives({data}) ELSE Fails
  /\ UNCHANGED <<connected, offers, cas, results, asked, calls>>

\* Not found is an answer.
GetActionResult ==
  /\ Sent({"result"})
  /\ Fails \/ Gives(IF call.key \in results THEN {call.key} ELSE {})
  /\ UNCHANGED <<connected, offers, cas, results, asked, calls>>

\* What is answered is passed on.
FindMissingBlobs ==
  /\ Sent({"missing"})
  /\ Fails \/ \E missing \in SUBSET Blobs : Gives(missing)
  /\ UNCHANGED <<connected, offers, cas, results, asked, calls>>

\* Mutant: an operation that the stream ends with is taken for the result.
MutFinished(operations) == operations # <<>>

\* collect_operations and finish_execution
Finished(operations) == operations # <<>> /\ Last(operations) = "response"

\* A stream of operations up to the first that is done, the end of the stream, or a
\* silence of the length of the timeout.
Execute ==
  /\ Sent({"execute"})
  /\ \E operations \in {<<>>, <<"running">>, <<"running", "response">>, <<"running", "failure">>} :
       IF Finished(operations) THEN Gives({Last(operations)}) ELSE Fails
  /\ UNCHANGED <<connected, offers, cas, results, asked, calls>>

ReapiNext ==
  \/ BeginCall \/ WriteLarge \/ SetAside \/ WriteBatch \/ EndUpload \/ UpdateActionResult
  \/ DownloadBlob \/ GetActionResult \/ FindMissingBlobs \/ Execute

-----------------------------------------------------------------------------
(* Properties *)

\* "The client never trusts a response" (client.rs:8): what it hands on was asked for
\* and is whole, and what it says is stored is stored, as is what an entry needs.
NothingIsTrusted ==
  /\ response.status = "ok" =>
       /\ asked.kind = "download" => response.what = {asked.key}
       /\ asked.kind = "upload" => ToSet(asked.key) \subseteq cas
       /\ asked.kind = "execute" => response.what = {"response"}
  /\ \A k \in results : ToSet(ActionBlobs(k)) \subseteq cas

\* What a call has to store.
ToStore(request) == IF request.kind = "upload" THEN request.key ELSE ActionBlobs(request.key)

\* "A large preflight does not become one request the server rejects" (client.rs:187):
\* no batch holds more than the server takes, and no blob is left out or sent twice.
BatchesFit ==
  call # None /\ call.kind \in {"upload", "publish"} =>
    /\ call.left = <<>> /\ call.small # <<>> =>
         LET batch == Batch(call.small) IN Sum(batch, 0)[Len(batch)] <= Limit
    /\ call.sent + Len(call.left) + Len(call.small) = Len(ToStore(call))

\* What is asked of a server is what it takes, and what it answers is checked.
RequestsAreSound == NothingIsTrusted /\ BatchesFit
=============================================================================
