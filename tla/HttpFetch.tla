------------------------------ MODULE HttpFetch ------------------------------
(***************************************************************************)
(* One call of fetch_url (libs/utils/http_fetch.py): validate_url, then a  *)
(* GET streamed in chunks under a size limit, against a server that may    *)
(* answer anything, stall, cut the body short or never end it.             *)
(*                                                                         *)
(* Bytes are counted, not valued.  Time passes in ticks: quiet is what has *)
(* passed since the last progress of the current socket operation, which   *)
(* is what httpx compares with timeout=timeout_seconds; elapsed is what    *)
(* has passed since the call, up to one tick beyond Timeout.               *)
(***************************************************************************)
EXTENDS Naturals, Sequences

CONSTANTS
  Urls,           \* document_url values: [parses, requestable, scheme, host]
  AllowedSchemes, \* allowed_schemes
  NoHost,         \* urlparse finds no hostname
  Unencodable,    \* a hostname that the IDNA codec of getaddrinfo rejects
  PublicIps,      \* addresses that _assert_public_host lets pass
  OtherIps,       \* private, loopback, link-local, ... addresses
  NoIp,           \* no connection yet
  MaxAddresses,   \* bound: addresses of a name
  Statuses,       \* status codes of the server
  ToClose,        \* a body without announced length: it ends with the connection
  MaxBytes,       \* max_bytes
  MaxBody,        \* bound: bytes of a body
  Timeout         \* timeout_seconds, in ticks

ASSUME LimitsAssumption ==
  /\ MaxBytes \in Nat /\ MaxBody \in Nat /\ Timeout \in Nat \ {0} /\ MaxAddresses \in Nat
  /\ ToClose \notin 0..MaxBody
  /\ Statuses \subseteq 100..599
  /\ NoIp \notin PublicIps \cup OtherIps

VARIABLES
  url,       \* argument
  addresses, \* addr_infos: what getaddrinfo returned to validate_url
  connected, \* the address that httpx connected to, or NoIp
  phase,     \* "called" | "connecting" | "waiting" | "reading" | "done"
  outcome,   \* "none", what fetch_url returned ("ok"), or what it raised
  status,    \* response.status_code, 0 before
  announced, \* the length the response headers announce, or ToClose
  gzip,      \* the body is compressed: bytes may decode to nothing
  sent,      \* decoded bytes the server has sent
  closed,    \* the server has closed the connection
  total,     \* bytes received: the local `total`
  buffered,  \* bytes in `chunks`
  quiet,
  elapsed

request == <<url, addresses, connected>>
response == <<status, announced, gzip>>
wire == <<sent, closed>>
body == <<total, buffered>>
time == <<quiet, elapsed>>
vars == <<url, addresses, connected, phase, outcome, status, announced, gzip, sent, closed,
          total, buffered, quiet, elapsed>>

Ips == PublicIps \cup OtherIps
AddressLists == UNION { [1..n -> Ips] : n \in 1..MaxAddresses }
Raised == {"InvalidUrlError", "ResponseTooLargeError", "FetchFailedError",
           "ValueError", "UnicodeError", "httpx.InvalidURL"}

Init ==
  /\ url \in Urls
  /\ addresses = <<>>
  /\ connected = NoIp
  /\ phase = "called"
  /\ outcome = "none"
  /\ status = 0
  /\ announced = ToClose
  /\ gzip = FALSE
  /\ sent = 0
  /\ closed = FALSE
  /\ total = 0
  /\ buffered = 0
  /\ quiet = 0
  /\ elapsed = 0

Finish(what) == phase' = "done" /\ outcome' = what

-----------------------------------------------------------------------------
(* validate_url: no await in it, so it is one step, whichever way it ends. *)

(* urlparse raises on some malformed URLs, outside of any try. *)
ParseRaises ==
  /\ phase = "called"
  /\ ~url.parses
  /\ Finish("ValueError")
  /\ UNCHANGED <<request, response, wire, body, time>>

RejectUrl ==
  /\ phase = "called"
  /\ url.parses
  /\ url.scheme \notin AllowedSchemes \/ url.host = NoHost
  /\ Finish("InvalidUrlError")
  /\ UNCHANGED <<request, response, wire, body, time>>

Resolvable ==
  /\ phase = "called"
  /\ url.parses
  /\ url.scheme \in AllowedSchemes
  /\ url.host # NoHost

(* The lookup fails: gaierror is caught, a host the codec rejects is not. *)
ResolveRaises ==
  /\ Resolvable
  /\ Finish(IF url.host = Unencodable THEN "UnicodeError" ELSE "InvalidUrlError")
  /\ UNCHANGED <<request, response, wire, body, time>>

(* The loop over addr_infos. *)
AssertPublicHost ==
  /\ Resolvable
  /\ url.host # Unencodable
  /\ addresses' \in AddressLists
  /\ IF \E i \in DOMAIN addresses' : addresses'[i] \in OtherIps
     THEN Finish("InvalidUrlError")
     ELSE phase' = "connecting" /\ outcome' = outcome
  /\ UNCHANGED <<url, connected, response, wire, body, time>>

-----------------------------------------------------------------------------
(* client.stream: what urlparse accepts, httpx.URL may still refuse, with an
   exception that is no httpx.HTTPError. *)
RequestRaises ==
  /\ phase = "connecting"
  /\ ~url.requestable
  /\ Finish("httpx.InvalidURL")
  /\ UNCHANGED <<request, response, wire, body, time>>

(* httpx is given the url and not the addresses, and looks the name up again:
   the resolver may answer with others.  (If it fails: NetworkError.) *)
Connect ==
  /\ phase = "connecting"
  /\ url.requestable
  /\ connected' \in Ips
  /\ phase' = "waiting"
  /\ quiet' = 0
  /\ UNCHANGED <<url, addresses, outcome, response, wire, body, elapsed>>

(* A 1xx response: httpcore reads on, for as many as the server sends. *)
ReceiveInterim ==
  /\ phase = "waiting"
  /\ quiet' = 0
  /\ UNCHANGED <<request, phase, outcome, response, wire, body, elapsed>>

(* The response headers arrive. *)
ReceiveHeaders ==
  /\ phase = "waiting"
  /\ status' \in Statuses
  /\ announced' \in (0..MaxBody) \cup {ToClose}
  /\ gzip' \in BOOLEAN
  /\ quiet' = 0
  /\ IF status' >= 400
     THEN Finish("FetchFailedError")
     ELSE phase' = "reading" /\ outcome' = outcome
  /\ UNCHANGED <<request, wire, body, elapsed>>

(* Slip: the limit is tested before the chunk is added. *)
ReceiveChunkLateTest ==
  /\ phase = "reading"
  /\ \E n \in 1..(sent - total) :
       /\ total' = total + n
       /\ IF total > MaxBytes
          THEN Finish("ResponseTooLargeError") /\ buffered' = buffered
          ELSE buffered' = buffered + n /\ UNCHANGED <<phase, outcome>>
  /\ quiet' = 0
  /\ UNCHANGED <<request, response, wire, elapsed>>

(* One turn of `async for chunk`, with whatever part of the bytes is there. *)
ReceiveChunk ==
  /\ phase = "reading"
  /\ \E n \in 1..(sent - total) :
       /\ total' = total + n
       /\ IF total' > MaxBytes
          THEN Finish("ResponseTooLargeError") /\ buffered' = buffered
          ELSE buffered' = buffered + n /\ UNCHANGED <<phase, outcome>>
  /\ quiet' = 0
  /\ UNCHANGED <<request, response, wire, elapsed>>

(* Compressed bytes arrive that decode to nothing: the loop body does not run. *)
ReceiveNothing ==
  /\ phase = "reading"
  /\ gzip
  /\ ~closed
  /\ quiet' = 0
  /\ UNCHANGED <<request, phase, outcome, response, wire, body, elapsed>>

(* Slip: the end of the connection taken for the end of the body. *)
EndOfBodyAtClose ==
  /\ phase = "reading"
  /\ total = sent
  /\ closed \/ total = announced
  /\ Finish("ok")
  /\ UNCHANGED <<request, response, wire, body, time>>

(* The stream ends where the framing says so. *)
EndOfBody ==
  /\ phase = "reading"
  /\ total = sent
  /\ IF announced = ToClose THEN closed ELSE total = announced
  /\ Finish("ok")
  /\ UNCHANGED <<request, response, wire, body, time>>

(* RemoteProtocolError: closed before the announced length. *)
BodyCutShort ==
  /\ phase = "reading"
  /\ announced # ToClose
  /\ closed /\ total = sent /\ total < announced
  /\ Finish("FetchFailedError")
  /\ UNCHANGED <<request, response, wire, body, time>>

Busy == phase \in {"connecting", "waiting", "reading"}

(* Refused or reset connections, TLS and decoding errors: httpx.HTTPError. *)
NetworkError ==
  /\ Busy
  /\ phase = "connecting" => url.requestable
  /\ Finish("FetchFailedError")
  /\ UNCHANGED <<request, response, wire, body, time>>

(* Slip: a timeout starts the request over. *)
TimeOutRetried ==
  /\ Busy
  /\ quiet = Timeout
  /\ phase' = "connecting"
  /\ quiet' = 0
  /\ sent' = 0 /\ closed' = FALSE /\ total' = 0 /\ buffered' = 0
  /\ UNCHANGED <<request, outcome, response, elapsed>>

(* httpx.TimeoutException: nothing has moved for Timeout. *)
TimeOut ==
  /\ Busy
  /\ quiet = Timeout
  /\ Finish("FetchFailedError")
  /\ UNCHANGED <<request, response, wire, body, time>>

-----------------------------------------------------------------------------
(* The server. *)

ServerSends ==
  /\ phase = "reading"
  /\ ~closed
  /\ \E n \in 1..(IF announced = ToClose THEN MaxBody - sent ELSE announced - sent) :
       sent' = sent + n
  /\ UNCHANGED <<request, phase, outcome, response, closed, body, time>>

ServerCloses ==
  /\ phase = "reading"
  /\ ~closed
  /\ closed' = TRUE
  /\ UNCHANGED <<request, phase, outcome, response, sent, body, time>>

(* Slip: the operations run without a timeout. *)
TickWithoutLimit ==
  /\ Busy
  /\ quiet <= Timeout
  /\ quiet' = quiet + 1
  /\ elapsed' = IF elapsed <= Timeout THEN elapsed + 1 ELSE elapsed
  /\ UNCHANGED <<request, phase, outcome, response, wire, body>>

Tick ==
  /\ Busy
  /\ quiet < Timeout
  /\ quiet' = quiet + 1
  /\ elapsed' = IF elapsed <= Timeout THEN elapsed + 1 ELSE elapsed
  /\ UNCHANGED <<request, phase, outcome, response, wire, body>>

-----------------------------------------------------------------------------
Validate == ParseRaises \/ RejectUrl \/ ResolveRaises \/ AssertPublicHost

Client ==
  \/ RequestRaises
  \/ ReceiveChunk \/ EndOfBody \/ BodyCutShort
  \/ TimeOut

Next ==
  \/ Validate \/ Client \/ Tick
  \/ Connect \/ ReceiveInterim \/ ReceiveHeaders \/ ReceiveNothing \/ NetworkError
  \/ ServerSends \/ ServerCloses

Spec == Init /\ [][Next]_vars

(* The event loop runs the client when it can run, and time passes.  Nothing
   is assumed of the network or of the server. *)
FairSpec == Spec /\ WF_vars(Validate) /\ WF_vars(Client) /\ WF_vars(Tick)

-----------------------------------------------------------------------------
(* Type invariant. *)
TypeOK ==
  /\ url \in Urls
  /\ addresses \in AddressLists \cup {<<>>}
  /\ connected \in Ips \cup {NoIp}
  /\ phase \in {"called", "connecting", "waiting", "reading", "done"}
  /\ outcome \in {"none", "ok"} \cup Raised
  /\ phase = "done" <=> outcome # "none"
  /\ status \in Statuses \cup {0}
  /\ announced \in (0..MaxBody) \cup {ToClose}
  /\ gzip \in BOOLEAN /\ closed \in BOOLEAN
  /\ sent \in 0..MaxBody
  /\ total \in 0..sent
  /\ buffered \in 0..total
  /\ quiet \in 0..Timeout
  /\ elapsed \in 0..(Timeout + 1)

(***************************************************************************)
(* The size limit is exact and holds while the body is read, not only at   *)
(* the end: `chunks` never holds more than max_bytes (the chunk that has   *)
(* just arrived, and the join of the chunks at the end, come on top), a    *)
(* document of max_bytes is accepted, and ResponseTooLargeError means that *)
(* the server really sent more.                                            *)
(***************************************************************************)
SizeLimit ==
  /\ buffered <= MaxBytes
  /\ outcome = "ResponseTooLargeError" => total > MaxBytes
  /\ outcome \in {"none", "ok"} => total <= MaxBytes /\ buffered = total

(***************************************************************************)
(* A document is returned whole: every byte the server sent, and as many   *)
(* as the headers announced, even if the connection closes early.  (That a *)
(* body which ends with the connection was cut short cannot be noticed.)   *)
(***************************************************************************)
OkIsComplete ==
  outcome = "ok" =>
    /\ buffered = sent
    /\ announced # ToClose => buffered = announced

(***************************************************************************)
(* fetch_url ends whatever the server does: each byte of the body counts   *)
(* towards max_bytes and silence towards the timeout.  Two things count    *)
(* towards neither: 1xx responses, for which it may wait on, and           *)
(* compressed bytes that decode to nothing.                                *)
(***************************************************************************)
EveryFetchEnds ==
  /\ phase = "called" ~> phase \in {"waiting", "done"}
  /\ phase = "reading" /\ ~gzip ~> phase = "done"

(***************************************************************************)
(* "timeout_seconds: Total request timeout" (fetch_url): a call is over    *)
(* when that time has passed.                                              *)
(***************************************************************************)
TotalTimeout == elapsed <= Timeout

(***************************************************************************)
(* The module promises to resolve the name and to reject addresses that    *)
(* are not public "before ever opening a connection", "DNS rebinding"      *)
(* included: what is connected to is public.  The addresses that were      *)
(* checked and the one connected to come from two lookups.                 *)
(***************************************************************************)
ConnectsToPublic == connected \in PublicIps \cup {NoIp}

=============================================================================
