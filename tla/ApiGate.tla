------------------------------- MODULE ApiGate -------------------------------
(***************************************************************************)
(* What the API promises its callers, without middlewares, tasks or logs.  *)
(* A request that is in order is let in once, while the window has room on *)
(* its route, or turned away when it has none; any other gets the answer   *)
(* it deserves by itself, whatever other requests do.  Every answer is     *)
(* final.                                                                  *)
(***************************************************************************)
EXTENDS Naturals

CONSTANTS
  Requests,
  Incoming,   \* what a request can be, a record with its route as path
  Welcome,    \* the verdict on a request in order
  Verdict,    \* Incoming -> Welcome, or the status it deserves
  Outcomes,   \* route -> the statuses its endpoint can end with
  Limits,     \* limited route -> requests per window
  Unanswered

VARIABLES
  incoming, \* the requests
  stage,    \* "outside" | "inside" | "turned_away"
  reply,    \* the status the caller got
  used      \* limited route -> requests let in, in this window

gateVars == <<incoming, stage, reply, used>>

Init ==
  /\ incoming \in [Requests -> Incoming]
  /\ stage = [r \in Requests |-> "outside"]
  /\ reply = [r \in Requests |-> Unanswered]
  /\ used = [path \in DOMAIN Limits |-> 0]

Path(r) == incoming[r].path

LetIn(r) ==
  /\ stage[r] = "outside"
  /\ Verdict[incoming[r]] = Welcome
  /\ Path(r) \in DOMAIN Limits => used[Path(r)] < Limits[Path(r)]
  /\ stage' = [stage EXCEPT ![r] = "inside"]
  /\ used' = [path \in DOMAIN Limits |-> IF path = Path(r) THEN used[path] + 1 ELSE used[path]]
  /\ UNCHANGED <<incoming, reply>>

TurnAway(r) ==
  /\ stage[r] = "outside"
  /\ Verdict[incoming[r]] = Welcome
  /\ Path(r) \in DOMAIN Limits
  /\ used[Path(r)] = Limits[Path(r)]
  /\ stage' = [stage EXCEPT ![r] = "turned_away"]
  /\ UNCHANGED <<incoming, reply, used>>

(* The answers a request can get from where it is. *)
Due(r) ==
  CASE stage[r] = "outside"     -> {Verdict[incoming[r]]} \ {Welcome}
    [] stage[r] = "turned_away" -> {429}
    [] stage[r] = "inside"      -> Outcomes[Path(r)]

Reply(r) ==
  /\ reply[r] = Unanswered
  /\ \E status \in Due(r) : reply' = [reply EXCEPT ![r] = status]
  /\ UNCHANGED <<incoming, stage, used>>

NextWindow ==
  /\ used' = [path \in DOMAIN Limits |-> 0]
  /\ UNCHANGED <<incoming, stage, reply>>

Next ==
  \/ \E r \in Requests : LetIn(r) \/ TurnAway(r) \/ Reply(r)
  \/ NextWindow

Spec == Init /\ [][Next]_gateVars

=============================================================================
