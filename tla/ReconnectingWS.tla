--------------------------- MODULE ReconnectingWS ---------------------------
(***************************************************************************)
(* The reconnecting WebSocket client (common/ws_client.py): the states of  *)
(* run(), one per await at which something else may happen.  A connection  *)
(* that fails, at any of them, sends the client to sleep for `backoff`;    *)
(* one the venue closes in good order does not.                            *)
(***************************************************************************)
EXTENDS Integers, FiniteSetsExt

CONSTANTS
  BaseBackoff,  \* base_backoff
  MaxBackoff,   \* max_backoff
  MaxFailures   \* bound: how far failures are counted

ASSUME BackoffAssumption ==
  BaseBackoff \in Nat \ {0} /\ MaxBackoff \in Nat /\ BaseBackoff <= MaxBackoff
ASSUME FailureBoundAssumption == MaxFailures \in Nat

VARIABLES
  stage,     \* where run() is
  backoff,   \* backoff
  stopping,  \* _stop
  failures   \* history: sleeps since the last subscription

wsVars == <<stage, backoff, stopping, failures>>

Stages == {"loop", "connecting", "connected", "open", "sleeping", "stopped"}

WsTypeOK ==
  /\ stage \in Stages
  /\ backoff \in BaseBackoff..MaxBackoff
  /\ stopping \in BOOLEAN
  /\ failures \in 0..MaxFailures

WsInit ==
  /\ stage = "loop" /\ backoff = BaseBackoff
  /\ stopping = FALSE /\ failures = 0

\* while not self._stop
Loop ==
  /\ stage = "loop"
  /\ stage' = IF stopping THEN "stopped" ELSE "connecting"
  /\ UNCHANGED <<backoff, stopping, failures>>

Connect ==
  /\ stage = "connecting"
  /\ stage' = "connected"
  /\ UNCHANGED <<backoff, stopping, failures>>

\* Mutant: the back-off is kept from one connection to the next.
ResetNever == backoff

Reset == BaseBackoff

\* Every subscribe message is sent, then the back-off is reset.
SendSubscribe ==
  /\ stage = "connected"
  /\ stage' = "open"
  /\ backoff' = Reset
  /\ failures' = 0
  /\ UNCHANGED stopping

\* on_message, and the look at _stop after it.
AfterMessage ==
  /\ stage = "open"
  /\ stage' = IF stopping THEN "loop" ELSE "open"
  /\ UNCHANGED <<backoff, stopping, failures>>

\* Any exception: of the connection, of a send, of on_message.
Fail ==
  /\ stage \in {"connecting", "connected", "open"}
  /\ stage' = IF stopping THEN "stopped" ELSE "sleeping"
  /\ UNCHANGED <<backoff, stopping, failures>>

\* The venue closes in good order: the iteration just ends.
CleanClose ==
  /\ stage = "open"
  /\ stage' = "loop"
  /\ UNCHANGED <<backoff, stopping, failures>>

Wake ==
  /\ stage = "sleeping"
  /\ stage' = "loop"
  /\ backoff' = Min({backoff * 2, MaxBackoff})
  /\ failures' = Min({failures + 1, MaxFailures})
  /\ UNCHANGED stopping

Stop ==
  /\ ~stopping
  /\ stopping' = TRUE
  /\ UNCHANGED <<stage, backoff, failures>>

-----------------------------------------------------------------------------
(* Properties. *)

\* base * 2^k, not capped.
Doubled[k \in 0..MaxFailures] == IF k = 0 THEN BaseBackoff ELSE 2 * Doubled[k - 1]

\* However connections, subscriptions and handlers fail, the next sleep is
\* base * 2^k, up to the maximum, after k sleeps since the last subscription:
\* a connection that is refused after it was accepted does not reset it.
BackoffDoubles ==
  failures < MaxFailures => backoff = Min({Doubled[failures], MaxBackoff})
=============================================================================
