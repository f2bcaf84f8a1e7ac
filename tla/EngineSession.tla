---------------------------- MODULE EngineSession ----------------------------
(***************************************************************************)
(* The session with the workflow engine (_authenticate and _request of     *)
(* adapters/airflow.py).                                                   *)
(*                                                                         *)
(* One client serves every worker of the process. It caches the last token *)
(* it was granted; a request that is answered 401 logs in once and is sent *)
(* again with the token of that login, whatever its second answer is. A    *)
(* caller gives up control at each await: while a login and while a        *)
(* request are on their way.                                               *)
(***************************************************************************)
EXTENDS Naturals

CONSTANTS
    Callers,     \* the steps of the process that talk to the engine
    MaxTokens,   \* bound: logins
    MaxFaults    \* bound: calls that raise

ASSUME SessionAssumption == MaxTokens \in Nat /\ MaxFaults \in Nat

VARIABLES
    token,     \* self._token; 0 is None
    issued,    \* the engine has granted the tokens 1 .. issued
    expired,   \* the tokens the engine no longer takes
    req,       \* req[c]: the request of c
    faults

session == <<token, issued, expired, req, faults>>

Tokens == 1 .. MaxTokens

\* "login" and "renew": the login is on its way to the engine; "granted" and
\* "regranted": its answer is on its way back; "send" and "resend": the
\* request is on its way.
Points == {"idle", "login", "granted", "send", "renew", "regranted", "resend",
           "answered", "refused", "raised"}

Over == {"answered", "refused", "raised"}

\* bearer is the local variable token of the request. lapsed is history: the
\* token of the second login expired before the engine saw the request.
Requests == [pc : Points, bearer : 0 .. MaxTokens, lapsed : BOOLEAN]

AtRest == [pc |-> "idle", bearer |-> 0, lapsed |-> FALSE]

SessionInit ==
    /\ token = 0
    /\ issued = 0
    /\ expired = {}
    /\ req = [c \in Callers |-> AtRest]
    /\ faults = 0

-----------------------------------------------------------------------------

\* A request begins: the cached token, or a login.
Begun ==
    IF token # 0
    THEN [pc |-> "send", bearer |-> token, lapsed |-> FALSE]
    ELSE [pc |-> "login", bearer |-> 0, lapsed |-> FALSE]

Request(c) ==
    /\ req[c].pc = "idle"
    /\ req' = [req EXCEPT ![c] = Begun]
    /\ UNCHANGED <<token, issued, expired, faults>>

\* The caller takes the answer; it may begin its next request at once.
Take(c, next) ==
    /\ req[c].pc \in Over
    /\ next \in {AtRest, Begun}
    /\ req' = [req EXCEPT ![c] = next]
    /\ UNCHANGED <<token, issued, expired, faults>>

\* The engine grants a token.
Grant(c) ==
    /\ req[c].pc \in {"login", "renew"}
    /\ issued < MaxTokens
    /\ issued' = issued + 1
    /\ req' = [req EXCEPT ![c].pc = IF @ = "login" THEN "granted" ELSE "regranted",
                          ![c].bearer = issued + 1]
    /\ UNCHANGED <<token, expired, faults>>

\* _authenticate returns: the client caches the token and the request goes out
\* with it. A login that was answered earlier may return later.
Receive(c) ==
    /\ req[c].pc \in {"granted", "regranted"}
    /\ token' = req[c].bearer
    /\ req' = [req EXCEPT ![c].pc = IF @ = "granted" THEN "send" ELSE "resend"]
    /\ UNCHANGED <<issued, expired, faults>>

\* Mutant: a token another caller was granted meanwhile is used instead of a login.
SharedRenewal(r) ==
    IF token # r.bearer
    THEN [r EXCEPT !.pc = "resend", !.bearer = token]
    ELSE [r EXCEPT !.pc = "renew"]
\* A 401: the request logs in.
Renewal(r) == [r EXCEPT !.pc = "renew"]

\* The engine answers the first attempt.
Send(c) ==
    /\ req[c].pc = "send"
    /\ req' = [req EXCEPT ![c] = IF @.bearer \in expired
                                 THEN Renewal(@)
                                 ELSE [@ EXCEPT !.pc = "answered"]]
    /\ UNCHANGED <<token, issued, expired, faults>>

\* The engine answers the second attempt; a second 401 is the caller's.
Resend(c) ==
    /\ req[c].pc = "resend"
    /\ req' = [req EXCEPT ![c].pc = IF req[c].bearer \in expired THEN "refused" ELSE "answered"]
    /\ UNCHANGED <<token, issued, expired, faults>>

\* A login or a request raises.
Raise(c) ==
    /\ req[c].pc \in {"login", "send", "renew", "resend"}
    /\ faults < MaxFaults
    /\ faults' = faults + 1
    /\ req' = [req EXCEPT ![c].pc = "raised"]
    /\ UNCHANGED <<token, issued, expired>>

\* The engine stops taking a token.
Expire(t) ==
    /\ t \in 1 .. issued
    /\ t \notin expired
    /\ expired' = expired \cup {t}
    /\ req' = [c \in Callers |->
                  IF req[c].pc \in {"regranted", "resend"} /\ req[c].bearer = t
                  THEN [req[c] EXCEPT !.lapsed = TRUE]
                  ELSE req[c]]
    /\ UNCHANGED <<token, issued, faults>>

\* The steps that are not a caller's own.
Transport ==
    \/ \E c \in Callers : Grant(c) \/ Receive(c) \/ Send(c) \/ Resend(c) \/ Raise(c)
    \/ \E t \in Tokens : Expire(t)

SessionNext ==
    \/ Transport
    \/ \E c \in Callers : Request(c) \/ Take(c, AtRest) \/ Take(c, Begun)

SessionSpec == SessionInit /\ [][SessionNext]_session

-----------------------------------------------------------------------------

\* The session is typed; the client only ever uses tokens it was granted, and
\* what is sent again is a fresh token unless it lapsed on the way.
SessionInv ==
    /\ token \in 0 .. issued
    /\ issued \in 0 .. MaxTokens
    /\ expired \subseteq 1 .. issued
    /\ req \in [Callers -> Requests]
    /\ faults \in 0 .. MaxFaults
    /\ \A c \in Callers :
          /\ req[c].bearer <= issued
          /\ req[c].pc \in {"granted", "send", "regranted", "resend"} => req[c].bearer # 0
          /\ req[c].pc \in {"regranted", "resend"} /\ req[c].bearer \in expired => req[c].lapsed

(* Whatever the other callers do to the cached token, a caller is handed a  *)
(* 401 only if the token it logged in for, after the first 401, expired     *)
(* before its request arrived: one renewal is enough (_request, lines       *)
(* 95-97).                                                                  *)
RefusedOnlyOnExpiry ==
    \A c \in Callers : req[c].pc = "refused" => req[c].lapsed
=============================================================================
