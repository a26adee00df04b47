------------------------------- MODULE Sessions -------------------------------
(***************************************************************************)
(* AuthService: login with its counter of failures, and the refresh        *)
(* sessions of one user, each of which is exchanged for its successor.     *)
(* Requests interleave between the backend's processes.  The transactions  *)
(* are READ COMMITTED, the default of the engine (main.py:102): an update  *)
(* takes the rows that its statement found when it began, waits for the    *)
(* ones another transaction holds and checks them again, and sees no row   *)
(* inserted since.  The rate limiter counts within a process.  Passwords,  *)
(* claims and addresses are left out, and an expiry is an action of the    *)
(* environment.                                                            *)
(***************************************************************************)
EXTENDS Naturals, Sequences, FiniteSets
CONSTANTS
    Apis,          \* processes of the backend
    Threshold,     \* failures that lock an account
    PerMinute,     \* attempts that the limiter of a process admits
    MaxRequests    \* bound

\* The code locks an account at the fifth refusal (repository.py:296).
ASSUME ThresholdAssumption == Threshold \in Nat
VARIABLES
    sessions,      \* refresh_tokens, as committed: session -> its login, revocation, expiry and version
    version,       \* auth_token_version and status of the user, as the environment sets them
    failures, locked,    \* failed_login_count; is locked_until in the future, or past, or unset?
    attempts,      \* per process: attempts of the last minute
    proc,          \* the request a process is serving
    requests, failed,    \* counters: requests begun, passwords refused
    replayed       \* logins whose sessions a replay found and revoked, none being added meanwhile

vars == <<sessions, version, failures, locked, attempts, proc, requests, failed, replayed>>
account == <<failures, locked, failed>>

Idle == [at |-> "idle", token |-> 0, revoked |-> FALSE, expired |-> FALSE, version |-> 0, count |-> 0]
Becomes(p, request) == proc' = [proc EXCEPT ![p] = request]
Accepts(p) == proc[p].at = "idle" /\ requests < MaxRequests /\ requests' = requests + 1
Live(s) == ~sessions[s].revoked

Init ==
    /\ sessions = <<>> /\ version = 1 /\ failures = 0 /\ locked = "unset"
    /\ attempts = [p \in Apis |-> 0] /\ proc = [p \in Apis |-> Idle]
    /\ requests = 0 /\ failed = 0 /\ replayed = {}

\* A session carries the version of the user that its request has read.
New(login, read) == [login |-> login, revoked |-> FALSE, expired |-> FALSE, version |-> read]

--------------------------------------------------------------------------------
\* login: the limiter, then the account as this request reads it.
LoginReads(p) ==
    /\ Accepts(p) /\ attempts[p] < PerMinute
    /\ attempts' = [attempts EXCEPT ![p] = @ + 1]
    /\ IF locked = "future" THEN Becomes(p, Idle)
       ELSE Becomes(p, [Idle EXCEPT !.at = "password", !.version = version, !.count = failures, !.expired = locked = "past"])
    /\ UNCHANGED <<sessions, version, account, replayed>>

\* A lock that has run out is taken off first; this request then counts from zero.
ResetFailures(p) ==
    /\ proc[p].at = "password" /\ proc[p].expired
    /\ failures' = 0 /\ locked' = "unset"
    /\ Becomes(p, [proc[p] EXCEPT !.expired = FALSE, !.count = 0])
    /\ UNCHANGED <<sessions, version, attempts, requests, failed, replayed>>

\* register_login_failure writes the count it read plus one, and locks at the threshold.
LoginRefused(p) ==
    /\ proc[p].at = "password" /\ ~proc[p].expired
    /\ failures' = proc[p].count + 1 /\ failed' = failed + 1
    /\ locked' = IF failures' >= Threshold THEN "future" ELSE locked
    /\ Becomes(p, Idle)
    /\ UNCHANGED <<sessions, version, attempts, requests, replayed>>

LoginSucceeds(p) ==
    /\ proc[p].at = "password" /\ ~proc[p].expired
    /\ failures' = 0 /\ locked' = "unset"
    /\ Becomes(p, [Idle EXCEPT !.at = "saving", !.version = proc[p].version])
    /\ UNCHANGED <<sessions, version, attempts, requests, failed, replayed>>

\* The first session of a login is its own chain.
SaveSession(p) ==
    /\ proc[p].at = "saving" /\ Becomes(p, Idle)
    /\ sessions' = Append(sessions, New(Len(sessions) + 1, proc[p].version))
    /\ UNCHANGED <<version, account, attempts, requests, replayed>>

--------------------------------------------------------------------------------
\* refresh and logout read the session of the token, and refresh its user.
Read(p, op, s) ==
    /\ Accepts(p)
    /\ IF op = "logout" /\ ~Live(s) THEN Becomes(p, Idle)
       ELSE Becomes(p, [Idle EXCEPT !.at = op, !.token = s, !.revoked = ~Live(s),
                !.expired = sessions[s].expired, !.version = version])
    /\ UNCHANGED <<sessions, version, account, attempts, replayed>>

Stale(p) == sessions[proc[p].token].version # proc[p].version
\* A rotation that has revoked this session and not committed holds its row.
Held(s) == \E q \in Apis : proc[q].at = "inserting" /\ proc[q].token = s

\* revoke_all_refresh_sessions begins: its statement sees the sessions there are.
Revokes(p, why) == Becomes(p, [proc[p] EXCEPT !.at = why, !.count = Len(sessions)])

\* A spent token revokes every session of the user, an old version does too,
\* an expired one is only refused.
RefreshRefused(p) ==
    /\ proc[p].at = "refresh"
    /\ \/ proc[p].revoked /\ Revokes(p, "reuse")
       \/ ~proc[p].revoked /\ proc[p].expired /\ Becomes(p, Idle)
       \/ ~proc[p].revoked /\ ~proc[p].expired /\ Stale(p) /\ Revokes(p, "stale")
    /\ UNCHANGED <<sessions, version, account, attempts, requests, replayed>>

\* Mutant: the update does not ask whether the session is revoked.
RotatesAlways(s) == TRUE
\* rotate_refresh_session: the update takes only a session that is not revoked,
\* after waiting for a transaction that holds it.
Rotates(s) == Live(s)
Rotate(p) ==
    LET s == proc[p].token
    IN  /\ proc[p].at = "refresh" /\ ~proc[p].revoked /\ ~proc[p].expired /\ ~Stale(p) /\ ~Held(s)
        /\ Becomes(p, [proc[p] EXCEPT !.at = IF Rotates(s) THEN "inserting" ELSE "lost"])
        /\ UNCHANGED <<sessions, version, account, attempts, requests, replayed>>

\* The same transaction inserts the replacement and commits.
RotationCommits(p) ==
    LET s == proc[p].token
    IN  /\ proc[p].at = "inserting" /\ Becomes(p, Idle)
        /\ sessions' = Append([sessions EXCEPT ![s].revoked = TRUE], New(sessions[s].login, proc[p].version))
        /\ UNCHANGED <<version, account, attempts, requests, replayed>>

\* The loser of a rotation answers as for a spent token.
Reuse(p) ==
    /\ proc[p].at = "lost" /\ Revokes(p, "reuse")
    /\ UNCHANGED <<sessions, version, account, attempts, requests, replayed>>

\* The revocation waits for the rows that rotations hold, and commits.  A
\* replacement inserted since it began stays.
RevokeAll(p) ==
    LET l == sessions[proc[p].token].login
    IN  /\ proc[p].at \in {"reuse", "stale"} /\ Becomes(p, Idle)
        /\ \A s \in 1..proc[p].count : ~Held(s)
        /\ sessions' = [s \in DOMAIN sessions |-> [sessions[s] EXCEPT !.revoked = @ \/ s <= proc[p].count]]
        /\ replayed' = IF proc[p].at = "reuse" /\ \A s \in DOMAIN sessions : sessions[s].login = l => s <= proc[p].count
                       THEN replayed \union {l} ELSE replayed
        /\ UNCHANGED <<version, account, attempts, requests>>

Logout(p) ==
    /\ proc[p].at = "logout" /\ ~Held(proc[p].token) /\ Becomes(p, Idle)
    /\ sessions' = [sessions EXCEPT ![proc[p].token].revoked = TRUE]
    /\ UNCHANGED <<version, account, attempts, requests, replayed>>

--------------------------------------------------------------------------------
\* Time: a session or a lock runs out, a minute passes; and the rights of the
\* user change, which the code under apps/backend only reads.
Expire(s) ==
    /\ ~sessions[s].expired /\ sessions' = [sessions EXCEPT ![s].expired = TRUE]
    /\ UNCHANGED <<version, account, attempts, proc, requests, replayed>>
LockRunsOut ==
    /\ locked = "future" /\ locked' = "past"
    /\ UNCHANGED <<sessions, version, failures, failed, attempts, proc, requests, replayed>>
MinutePasses(p) ==
    /\ attempts[p] > 0 /\ attempts' = [attempts EXCEPT ![p] = 0]
    /\ UNCHANGED <<sessions, version, account, proc, requests, replayed>>
RightsChange ==
    /\ version = 1 /\ version' = 2
    /\ UNCHANGED <<sessions, account, attempts, proc, requests, replayed>>

Next ==
    \/ \E p \in Apis :
        \/ LoginReads(p) \/ ResetFailures(p) \/ LoginRefused(p) \/ LoginSucceeds(p) \/ SaveSession(p)
        \/ \E op \in {"refresh", "logout"}, s \in DOMAIN sessions : Read(p, op, s)
        \/ RefreshRefused(p) \/ Rotate(p) \/ RotationCommits(p) \/ Reuse(p) \/ RevokeAll(p) \/ Logout(p)
        \/ MinutePasses(p)
    \/ \E s \in DOMAIN sessions : Expire(s)
    \/ LockRunsOut \/ RightsChange
Spec == Init /\ [][Next]_vars

\* A login has at most one session that is not spent, however its refreshes
\* meet; it has none after a spent token of it was answered and no rotation of
\* it committed while the revocation waited (one that did keeps its
\* replacement); and an account is locked only after as many refusals as the
\* threshold (services.py:134-176, repository.py:384-424).
OneSessionPerLogin ==
    /\ \A l \in DOMAIN sessions : Cardinality({s \in DOMAIN sessions : sessions[s].login = l /\ Live(s)}) <= 1
    /\ \A s \in DOMAIN sessions : sessions[s].login \in replayed => ~Live(s)
    /\ locked # "unset" => failed >= Threshold
=============================================================================
