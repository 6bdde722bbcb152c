--------------------------- MODULE LoginThrottle ---------------------------
(* The failure counters of sign-in (database/src/auth-throttle.ts) and which *)
(* of them a request consults and which it bumps (login-guard.ts).  Pure:    *)
(* the table is the state of Accounts.                                      *)
EXTENDS Integers

CONSTANTS
  Logins,     \* accounts as they are typed: users, by ID, and logins of nobody
  Addresses,  \* client addresses
  Trusted,    \* those of the management network, AUTH_TRUSTED_NETWORKS
  Policy      \* per scope: threshold, windowMs, lockMs

Scopes == {"login_ip", "ip", "login", "sso_start"}

\* DEFAULT_LOGIN_GUARD_POLICIES: 5 failures or more, and locks as long as windows.
ASSUME LoginThrottleAssumption ==
  /\ Trusted \subseteq Addresses
  /\ \A scope \in Scopes :
       /\ {Policy[scope].threshold, Policy[scope].window, Policy[scope].lock} \subseteq Nat \ {0}
       /\ Policy[scope].threshold > 1 /\ Policy[scope].lock >= Policy[scope].window

\* A counter is named by its scope and what the HMAC is taken of.
loginIpKey(account, address) == <<"login_ip", account, address>>
loginKey(account) == <<"login", account>>
ipKey(address) == <<"ip", address>>
ssoKey(address) == <<"sso_start", address>>

Keys ==
  {loginIpKey(l, a) : l \in Logins, a \in Addresses} \cup {loginKey(l) : l \in Logins}
    \cup {ipKey(a) : a \in Addresses} \cup {ssoKey(a) : a \in Addresses}

\* A distributed attack may lock an account, but not against the management
\* network.  A bug would be to consult what is known of the address alone.
addressKeysOnly(account, address) == {loginIpKey(account, address), ipKey(address)}
localLoginKeys(account, address) ==
  {loginIpKey(account, address), ipKey(address)}
    \cup (IF address \in Trusted THEN {} ELSE {loginKey(account)})
localLoginFailureHits(account, address) ==
  {loginIpKey(account, address), ipKey(address), loginKey(account)}
addressKeys(address) == {ipKey(address)}
addressFailureHit(address) == {ipKey(address)}
ssoStartKeys(address) == {ssoKey(address), ipKey(address)}
ssoStartHit(address) == {ssoKey(address)}

\* Counters that carry the user's ID: those of a login that matched the user.
userKeys(u) == {loginKey(u)} \cup {loginIpKey(u, a) : a \in Addresses}

Null == -1
NoCounter == [start |-> Null, failures |-> 0, until |-> Null]
NoCounters == [k \in Keys |-> NoCounter]

maxWindow ==
  CHOOSE w \in {Policy[s].window : s \in Scopes} : \A s \in Scopes : Policy[s].window <= w

-----------------------------------------------------------------------------
\* A window that ran out and a lock that expired start the counter over.
over(counter, policy, t) ==
  \/ counter = NoCounter
  \/ counter.start + policy.window <= t
  \/ counter.until # Null /\ counter.until <= t

reached(failures, policy) == failures >= policy.threshold

nextAuthThrottleState(counter, policy, t) ==
  LET anew == over(counter, policy, t)
      failures == IF anew THEN 1 ELSE counter.failures + 1
  IN  [start    |-> IF anew THEN t ELSE counter.start,
       failures |-> failures,
       until    |-> IF reached(failures, policy) THEN t + policy.lock
                    ELSE IF anew THEN Null ELSE counter.until]

findAuthLock(table, keys, t) == \E k \in keys : table[k].until > t

recordAuthThrottleHits(table, hits, t) ==
  [k \in Keys |->
     IF k \in hits THEN nextAuthThrottleState(table[k], Policy[k[1]], t) ELSE table[k]]

\* Also what an administrator, the CLI or a new password does to locks.
clearAuthThrottle(table, keys) == [k \in Keys |-> IF k \in keys THEN NoCounter ELSE table[k]]

expired(counter, t) ==
  counter.start <= t - maxWindow /\ (counter.until = Null \/ counter.until <= t)
deleteExpiredAuthThrottle(table, t) ==
  clearAuthThrottle(table, {k \in Keys : expired(table[k], t)})
=============================================================================
