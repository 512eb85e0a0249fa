--------------------------- MODULE Authentication ---------------------------
(* The authentication of concurrent requests against the credential
   repository.  A SigV4 request reads the key, fetches its secret with a second
   call, which rewraps a legacy envelope on the way, and then has its signature
   checked with the secret; a bearer pair, the access-key headers and an MCP
   token are decided by one call.  Every call is an await: credentials are
   created, changed, deleted and expire in between, snapshots fail to be
   written, and the process restarts. *)
EXTENDS KeyStore

CONSTANTS
  Callers,
  MaxAuthFaults    \* bound on failing and unanswered calls

\* Requests are told from the administrator's mutations by their names.
AuthAssumption == Callers \cap {"none", "create", "public_key", "delete"} = {}

VARIABLES
  caller,      \* the requests being authenticated
  authFaults

authVars == <<caller, authFaults, keyVars>>

NoCaller == [phase |-> "idle", cred |-> "none", secret |-> FALSE, late |-> FALSE]

AuthInit ==
  /\ KeyInit
  /\ caller = [r \in Callers |-> NoCaller]
  /\ authFaults = 0

AuthAt(r, phase) == caller[r].phase = phase
AuthGo(r, phase) == caller' = [caller EXCEPT ![r].phase = phase]
Verdict(r, granted) == AuthGo(r, IF granted THEN "granted" ELSE "denied")
AuthFault == authFaults < MaxAuthFaults /\ authFaults' = authFaults + 1

(* A request names a credential by a header or by the query, never by both, and
   in one of three ways; secret: what it presents was made with the
   credential's secret.  late: the deletion of the credential had been
   answered, or its time was over, when the request came in. *)
AuthenticateHeaders(r) ==
  /\ AuthAt(r, "idle")
  /\ \E c \in Credentials, secret \in BOOLEAN, form \in {"sigv4", "pair", "token"} :
       /\ (form = "token") = (c \in McpTokens)
       /\ caller' = [caller EXCEPT ![r] = [phase |-> form, cred |-> c, secret |-> secret,
                                           late |-> c \in revoked \cup expired]]
  /\ UNCHANGED <<authFaults, keyVars>>

\* SigV4: get_key first; an unknown or expired key is denied.
LookupKey(r) ==
  /\ AuthAt(r, "sigv4") /\ Readable(caller[r].cred)
  /\ AuthGo(r, IF KnownKey(caller[r].cred) THEN "secret" ELSE "denied")
  /\ UNCHANGED <<authFaults, keyVars>>

ResolveCredentials(r) ==
  /\ AuthAt(r, "pair") /\ Readable(caller[r].cred)
  /\ Verdict(r, ResolvedCredentials(caller[r].cred, caller[r].secret))
  /\ UNCHANGED <<authFaults, keyVars>>

\* The token is its own secret: its hash is the id.
ResolveMcpToken(r) ==
  /\ AuthAt(r, "token") /\ Readable(caller[r].cred)
  /\ Verdict(r, caller[r].secret /\ ResolvedMcpToken(caller[r].cred))
  /\ UNCHANGED <<authFaults, keyVars>>

\* decrypt_secret reads the envelope under the read lock.
DecryptSecret(r) ==
  LET k == caller[r].cred
  IN /\ AuthAt(r, "secret") /\ Readable(k)
     /\ AuthGo(r, CASE ~ memory[k].held -> "denied"
                    [] NeedsRewrap(k) -> "rewrap"
                    [] OTHER -> "verify")
     /\ UNCHANGED <<authFaults, keyVars>>

\* The envelope that was read is replaced, or another request's replacement is
\* accepted, or the key is gone.
ReplaceOrAccept(r) ==
  LET k == caller[r].cred
  IN /\ AuthAt(r, "rewrap")
     /\ \/ FileSwapEnvelope(r, k) /\ AuthGo(r, "persist")
        \/ (MemorySwapEnvelope(k) \/ DatabaseSwapEnvelope(k)) /\ AuthGo(r, "verify")
        \/ writer = Unlocked /\ AlreadyRewrapped(k) /\ AuthGo(r, "verify") /\ UNCHANGED keyVars
        \/ writer = Unlocked /\ LostEnvelope(k) /\ AuthGo(r, "denied") /\ UNCHANGED keyVars
     /\ UNCHANGED authFaults

\* The file store persists the rewrapped envelope with its locks held.
RewrapPersisted(r) ==
  /\ AuthAt(r, "persist")
  /\ \/ Persist(r) /\ AuthGo(r, "verify") /\ UNCHANGED authFaults
     \/ PersistFails(r) /\ AuthGo(r, "denied") /\ AuthFault

\* authorize: scope, time, signed headers, then the signature; what fails
\* before the signature is checked denies as well.
VerifySeedSignature(r) ==
  /\ AuthAt(r, "verify")
  /\ \/ Verdict(r, caller[r].secret)
     \/ AuthGo(r, "denied")
  /\ UNCHANGED <<authFaults, keyVars>>

\* The credential store, or resolve_workspace after it, does not answer.
AuthenticationUnavailable(r) ==
  /\ caller[r].phase \in {"sigv4", "pair", "token", "secret", "rewrap", "verify"}
  /\ AuthFault /\ AuthGo(r, "denied")
  /\ UNCHANGED keyVars

\* The client goes away; nothing awaits while the locks are held.
GiveUp(r) ==
  /\ caller[r].phase \in {"sigv4", "pair", "token", "secret", "rewrap", "verify"}
  /\ AuthGo(r, "gone")
  /\ UNCHANGED <<authFaults, keyVars>>

\* The next request on the connection.
NextRequest(r) ==
  /\ caller[r].phase \in {"granted", "denied", "gone"}
  /\ caller' = [caller EXCEPT ![r] = NoCaller]
  /\ UNCHANGED <<authFaults, keyVars>>

\* An administrator's mutation whose snapshot cannot be written.
AdminFails ==
  /\ AuthFault
  /\ \E who \in {"create", "public_key", "delete"} : PersistFails(who)
  /\ UNCHANGED caller

ProcessRestart ==
  /\ Restart
  /\ caller' = [r \in Callers |-> NoCaller]
  /\ UNCHANGED authFaults

AuthStep(r) ==
  \/ LookupKey(r) \/ ResolveCredentials(r) \/ ResolveMcpToken(r) \/ DecryptSecret(r)
  \/ ReplaceOrAccept(r) \/ RewrapPersisted(r) \/ VerifySeedSignature(r)

AuthNext ==
  \/ \E r \in Callers :
       \/ AuthenticateHeaders(r) \/ AuthStep(r)
       \/ AuthenticationUnavailable(r) \/ GiveUp(r) \/ NextRequest(r)
  \/ KeyAdmin /\ UNCHANGED <<caller, authFaults>>
  \/ AdminFails
  \/ ProcessRestart

AuthSpec == AuthInit /\ [][AuthNext]_authVars

-----------------------------------------------------------------------------
(* Revocation is final and the books agree.  A request that arrives after the
   deletion of its credential has been answered, or after its expiry, is never
   authenticated, whatever rewrap was in flight, however many snapshots failed
   to be written and whatever snapshot the process restarted from; and whenever
   no mutation holds the locks the snapshot is what requests are served from,
   every failed write and its rollback included. *)
RevokedRefused ==
  /\ \A r \in Callers : caller[r].phase = "granted" => ~ caller[r].late /\ caller[r].secret
  /\ store = "file" /\ writer = Unlocked => memory = file
=============================================================================
