------------------------------ MODULE KeyStore ------------------------------
(* The credential repositories behind authentication: API keys and MCP tokens
   in memory only (KeyStore), in memory and in a snapshot file (FileKeyStore),
   or in a database (PostgresKeyStore).

   FileKeyStore serialises its mutations with one lock, and each holds the
   write lock of the map it changes while it changes the map, writes and renames
   the snapshot, and rolls the map back when that fails; readers of that map
   wait.  The other two change their state in one step.

   A legacy (v1) envelope is rewrapped by the request that decrypts it: the
   envelope is read without the lock and replaced with a compare-and-swap. *)
EXTENDS Naturals, FiniteSets

CONSTANTS
  ApiKeys,      \* key ids
  McpTokens,    \* hashes of MCP tokens
  MaxRestarts,  \* bound on the process restarts
  MaxAdmin      \* bound on the mutations asked for by users

VARIABLES
  store,    \* which repository the process was built with
  memory,   \* what a lookup reads: the maps, or the tables
  file,     \* the snapshot on disk, of the file repository
  writer,   \* the mutation that holds the locks, with the entry it replaced
  revoked,  \* credentials whose deletion has been answered
  expired,  \* credentials whose time has passed
  admin     \* mutations asked for so far and restarts so far

keyVars == <<store, memory, file, writer, revoked, expired, admin>>

Credentials == ApiKeys \cup McpTokens
Stores == {"memory", "file", "database"}

NoEntry == [held |-> FALSE, envelope |-> "none", pem |-> FALSE]
Entry(envelope) == [held |-> TRUE, envelope |-> envelope, pem |-> FALSE]
Unlocked == [by |-> "none", on |-> "none", old |-> NoEntry]

KeyTypeOK ==
  LET Entries == [held : BOOLEAN, envelope : {"none", "v1", "v2"}, pem : BOOLEAN]
  IN /\ store \in Stores
     /\ memory \in [Credentials -> Entries]
     /\ file \in [Credentials -> Entries]
     /\ writer.old \in Entries
     /\ revoked \subseteq Credentials /\ expired \subseteq Credentials
     /\ admin \in [asked : 0 .. MaxAdmin, restarts : 0 .. MaxRestarts]

\* load_file_store: the process starts from the snapshot; older snapshots, and
\* older rows of the database, hold v1 envelopes.
KeyInit ==
  /\ store \in Stores
  /\ file \in [Credentials -> {NoEntry, Entry("v1"), Entry("none")}]
  /\ \A k \in ApiKeys : file[k] # Entry("none")
  /\ \A t \in McpTokens : file[t] # Entry("v1")
  /\ store = "memory" => file = [c \in Credentials |-> NoEntry]
  /\ memory = file
  /\ writer = Unlocked
  /\ revoked = {} /\ expired = {}
  /\ admin = [asked |-> 0, restarts |-> 0]

\* A reader of the map that a mutation has locked waits.
Readable(c) == writer # Unlocked => (writer.on \in ApiKeys) # (c \in ApiKeys)

-----------------------------------------------------------------------------
(* How a mutation changes the state.  Locked is everything up to the attempt to
   persist; a statement, or a map behind one lock, changes at once. *)

Locked(who, c, entry) ==
  /\ store = "file" /\ writer = Unlocked
  /\ memory' = [memory EXCEPT ![c] = entry]
  /\ writer' = [by |-> who, on |-> c, old |-> memory[c]]
  /\ UNCHANGED <<store, file, revoked, expired>>

AtOnce(which, c, entry) ==
  /\ store = which
  /\ memory' = [memory EXCEPT ![c] = entry]
  /\ revoked' = IF entry = NoEntry THEN revoked \cup {c} ELSE revoked
  /\ UNCHANGED <<store, file, writer, expired>>

Asked == admin.asked < MaxAdmin /\ admin' = [admin EXCEPT !.asked = @ + 1]

\* Identities are fresh random values: an id is not created again once it has been deleted.
Unissued(c) == ~ memory[c].held /\ c \notin revoked

\* Of the caller's own credentials; without the id nothing changes.
Owned(c) == memory[c].held

WithPem(k) == [memory[k] EXCEPT !.pem = TRUE]

FileCreateKey(k) == Unissued(k) /\ Locked("create", k, Entry("v2"))
FileSetPublicKey(k) == Owned(k) /\ Locked("public_key", k, WithPem(k))
FileDeleteKey(k) == Owned(k) /\ Locked("delete", k, NoEntry)
FileCreateMcpToken(t) == Unissued(t) /\ Locked("create", t, Entry("none"))
FileDeleteMcpToken(t) == Owned(t) /\ Locked("delete", t, NoEntry)

MemoryCreateKey(k) == Unissued(k) /\ AtOnce("memory", k, Entry("v2"))
MemorySetPublicKey(k) == Owned(k) /\ AtOnce("memory", k, WithPem(k))
MemoryDeleteKey(k) == Owned(k) /\ AtOnce("memory", k, NoEntry)
MemoryCreateMcpToken(t) == Unissued(t) /\ AtOnce("memory", t, Entry("none"))
MemoryDeleteMcpToken(t) == Owned(t) /\ AtOnce("memory", t, NoEntry)

DatabaseCreateKey(k) == Unissued(k) /\ AtOnce("database", k, Entry("v2"))
DatabaseSetPublicKey(k) == Owned(k) /\ AtOnce("database", k, WithPem(k))
DatabaseDeleteKey(k) == Owned(k) /\ AtOnce("database", k, NoEntry)
DatabaseCreateMcpToken(t) == Unissued(t) /\ AtOnce("database", t, Entry("none"))
DatabaseDeleteMcpToken(t) == Owned(t) /\ AtOnce("database", t, NoEntry)

CreateKey(k) == FileCreateKey(k) \/ MemoryCreateKey(k) \/ DatabaseCreateKey(k)
SetPublicKey(k) == FileSetPublicKey(k) \/ MemorySetPublicKey(k) \/ DatabaseSetPublicKey(k)
DeleteKey(k) == FileDeleteKey(k) \/ MemoryDeleteKey(k) \/ DatabaseDeleteKey(k)
CreateMcpToken(t) == FileCreateMcpToken(t) \/ MemoryCreateMcpToken(t) \/ DatabaseCreateMcpToken(t)
DeleteMcpToken(t) == FileDeleteMcpToken(t) \/ MemoryDeleteMcpToken(t) \/ DatabaseDeleteMcpToken(t)

\* Mutant: the snapshot is serialized before the map is changed.
RenamedEarlier ==
  /\ writer # Unlocked
  /\ file' = [memory EXCEPT ![writer.on] = writer.old]
  /\ writer' = Unlocked
  /\ revoked' = IF writer.by = "delete" THEN revoked \cup {writer.on} ELSE revoked
  /\ UNCHANGED <<store, memory, expired, admin>>

(* The rename is the commit point of persist_snapshot: no error escapes after
   it.  Whoever holds the locks answers. *)
Renamed ==
  /\ writer # Unlocked
  /\ file' = memory
  /\ writer' = Unlocked
  /\ revoked' = IF writer.by = "delete" THEN revoked \cup {writer.on} ELSE revoked
  /\ UNCHANGED <<store, memory, expired, admin>>

\* An error before the rename: the caller puts the replaced entry back and answers the error.
RolledBack ==
  /\ writer # Unlocked
  /\ memory' = [memory EXCEPT ![writer.on] = writer.old]
  /\ writer' = Unlocked
  /\ UNCHANGED <<store, file, revoked, expired, admin>>

Persist(who) == writer.by = who /\ Renamed
PersistFails(who) == writer.by = who /\ RolledBack

\* expires_at passes.
Expire(c) ==
  /\ memory[c].held /\ c \notin expired
  /\ expired' = expired \cup {c}
  /\ UNCHANGED <<store, memory, file, writer, revoked, admin>>

\* The process dies and starts again: a file store reads its snapshot back.
Restart ==
  /\ admin.restarts < MaxRestarts
  /\ admin' = [admin EXCEPT !.restarts = @ + 1]
  /\ memory' = CASE store = "file" -> file
                 [] store = "memory" -> [c \in Credentials |-> NoEntry]
                 [] store = "database" -> memory
  /\ writer' = Unlocked
  /\ UNCHANGED <<store, file, revoked, expired>>

-----------------------------------------------------------------------------
(* Lookups, each one await of the request that makes it. *)

\* get_key, and the expiry its caller checks.
KnownKey(k) == memory[k].held /\ k \notin expired

\* resolve_credentials: the entry, the hash of its secret, its expiry.
ResolvedCredentials(k, secret) == memory[k].held /\ secret /\ k \notin expired

ResolvedMcpToken(t) == memory[t].held /\ t \notin expired

\* decrypt_verified_secret: only a v1 envelope has to be replaced.
NeedsRewrap(k) == memory[k].envelope = "v1"

\* The compare-and-swap of the envelope: only the envelope that was read is replaced.
Unchanged(k) == memory[k].held /\ memory[k].envelope = "v1"
Rewrapped(k) == [memory[k] EXCEPT !.envelope = "v2"]

FileSwapEnvelope(who, k) ==
  Unchanged(k) /\ Locked(who, k, Rewrapped(k)) /\ UNCHANGED admin
MemorySwapEnvelope(k) ==
  Unchanged(k) /\ AtOnce("memory", k, Rewrapped(k)) /\ UNCHANGED admin
DatabaseSwapEnvelope(k) ==
  Unchanged(k) /\ AtOnce("database", k, Rewrapped(k)) /\ UNCHANGED admin

\* key_has_matching_v2_secret: another request has replaced it already.
AlreadyRewrapped(k) == memory[k].held /\ memory[k].envelope = "v2"

\* The key is gone since: the request is refused.
LostEnvelope(k) == ~ memory[k].held

KeyAdmin ==
  \/ /\ \/ \E k \in ApiKeys : CreateKey(k) \/ SetPublicKey(k) \/ DeleteKey(k)
        \/ \E t \in McpTokens : CreateMcpToken(t) \/ DeleteMcpToken(t)
     /\ Asked
  \/ \E who \in {"create", "public_key", "delete"} : Persist(who)
  \/ \E c \in Credentials : Expire(c)
=============================================================================
