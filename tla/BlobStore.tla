------------------------------ MODULE BlobStore ------------------------------
(***************************************************************************)
(* The blob store (model_scheduler/blob_store.py) over its metadata        *)
(* database (model_scheduler/blob_metadata.py): uploads and execution      *)
(* outputs, read leases, deletion and expiry, restart recovery.            *)
(*                                                                         *)
(* Every call of the database is one transaction and every file operation  *)
(* is one system call, each run in a worker thread: an action is one of    *)
(* them.  A coroutine that is cancelled while its thread runs takes its    *)
(* `except BaseException` path although the thread still finishes.  A      *)
(* crash loses the coroutines and keeps the rows and the files.            *)
(***************************************************************************)
EXTENDS Naturals, FiniteSets, FiniteSetsExt

CONSTANTS
    Blobs,       \* service-made blob ids
    Outputs,     \* the ones that are execution outputs, the others are uploads
    Holders,     \* lease holders of readers
    Limit,       \* the size each writer reserves
    Quota,       \* owner_quota_bytes, for the one owner of the model
    MaxCrashes   \* bound on the crashes of a store that is up

ASSUME BlobConstants ==
    /\ Outputs \subseteq Blobs
    /\ Limit \in Nat \ {0} /\ Quota \in Nat /\ MaxCrashes \in Nat

VARIABLES
    row,       \* the blobs table: state and accounted size
    journal,   \* the recovery table: the step of a publication
    part,      \* blobs with a staging file
    file,      \* the published file: none, whole or damaged
    aged,      \* blobs whose expires_at has passed
    leases,    \* the leases table
    writer,    \* the coroutine that writes the blob
    cancelled, \* outputs whose reservation carries a cancelled fence
    abandon,   \* the abandon_output coroutine of an output
    unlinking, \* blobs a delete or an expiry still has to unlink
    reader,    \* what each reader has open, and how far it got
    acked,     \* blobs whose writer returned its record
    boot,      \* up, or recovering with the rows still to look at
    crashes

writerVars == <<row, journal, part, file, writer>>
restVars == <<aged, leases, cancelled, abandon, unlinking, reader, acked, boot, crashes>>
blobVars == <<writerVars, restVars>>

Restart == "restart"      \* RESTART_HOLDER_PREFIX + boot id
Counted == {"reserved", "staging", "published"}
NoRow   == [state |-> "none", size |-> 0]
NoRead  == [blob |-> "none", leased |-> FALSE]
Up      == boot.phase = "up"

\* usage(owner).total_bytes and global_bytes over a table of rows
Usage(r) == MapThenSumSet(LAMBDA b : r[b].size, {b \in Blobs : r[b].state \in Counted})

BlobInit ==
    /\ row = [b \in Blobs |-> NoRow]
    /\ journal = [b \in Blobs |-> "none"]
    /\ part = {} /\ file = [b \in Blobs |-> "none"]
    /\ aged = {} /\ leases = {} /\ cancelled = {} /\ unlinking = {} /\ acked = {}
    /\ writer = [b \in Blobs |-> "new"]
    /\ abandon = [b \in Blobs |-> "none"]
    /\ reader = [h \in Holders |-> NoRead]
    /\ boot = [phase |-> "up", left |-> {}] /\ crashes = 0

-----------------------------------------------------------------------------
(* Writing: upload, and reserve_output followed by write_output, share     *)
(* _receive_and_publish.                                                   *)

\* Mutant: the new bytes are not charged against the quota.
QuotaAdmits_full == Usage(row) <= Quota

\* reserve charges the limit before it compares with the quota
QuotaAdmits == Usage(row) + Limit <= Quota

\* metadata.reserve in one BEGIN IMMEDIATE transaction; a refusal leaves nothing
ReserveBytes(b) ==
    /\ Up /\ writer[b] = "new"
    /\ IF row[b] = NoRow /\ QuotaAdmits
       THEN /\ row' = [row EXCEPT ![b] = [state |-> "reserved", size |-> Limit]]
            /\ writer' = [writer EXCEPT ![b] = "reserved"]
       ELSE /\ writer' = [writer EXCEPT ![b] = "ended"]
            /\ UNCHANGED row
    /\ UNCHANGED <<journal, part, file, restVars>>

\* the writer's next await either returns, or raises although its thread ran
Moves(b, from, next, undo) ==
    /\ Up /\ writer[b] = from
    /\ \E to \in {next, undo} : writer' = [writer EXCEPT ![b] = to]

\* write_output refuses a cancelled reservation and abandons it
RefuseCancelled(b) ==
    /\ Up /\ writer[b] = "reserved" /\ b \in cancelled
    /\ writer' = [writer EXCEPT ![b] = "ended"]
    /\ abandon' = [abandon EXCEPT ![b] = "files"]
    /\ UNCHANGED <<row, journal, part, file, aged, leases, cancelled, unlinking, reader, acked, boot, crashes>>

\* journal STEP_STAGING: outside every try block
JournalStaging(b) ==
    /\ b \notin cancelled
    /\ Moves(b, "reserved", "journalled", "ended")
    /\ journal' = [journal EXCEPT ![b] = "staging"]
    /\ UNCHANGED <<row, part, file, restVars>>

\* _open_staging, O_EXCL: outside every try block
OpenStaging(b) ==
    /\ Moves(b, "journalled", "opened", "ended")
    /\ part' = part \cup {b}
    /\ UNCHANGED <<row, journal, file, restVars>>

\* metadata.begin_staging: raises when the row is gone
BeginStaging(b) ==
    /\ Moves(b, "opened", IF row[b] = NoRow THEN "undo_part" ELSE "receiving", "undo_part")
    /\ row' = [row EXCEPT ![b].state = IF @ = "reserved" THEN "staging" ELSE @]
    /\ UNCHANGED <<journal, part, file, restVars>>

\* the chunks, fsync and the size and hash checks
Receive(b) ==
    /\ Moves(b, "receiving", "received", "undo_part")
    /\ UNCHANGED <<row, journal, part, file, restVars>>

\* close and journal STEP_PENDING: outside every try block
JournalPending(b) ==
    /\ Moves(b, "received", "pending", "ended")
    /\ journal' = [journal EXCEPT ![b] = "pending"]
    /\ UNCHANGED <<row, part, file, restVars>>

\* _publish_file: rename over the published name; fails without staging file
PublishFile(b) ==
    /\ IF b \in part
       THEN /\ Moves(b, "pending", "renamed", "undo_rename")
            /\ file' = [file EXCEPT ![b] = "whole"]
            /\ part' = part \ {b}
       ELSE /\ Moves(b, "pending", "undo_rename", "undo_rename")
            /\ UNCHANGED <<file, part>>
    /\ UNCHANGED <<row, journal, restVars>>

\* metadata.publish: only a reserved or staging row is published
PublishRow(b) ==
    /\ IF row[b].state \in {"reserved", "staging"}
       THEN /\ Moves(b, "renamed", "committed", "undo_publish")
            /\ \E size \in 1..Limit : row' = [row EXCEPT ![b] = [state |-> "published", size |-> size]]
       ELSE /\ Moves(b, "renamed", "undo_publish", "undo_publish")
            /\ UNCHANGED row
    /\ UNCHANGED <<journal, part, file, restVars>>

\* journal STEP_PUBLISHED and clear_journal, then the record is returned
Acknowledge(b) ==
    /\ Moves(b, "committed", "done", "ended")
    /\ journal' = [journal EXCEPT ![b] = "none"]
    /\ acked' = IF writer'[b] = "done" THEN acked \cup {b} ELSE acked
    /\ UNCHANGED <<row, part, file, aged, leases, cancelled, abandon, unlinking, reader, boot, crashes>>

\* the except blocks: remove the file the stage may have left, ...
UndoFile(b) ==
    /\ Up /\ writer[b] \in {"undo_part", "undo_rename", "undo_publish"}
    /\ writer' = [writer EXCEPT ![b] = IF @ = "undo_part" THEN "abort" ELSE "abort_clear"]
    /\ IF writer[b] = "undo_publish"
       THEN file' = [file EXCEPT ![b] = "none"] /\ UNCHANGED part
       ELSE part' = part \ {b} /\ UNCHANGED file
    /\ UNCHANGED <<row, journal, restVars>>

\* metadata.abort
Aborted(b) == [row EXCEPT ![b] = IF @.state \in {"reserved", "staging"} THEN NoRow ELSE @]

\* ... then metadata.abort and, on the later stages, clear_journal
UndoRow(b) ==
    /\ Up /\ writer[b] \in {"abort", "abort_clear"}
    /\ row' = Aborted(b)
    /\ journal' = [journal EXCEPT ![b] = IF writer[b] = "abort" THEN @ ELSE "none"]
    /\ writer' = [writer EXCEPT ![b] = "ended"]
    /\ UNCHANGED <<part, file, restVars>>

\* cancel_output under the reservation's own fence, then abandon_output
CancelOutput(b) ==
    /\ Up /\ b \in Outputs \ cancelled /\ writer[b] \notin {"new", "lost"} /\ b \notin acked
    /\ cancelled' = cancelled \cup {b}
    /\ abandon' = [abandon EXCEPT ![b] = "files"]
    /\ UNCHANGED <<writerVars, aged, leases, unlinking, reader, acked, boot, crashes>>

\* abandon_output: both files, then the row if it is not published
AbandonFiles(b) ==
    /\ Up /\ abandon[b] = "files"
    /\ abandon' = [abandon EXCEPT ![b] = "row"]
    /\ part' = part \ {b} /\ file' = [file EXCEPT ![b] = "none"]
    /\ UNCHANGED <<row, journal, writer, aged, leases, cancelled, unlinking, reader, acked, boot, crashes>>

AbandonRow(b) ==
    /\ Up /\ abandon[b] = "row"
    /\ abandon' = [abandon EXCEPT ![b] = "done"]
    /\ row' = Aborted(b) /\ journal' = [journal EXCEPT ![b] = "none"]
    /\ UNCHANGED <<part, file, writer, aged, leases, cancelled, unlinking, reader, acked, boot, crashes>>

-----------------------------------------------------------------------------
(* Reads, deletion, expiry.                                                *)

\* a caller learns a blob id from the record of a finished write
Learned == acked \ cancelled

ReadFrame == UNCHANGED <<journal, part, file, writer, cancelled, abandon, acked, boot, crashes>>

\* lease, first half: the row is published and fresh, the opened descriptor
\* is verified; a mismatch marks the row corrupt, a missing file does not
OpenVerified(h, b) ==
    /\ Up /\ reader[h] = NoRead /\ b \in Learned
    /\ \A l \in leases : l[2] # h
    /\ row[b].state = "published" /\ b \notin aged
    /\ IF file[b] = "whole"
       THEN reader' = [reader EXCEPT ![h] = [blob |-> b, leased |-> FALSE]] /\ UNCHANGED row
       ELSE /\ row' = IF file[b] = "damaged" THEN [row EXCEPT ![b].state = "corrupt"] ELSE row
            /\ UNCHANGED reader
    /\ ReadFrame /\ UNCHANGED <<aged, leases, unlinking>>

\* lease, second half: acquire_lease only for a published row, before the try
AcquireLease(h) ==
    LET b == reader[h].blob IN
    /\ Up /\ reader[h] # NoRead /\ ~reader[h].leased
    /\ IF row[b].state = "published"
       THEN /\ leases' = leases \cup {<<b, h>>}
            /\ \/ reader' = [reader EXCEPT ![h].leased = TRUE]
               \/ reader' = [reader EXCEPT ![h] = NoRead]      \* cancelled here: the row stays
       ELSE reader' = [reader EXCEPT ![h] = NoRead] /\ UNCHANGED leases
    /\ ReadFrame /\ UNCHANGED <<row, aged, unlinking>>

ReleaseLease(h) ==
    /\ Up /\ reader[h].leased
    /\ leases' = leases \ {<<reader[h].blob, h>>}
    /\ reader' = [reader EXCEPT ![h] = NoRead]
    /\ ReadFrame /\ UNCHANGED <<row, aged, unlinking>>

\* Mutant: the restart protection does not count as a lease.
Held_readers(b) == \E l \in leases : l[1] = b /\ l[2] # Restart

\* the condition of delete and of expire: some lease row names the blob
Held(b) == \E l \in leases : l[1] = b

\* delete by the owner: any unheld row becomes a tombstone in one transaction;
\* a tombstone is answered again; either way the file is unlinked afterwards
Delete(b) ==
    /\ Up /\ b \in Learned /\ row[b] # NoRow /\ (row[b].state = "deleted" \/ ~Held(b))
    /\ row' = [row EXCEPT ![b].state = "deleted"]
    /\ aged' = IF row[b].state = "deleted" THEN aged ELSE aged \ {b}
    /\ unlinking' = unlinking \cup {b}
    /\ ReadFrame /\ UNCHANGED <<leases, reader>>

\* Mutant: the expiry does not look at the leases.
Expire_leased ==
    LET due == {b \in aged : row[b].state = "published"} IN
    /\ Up /\ due # {}
    /\ row' = [b \in Blobs |-> IF b \in due THEN [row[b] EXCEPT !.state = "deleted"] ELSE row[b]]
    /\ aged' = aged \ due
    /\ unlinking' = unlinking \cup due
    /\ ReadFrame /\ UNCHANGED <<leases, reader>>

\* expire: every aged, published, unheld row
Expire ==
    LET due == {b \in aged : row[b].state = "published" /\ ~Held(b)} IN
    /\ Up /\ due # {}
    /\ row' = [b \in Blobs |-> IF b \in due THEN [row[b] EXCEPT !.state = "deleted"] ELSE row[b]]
    /\ aged' = aged \ due
    /\ unlinking' = unlinking \cup due
    /\ ReadFrame /\ UNCHANGED <<leases, reader>>

\* the unlink that follows a delete or an expiry
Unlink(b) ==
    /\ Up /\ b \in unlinking
    /\ unlinking' = unlinking \ {b}
    /\ file' = [file EXCEPT ![b] = "none"]
    /\ UNCHANGED <<row, journal, part, writer, aged, leases, cancelled, abandon, reader, acked, boot, crashes>>

\* purge_tombstones
Purge ==
    LET due == {b \in aged : row[b].state \in {"deleted", "corrupt"}} IN
    /\ Up /\ due # {}
    /\ row' = [b \in Blobs |-> IF b \in due THEN NoRow ELSE row[b]]
    /\ aged' = aged \ due
    /\ ReadFrame /\ UNCHANGED <<leases, unlinking, reader>>

\* time: expires_at of a published row or a tombstone passes
Age(b) ==
    /\ Up /\ row[b].state \in {"published", "deleted", "corrupt"} /\ b \notin aged
    /\ aged' = aged \cup {b}
    /\ UNCHANGED <<writerVars, leases, cancelled, abandon, unlinking, reader, acked, boot, crashes>>

\* outside the service: a published file is altered
Damage(b) ==
    /\ Up /\ file[b] = "whole"
    /\ file' = [file EXCEPT ![b] = "damaged"]
    /\ UNCHANGED <<row, journal, part, writer, restVars>>

-----------------------------------------------------------------------------
(* Crash and restart recovery.                                             *)

\* the process dies, also in the middle of a recovery, which then starts over
Crash ==
    /\ Up => crashes < MaxCrashes
    /\ crashes' = IF Up THEN crashes + 1 ELSE crashes
    /\ boot' = [phase |-> "recovering", left |-> {b \in Blobs : row[b] # NoRow}]
    /\ writer' = [b \in Blobs |-> IF writer[b] = "new" THEN "new" ELSE "lost"]
    /\ abandon' = [b \in Blobs |-> "done"]
    /\ unlinking' = {} /\ reader' = [h \in Holders |-> NoRead]
    /\ UNCHANGED <<row, journal, part, file, aged, leases, cancelled, acked>>

\* recover, one row: a published file is verified or its row becomes a
\* tombstone; an unfinished row is completed when the renamed file matches its
\* pending journal entry, and purged otherwise
RecoverRow(b) ==
    LET completes == journal[b] = "pending" /\ file[b] = "whole" IN
    /\ boot.phase = "recovering" /\ b \in boot.left
    /\ boot' = [boot EXCEPT !.left = @ \ {b}]
    /\ CASE row[b].state = "published" ->
              /\ row' = IF file[b] = "whole" THEN row
                        ELSE [row EXCEPT ![b] = [state |-> "deleted", size |-> 0]]
              /\ aged' = IF file[b] = "whole" THEN aged ELSE aged \ {b}
              /\ journal' = [journal EXCEPT ![b] = "none"]
              /\ UNCHANGED <<part, file>>
         [] row[b].state \in {"reserved", "staging"} /\ completes ->
              /\ \E size \in 1..Limit : row' = [row EXCEPT ![b] = [state |-> "published", size |-> size]]
              /\ part' = part \ {b} /\ journal' = [journal EXCEPT ![b] = "none"]
              /\ UNCHANGED <<file, aged>>
         [] row[b].state \in {"reserved", "staging"} /\ ~completes ->
              /\ row' = [row EXCEPT ![b] = NoRow]
              /\ part' = part \ {b} /\ file' = [file EXCEPT ![b] = "none"]
              /\ journal' = [journal EXCEPT ![b] = "none"]
              /\ UNCHANGED aged
         [] OTHER -> UNCHANGED <<row, journal, part, file, aged>>
    /\ UNCHANGED <<writer, leases, cancelled, abandon, unlinking, reader, acked, crashes>>

\* Mutant: the staging directory is not swept.
RecoveryEnds_unswept(running) ==
    /\ boot.phase = "recovering" /\ boot.left = {}
    /\ boot' = [boot EXCEPT !.phase = "up"]
    /\ leases' = IF running THEN leases \cup {<<b, Restart>> : b \in {c \in Blobs : row[c].state = "published"}}
                 ELSE leases
    /\ UNCHANGED <<row, journal, part, file, writer, aged, cancelled, abandon, unlinking, reader, acked, crashes>>

\* recover, the end: sweep the staging directory; with instances running every
\* published blob gets a restart lease
RecoveryEnds(running) ==
    /\ boot.phase = "recovering" /\ boot.left = {}
    /\ boot' = [boot EXCEPT !.phase = "up"]
    /\ part' = {}
    /\ leases' = IF running THEN leases \cup {<<b, Restart>> : b \in {c \in Blobs : row[c].state = "published"}}
                 ELSE leases
    /\ UNCHANGED <<row, journal, file, writer, aged, cancelled, abandon, unlinking, reader, acked, crashes>>

\* release_restart_protection, after the old instance is seen stopped
ReleaseProtection ==
    /\ Up /\ \E l \in leases : l[2] = Restart
    /\ leases' = {l \in leases : l[2] # Restart}
    /\ ReadFrame /\ UNCHANGED <<row, aged, unlinking, reader>>

Write(b) ==
    \/ ReserveBytes(b) \/ RefuseCancelled(b) \/ JournalStaging(b) \/ OpenStaging(b) \/ BeginStaging(b)
    \/ Receive(b) \/ JournalPending(b) \/ PublishFile(b) \/ PublishRow(b) \/ Acknowledge(b)
    \/ UndoFile(b) \/ UndoRow(b)

BlobNext ==
    \/ Expire \/ Purge \/ Crash \/ ReleaseProtection
    \/ \E running \in BOOLEAN : RecoveryEnds(running)
    \/ \E b \in Blobs : \/ Write(b) \/ CancelOutput(b) \/ AbandonFiles(b) \/ AbandonRow(b)
                        \/ Delete(b) \/ Unlink(b) \/ Age(b) \/ Damage(b) \/ RecoverRow(b)
    \/ \E h \in Holders : \/ AcquireLease(h) \/ ReleaseLease(h)
                          \/ \E b \in Blobs : OpenVerified(h, b)

BlobSpec == BlobInit /\ [][BlobNext]_blobVars

-----------------------------------------------------------------------------
(* Properties.                                                             *)

\* The accounted bytes never exceed owner_quota_bytes, whatever uploads,
\* outputs, cancellations, crashes and completed publications interleave.
QuotaRespected ==
    MapThenSumSet(LAMBDA b : row[b].size, {b \in Blobs : row[b].state \notin {"none", "deleted", "corrupt"}})
        <= Quota

\* lease: "the file cannot be deleted while it is open".  No step unlinks an
\* intact file under a lease row, a reader's or the restart protection's.
LeaseProtects ==
    [][\A l \in leases : file[l[1]] = "whole" => file'[l[1]] # "none"]_blobVars

\* A write the caller was told about is durable: while its file is intact the
\* blob stays published, through crashes and recovery, until it is deleted or
\* expires with no lease held.
AckedSurvives ==
    [][\A b \in acked \ cancelled :
         row[b].state = "published" /\ file[b] = "whole" /\ row'[b].state # "published"
           => row'[b].state = "deleted" /\ ~Held(b)]_blobVars

\* recover: when it returns there is no unfinished row, no staging file, and
\* every row that is still published has its verified file.
RecoveryResolves ==
    [][boot.phase = "recovering" /\ boot'.phase = "up" =>
         /\ part' = {}
         /\ \A b \in Blobs : /\ row'[b].state \notin {"reserved", "staging"}
                             /\ row'[b].state = "published" => file'[b] = "whole"]_blobVars
====
