--------------------------- MODULE BlobStoreProofs ---------------------------
(***************************************************************************)
(* Proofs about BlobStore: what a lease protects, what an acknowledged     *)
(* write survives and what a recovery leaves behind.                       *)
(*                                                                         *)
(* The invariant is local: BlobOK relates the row, the file, the writer,   *)
(* the abandon call, the pending unlink and the leases of one blob.        *)
(***************************************************************************)
EXTENDS BlobStore, TLAPS

BlobShape ==
    /\ DOMAIN row = Blobs /\ DOMAIN file = Blobs /\ DOMAIN journal = Blobs
    /\ DOMAIN writer = Blobs /\ DOMAIN abandon = Blobs /\ DOMAIN reader = Holders
    /\ \A b \in Blobs : DOMAIN row[b] = {"state", "size"}
    /\ \A h \in Holders : DOMAIN reader[h] = {"blob", "leased"}
    /\ acked \subseteq Blobs /\ aged \subseteq Blobs /\ \A l \in leases : l[1] \in Blobs
    /\ DOMAIN boot = {"phase", "left"} /\ boot.phase \in {"up", "recovering"}

\* what the recovery owes a row it has looked at
Resolved(b) ==
    /\ row[b].state \notin {"reserved", "staging"}
    /\ row[b].state = "published" => file[b] = "whole"

BlobOK(b) ==
    /\ row[b].state # "none" => writer[b] # "new"
    /\ b \in acked => writer[b] \in {"done", "lost"}
    /\ writer[b] = "done" => b \in acked
    /\ abandon[b] \in {"files", "row"} => b \in cancelled
    /\ b \in unlinking => row[b].state \in {"deleted", "none"} /\ writer[b] # "new"
    /\ boot.phase = "recovering" => /\ writer[b] \in {"new", "lost"} /\ abandon[b] = "done"
                                    /\ b \notin boot.left => Resolved(b)
    /\ Held(b) => /\ writer[b] \in {"done", "lost"} /\ abandon[b] \notin {"files", "row"}
                  /\ file[b] = "whole" => row[b].state = "published"

ReaderOK(h) == reader[h] # NoRead => reader[h].blob \in Learned

BlobInv ==
    /\ BlobShape
    /\ \A b \in Blobs : BlobOK(b)
    /\ \A h \in Holders : ReaderOK(h)

\* The store starts empty.
LEMMA BlobInitInv == BlobInit => BlobInv
<1> SUFFICES ASSUME BlobInit PROVE BlobInv
  OBVIOUS
<1>1. BlobShape
  BY DEF BlobInit, BlobShape, NoRow, NoRead
<1>2. \A b \in Blobs : BlobOK(b)
  BY DEF BlobInit, BlobOK, NoRow, Held, Resolved
<1>3. \A h \in Holders : ReaderOK(h)
  BY DEF BlobInit, ReaderOK
<1> QED BY <1>1, <1>2, <1>3 DEF BlobInv

-----------------------------------------------------------------------------
(* Steps of one blob.                                                      *)

\* the step leaves every other blob, the leases, the readers and the boot alone
OnlyBlob(b) ==
    /\ DOMAIN row' = Blobs /\ DOMAIN file' = Blobs /\ DOMAIN journal' = Blobs
    /\ DOMAIN writer' = Blobs /\ DOMAIN abandon' = Blobs
    /\ DOMAIN row'[b] = {"state", "size"}
    /\ \A c \in Blobs : c # b =>
         /\ row'[c] = row[c] /\ file'[c] = file[c]
         /\ writer'[c] = writer[c] /\ abandon'[c] = abandon[c]
         /\ (c \in acked' <=> c \in acked) /\ (c \in cancelled' <=> c \in cancelled)
         /\ (c \in unlinking' => c \in unlinking)
    /\ acked' \subseteq Blobs /\ aged' \subseteq Blobs
    /\ b \in acked => b \in acked' /\ (b \in cancelled' => b \in cancelled)
    /\ UNCHANGED <<leases, reader, boot>>

LEMMA OneBlob ==
  ASSUME BlobInv, NEW b \in Blobs, OnlyBlob(b), BlobOK(b)'
  PROVE  BlobInv'
<1>1. BlobShape'
  BY DEF BlobInv, BlobShape, OnlyBlob
<1>2. ASSUME NEW c \in Blobs PROVE BlobOK(c)'
  <2>1. CASE c # b
    <3>1. BlobOK(c)
      BY DEF BlobInv
    <3>2. Held(c)' <=> Held(c)
      BY DEF Held, OnlyBlob
    <3> QED BY <2>1, <3>1, <3>2 DEF OnlyBlob, BlobOK, Resolved
  <2> QED BY <2>1
<1>3. \A h \in Holders : ReaderOK(h)'
  BY DEF BlobInv, BlobShape, ReaderOK, OnlyBlob, Learned
<1> QED BY <1>1, <1>2, <1>3 DEF BlobInv

\* what the invariant says of one blob
LEMMA LocalBlob ==
  ASSUME BlobInv, NEW b \in Blobs
  PROVE  /\ BlobOK(b) /\ DOMAIN row[b] = {"state", "size"}
         /\ DOMAIN row = Blobs /\ DOMAIN file = Blobs /\ DOMAIN journal = Blobs
         /\ DOMAIN writer = Blobs /\ DOMAIN abandon = Blobs
         /\ acked \subseteq Blobs /\ aged \subseteq Blobs
BY DEF BlobInv, BlobShape

\* A step of the coroutine that writes b: the stages a writer passes, the row
\* it may write and the file it may make or remove.
WriterStep(b) ==
    /\ Up /\ writer[b] \notin {"done", "lost", "ended"}
    /\ UNCHANGED <<aged, leases, cancelled, unlinking, reader, boot>>
    /\ DOMAIN row' = Blobs /\ DOMAIN file' = Blobs /\ DOMAIN journal' = Blobs
    /\ DOMAIN writer' = Blobs /\ DOMAIN abandon' = Blobs
    /\ DOMAIN row'[b] = {"state", "size"}
    /\ \A c \in Blobs : c # b =>
         /\ row'[c] = row[c] /\ file'[c] = file[c]
         /\ writer'[c] = writer[c] /\ abandon'[c] = abandon[c]
    /\ writer'[b] # "new"
    /\ acked' = IF writer'[b] = "done" THEN acked \cup {b} ELSE acked
    /\ \/ row'[b].state = row[b].state
       \/ row[b].state = "none" /\ writer[b] = "new"
       \/ row[b].state \in {"reserved", "staging"}
    /\ abandon'[b] = abandon[b] \/ b \in cancelled

LEMMA WriterKeeps ==
  ASSUME BlobInv, NEW b \in Blobs, WriterStep(b)
  PROVE  BlobInv' /\ ~Held(b) /\ b \notin acked
<1>1. BlobOK(b) /\ acked \subseteq Blobs /\ aged \subseteq Blobs
  BY LocalBlob
<1>2. ~Held(b) /\ b \notin acked /\ boot.phase = "up"
  BY <1>1 DEF BlobOK, WriterStep, Up
<1>3. OnlyBlob(b)
  BY <1>1, <1>2 DEF OnlyBlob, WriterStep
<1>4. ~Held(b)'
  BY <1>2 DEF Held, WriterStep
<1>5. b \in unlinking' => row'[b].state \in {"deleted", "none"} /\ writer'[b] # "new"
  BY <1>1 DEF BlobOK, WriterStep
<1>6. BlobOK(b)'
  <2>1. boot'.phase # "recovering"
    BY <1>2 DEF WriterStep
  <2>2. (abandon'[b] \in {"files", "row"} => b \in cancelled')
        /\ (row'[b].state # "none" => writer'[b] # "new")
        /\ (b \in acked' => writer'[b] \in {"done", "lost"})
        /\ (writer'[b] = "done" => b \in acked')
    BY <1>1, <1>2 DEF BlobOK, WriterStep
  <2> QED BY <1>4, <1>5, <2>1, <2>2 DEF BlobOK
<1> QED BY <1>2, <1>3, <1>6, OneBlob

\* the two ends of a step of the writer
LEMMA MovesTo ==
  ASSUME BlobInv, NEW b \in Blobs, NEW from, NEW next, NEW undo, Moves(b, from, next, undo)
  PROVE  /\ Up /\ writer[b] = from /\ writer'[b] \in {next, undo}
         /\ DOMAIN writer' = Blobs
         /\ \A c \in Blobs : c # b => writer'[c] = writer[c]
BY LocalBlob DEF Moves

LEMMA ReserveWrites == ASSUME BlobInv, NEW b \in Blobs, ReserveBytes(b) PROVE WriterStep(b)
<1>1. /\ Up /\ writer[b] = "new"
      /\ UNCHANGED <<file, journal, aged, leases, cancelled, abandon, unlinking, reader,
                     acked, boot>>
  BY DEF ReserveBytes, restVars
<1>2. CASE /\ row[b] = NoRow
           /\ row' = [row EXCEPT ![b] = [state |-> "reserved", size |-> Limit]]
           /\ writer' = [writer EXCEPT ![b] = "reserved"]
  BY <1>1, <1>2, LocalBlob DEF WriterStep, NoRow
<1>3. CASE row' = row /\ writer' = [writer EXCEPT ![b] = "ended"]
  BY <1>1, <1>3, LocalBlob DEF WriterStep
<1> QED BY <1>2, <1>3 DEF ReserveBytes

LEMMA RefuseWrites == ASSUME BlobInv, NEW b \in Blobs, RefuseCancelled(b) PROVE WriterStep(b)
<1>1. /\ Up /\ writer[b] = "reserved" /\ b \in cancelled
      /\ writer' = [writer EXCEPT ![b] = "ended"]
      /\ abandon' = [abandon EXCEPT ![b] = "files"]
      /\ UNCHANGED <<row, file, journal, aged, leases, cancelled, unlinking, reader, acked, boot>>
  BY DEF RefuseCancelled
<1> QED BY <1>1, LocalBlob DEF WriterStep

\* the stages that only journal, open or receive
LEMMA StagingWrites ==
  ASSUME BlobInv, NEW b \in Blobs,
         \/ JournalStaging(b) \/ OpenStaging(b) \/ Receive(b) \/ JournalPending(b)
  PROVE  WriterStep(b)
<1>1. UNCHANGED <<row, file, aged, leases, cancelled, abandon, unlinking, reader, acked, boot>>
  BY DEF JournalStaging, OpenStaging, Receive, JournalPending, restVars
<1>2. DOMAIN journal' = Blobs
  BY LocalBlob DEF JournalStaging, OpenStaging, Receive, JournalPending
<1>3. PICK from \in {"reserved", "journalled", "receiving", "received"},
           next \in {"journalled", "opened", "received", "pending"},
           undo \in {"ended", "undo_part"} : Moves(b, from, next, undo)
  BY DEF JournalStaging, OpenStaging, Receive, JournalPending
<1>4. /\ Up /\ writer[b] = from /\ writer'[b] \in {next, undo}
      /\ DOMAIN writer' = Blobs
      /\ \A c \in Blobs : c # b => writer'[c] = writer[c]
  BY <1>3, MovesTo
<1> QED BY <1>1, <1>2, <1>3, <1>4, LocalBlob DEF WriterStep

LEMMA BeginWrites == ASSUME BlobInv, NEW b \in Blobs, BeginStaging(b) PROVE WriterStep(b)
<1>1. /\ UNCHANGED <<file, journal, aged, leases, cancelled, abandon, unlinking, reader,
                     acked, boot>>
      /\ row' = [row EXCEPT ![b].state = IF @ = "reserved" THEN "staging" ELSE @]
  BY DEF BeginStaging, restVars
<1>2. /\ Up /\ writer[b] = "opened" /\ writer'[b] \in {"undo_part", "receiving"}
      /\ DOMAIN writer' = Blobs
      /\ \A c \in Blobs : c # b => writer'[c] = writer[c]
  BY MovesTo DEF BeginStaging
<1>3. /\ DOMAIN row' = Blobs /\ DOMAIN row'[b] = {"state", "size"}
      /\ \A c \in Blobs : c # b => row'[c] = row[c]
      /\ row'[b].state = row[b].state \/ row[b].state = "reserved"
  BY <1>1, LocalBlob
<1> QED BY <1>1, <1>2, <1>3, LocalBlob DEF WriterStep

LEMMA PublishWrites ==
  ASSUME BlobInv, NEW b \in Blobs, PublishFile(b) \/ PublishRow(b)
  PROVE  WriterStep(b)
<1>1. UNCHANGED <<journal, aged, leases, cancelled, abandon, unlinking, reader, acked, boot>>
  BY DEF PublishFile, PublishRow, restVars
<1>2. PICK from \in {"pending", "renamed"},
           next \in {"renamed", "undo_rename", "committed", "undo_publish"},
           undo \in {"undo_rename", "undo_publish"} : Moves(b, from, next, undo)
  BY DEF PublishFile, PublishRow
<1>3. /\ Up /\ writer[b] = from /\ writer'[b] \in {next, undo}
      /\ DOMAIN writer' = Blobs
      /\ \A c \in Blobs : c # b => writer'[c] = writer[c]
  BY <1>2, MovesTo
<1>4. CASE row' = row /\ (file' = file \/ file' = [file EXCEPT ![b] = "whole"])
  BY <1>1, <1>2, <1>3, <1>4, LocalBlob DEF WriterStep
<1>5. CASE /\ row[b].state \in {"reserved", "staging"} /\ file' = file
           /\ \E size \in 1..Limit :
                row' = [row EXCEPT ![b] = [state |-> "published", size |-> size]]
  BY <1>1, <1>2, <1>3, <1>5, LocalBlob DEF WriterStep
<1> QED BY <1>4, <1>5 DEF PublishFile, PublishRow

LEMMA AcknowledgeWrites == ASSUME BlobInv, NEW b \in Blobs, Acknowledge(b) PROVE WriterStep(b)
<1>1. /\ UNCHANGED <<row, file, aged, leases, cancelled, abandon, unlinking, reader, boot>>
      /\ journal' = [journal EXCEPT ![b] = "none"]
      /\ acked' = IF writer'[b] = "done" THEN acked \cup {b} ELSE acked
  BY DEF Acknowledge
<1>2. /\ Up /\ writer[b] = "committed" /\ writer'[b] \in {"done", "ended"}
      /\ DOMAIN writer' = Blobs
      /\ \A c \in Blobs : c # b => writer'[c] = writer[c]
  BY MovesTo DEF Acknowledge
<1> QED BY <1>1, <1>2, LocalBlob DEF WriterStep

\* metadata.abort of one row
LEMMA AbortedRow ==
  ASSUME BlobInv, NEW b \in Blobs, row' = Aborted(b)
  PROVE  /\ DOMAIN row' = Blobs /\ DOMAIN row'[b] = {"state", "size"}
         /\ \A c \in Blobs : c # b => row'[c] = row[c]
         /\ row'[b] = row[b]
              \/ (row[b].state \in {"reserved", "staging"} /\ row'[b].state = "none")
BY LocalBlob DEF Aborted, NoRow

LEMMA UndoWrites ==
  ASSUME BlobInv, NEW b \in Blobs, UndoFile(b) \/ UndoRow(b)
  PROVE  WriterStep(b)
<1>1. /\ Up /\ writer[b] \in {"undo_part", "undo_rename", "undo_publish", "abort", "abort_clear"}
      /\ UNCHANGED <<aged, leases, cancelled, abandon, unlinking, reader, acked, boot>>
  BY DEF UndoFile, UndoRow, restVars
<1>2. /\ DOMAIN writer' = Blobs /\ writer'[b] \in {"abort", "abort_clear", "ended"}
      /\ \A c \in Blobs : c # b => writer'[c] = writer[c]
  BY LocalBlob DEF UndoFile, UndoRow
<1>3. CASE UndoFile(b)
  <2>1. row' = row /\ journal' = journal
        /\ (file' = file \/ file' = [file EXCEPT ![b] = "none"])
    BY <1>3 DEF UndoFile
  <2> QED BY <1>1, <1>2, <2>1, LocalBlob DEF WriterStep
<1>4. CASE UndoRow(b)
  <2>1. row' = Aborted(b) /\ file' = file /\ DOMAIN journal' = Blobs
    BY <1>4, LocalBlob DEF UndoRow
  <2>2. /\ DOMAIN row' = Blobs /\ DOMAIN row'[b] = {"state", "size"}
        /\ \A c \in Blobs : c # b => row'[c] = row[c]
        /\ row'[b] = row[b]
             \/ (row[b].state \in {"reserved", "staging"} /\ row'[b].state = "none")
    BY <2>1, AbortedRow
  <2> QED BY <1>1, <1>2, <2>1, <2>2, LocalBlob DEF WriterStep
<1> QED BY <1>3, <1>4

\* Every step of a writer is one.
LEMMA WriteIsWriterStep == ASSUME BlobInv, NEW b \in Blobs, Write(b) PROVE WriterStep(b)
BY ReserveWrites, RefuseWrites, StagingWrites, BeginWrites, PublishWrites, AcknowledgeWrites,
   UndoWrites DEF Write

-----------------------------------------------------------------------------
(* What a step may not do, with the invariant it keeps.                    *)

Protects == \A l \in leases : file[l[1]] = "whole" => file'[l[1]] # "none"

Survives ==
    \A b \in acked \ cancelled :
        row[b].state = "published" /\ file[b] = "whole" /\ row'[b].state # "published"
          => row'[b].state = "deleted" /\ ~Held(b)

Resolves ==
    boot.phase = "recovering" /\ boot'.phase = "up" =>
        /\ part' = {}
        /\ \A b \in Blobs : /\ row'[b].state \notin {"reserved", "staging"}
                            /\ row'[b].state = "published" => file'[b] = "whole"

BlobKept == BlobInv' /\ Protects /\ Survives /\ Resolves

\* A step that changes one blob, keeps its file unless nobody holds it, and
\* keeps its row as the third property asks.
LEMMA OneBlobKept ==
  ASSUME BlobInv, NEW b \in Blobs, OnlyBlob(b), BlobOK(b)',
         Held(b) /\ file[b] = "whole" => file'[b] # "none",
         b \in acked /\ row[b].state = "published" /\ file[b] = "whole"
             /\ row'[b].state # "published"
           => row'[b].state = "deleted" /\ ~Held(b)
  PROVE  BlobKept
<1>1. BlobInv'
  BY OneBlob
<1>2. Protects
  <2>1. \A l \in leases : l[1] \in Blobs
    BY DEF BlobInv, BlobShape
  <2>2. \A l \in leases : l[1] # b => file'[l[1]] = file[l[1]]
    BY <2>1 DEF OnlyBlob
  <2>3. \A l \in leases : l[1] = b => Held(b)
    BY DEF Held
  <2> QED BY <2>2, <2>3 DEF Protects
<1>3. Survives
  <2>1. acked \subseteq Blobs
    BY LocalBlob
  <2>2. \A c \in acked : c # b => row'[c] = row[c]
    BY <2>1 DEF OnlyBlob
  <2> QED BY <2>2 DEF Survives
<1>4. Resolves
  BY DEF Resolves, OnlyBlob
<1> QED BY <1>1, <1>2, <1>3, <1>4 DEF BlobKept

LEMMA WriteKeeps == ASSUME BlobInv, NEW b \in Blobs, Write(b) PROVE BlobKept
<1>1. WriterStep(b)
  BY WriteIsWriterStep
<1>2. BlobInv' /\ ~Held(b) /\ b \notin acked
  BY <1>1, WriterKeeps
<1>3. BlobOK(b)'
  BY <1>2 DEF BlobInv
<1>4. OnlyBlob(b)
  BY <1>1, <1>2, LocalBlob DEF OnlyBlob, WriterStep
<1> QED BY <1>2, <1>3, <1>4, OneBlobKept

LEMMA CancelKeeps == ASSUME BlobInv, NEW b \in Blobs, CancelOutput(b) PROVE BlobKept
<1>1. /\ Up /\ writer[b] \notin {"new", "lost"} /\ b \notin acked
      /\ cancelled' = cancelled \cup {b} /\ abandon' = [abandon EXCEPT ![b] = "files"]
      /\ UNCHANGED <<row, journal, file, writer, aged, leases, unlinking, reader, acked, boot>>
  BY DEF CancelOutput, writerVars
<1>2. BlobOK(b) /\ DOMAIN row[b] = {"state", "size"} /\ abandon'[b] = "files"
  BY <1>1, LocalBlob
<1>3. ~Held(b) /\ ~Held(b)' /\ boot'.phase # "recovering"
  BY <1>1, <1>2 DEF BlobOK, Held, Up
<1>4. BlobOK(b)'
  BY <1>1, <1>2, <1>3 DEF BlobOK
<1>5. OnlyBlob(b)
  BY <1>1, <1>2, LocalBlob DEF OnlyBlob
<1> QED BY <1>1, <1>4, <1>5, OneBlobKept

\* abandon_output works on an output whose fence is cancelled: nobody has
\* learned of it, and no restart protects it.
LEMMA AbandonKeeps ==
  ASSUME BlobInv, NEW b \in Blobs, AbandonFiles(b) \/ AbandonRow(b)
  PROVE  BlobKept
<1>1. /\ Up /\ abandon[b] \in {"files", "row"}
      /\ UNCHANGED <<writer, aged, leases, cancelled, unlinking, reader, acked, boot>>
  BY DEF AbandonFiles, AbandonRow
<1>2. BlobOK(b)
  BY LocalBlob
<1>3. ~Held(b) /\ ~Held(b)' /\ boot'.phase # "recovering" /\ b \in cancelled
  BY <1>1, <1>2 DEF BlobOK, Held, Up
<1>4. /\ DOMAIN abandon' = Blobs /\ abandon'[b] \in {"row", "done"}
      /\ \A c \in Blobs : c # b => abandon'[c] = abandon[c]
      /\ DOMAIN file' = Blobs /\ DOMAIN journal' = Blobs
      /\ \A c \in Blobs : c # b => file'[c] = file[c]
  BY LocalBlob DEF AbandonFiles, AbandonRow
<1>5. row' = row \/ row' = Aborted(b)
  BY DEF AbandonFiles, AbandonRow
<1>6. /\ DOMAIN row' = Blobs /\ DOMAIN row'[b] = {"state", "size"}
      /\ \A c \in Blobs : c # b => row'[c] = row[c]
      /\ row'[b] = row[b]
           \/ (row[b].state \in {"reserved", "staging"} /\ row'[b].state = "none")
  BY <1>5, AbortedRow, LocalBlob
<1>7. BlobOK(b)'
  BY <1>1, <1>2, <1>3, <1>4, <1>6 DEF BlobOK
<1>8. OnlyBlob(b)
  BY <1>1, <1>4, <1>6, LocalBlob DEF OnlyBlob
<1> QED BY <1>3, <1>6, <1>7, <1>8, OneBlobKept

LEMMA UnlinkKeeps == ASSUME BlobInv, NEW b \in Blobs, Unlink(b) PROVE BlobKept
<1>1. /\ Up /\ b \in unlinking /\ unlinking' = unlinking \ {b}
      /\ file' = [file EXCEPT ![b] = "none"]
      /\ UNCHANGED <<row, journal, writer, aged, leases, cancelled, abandon, reader, acked, boot>>
  BY DEF Unlink
<1>2. BlobOK(b) /\ DOMAIN row[b] = {"state", "size"} /\ file'[b] = "none"
  BY <1>1, LocalBlob
<1>3. (Held(b)' <=> Held(b)) /\ boot'.phase # "recovering"
  BY <1>1 DEF Held, Up
<1>4. BlobOK(b)'
  BY <1>1, <1>2, <1>3 DEF BlobOK
<1>5. OnlyBlob(b)
  BY <1>1, <1>2, LocalBlob DEF OnlyBlob
<1>6. Held(b) => file[b] # "whole"
  BY <1>1, <1>2 DEF BlobOK
<1> QED BY <1>1, <1>4, <1>5, <1>6, OneBlobKept

LEMMA AgeDamageKeeps == ASSUME BlobInv, NEW b \in Blobs, Age(b) \/ Damage(b) PROVE BlobKept
<1>1. /\ Up
      /\ UNCHANGED <<row, journal, writer, leases, cancelled, abandon, unlinking, reader,
                     acked, boot>>
      /\ aged' \in {aged, aged \cup {b}}
  BY DEF Age, Damage, writerVars, restVars
<1>2. BlobOK(b) /\ DOMAIN row[b] = {"state", "size"}
  BY LocalBlob
<1>3. /\ DOMAIN file' = Blobs /\ \A c \in Blobs : c # b => file'[c] = file[c]
      /\ file'[b] = file[b] \/ file'[b] = "damaged"
  BY LocalBlob DEF Age, Damage, writerVars
<1>4. (Held(b)' <=> Held(b)) /\ boot'.phase # "recovering"
  BY <1>1 DEF Held, Up
<1>5. BlobOK(b)'
  BY <1>1, <1>2, <1>3, <1>4 DEF BlobOK
<1>6. OnlyBlob(b)
  BY <1>1, <1>2, <1>3, LocalBlob DEF OnlyBlob
<1> QED BY <1>1, <1>3, <1>5, <1>6, OneBlobKept


\* recover, one row: what it makes of the row and the file.
LEMMA RecoveredRow ==
  ASSUME BlobInv, NEW b \in Blobs, RecoverRow(b)
  PROVE  /\ DOMAIN row' = Blobs /\ DOMAIN file' = Blobs /\ DOMAIN journal' = Blobs
         /\ DOMAIN row'[b] = {"state", "size"} /\ aged' \subseteq aged
         /\ \A c \in Blobs : c # b => row'[c] = row[c] /\ file'[c] = file[c]
         /\ \/ row'[b] = row[b] /\ file'[b] = file[b] /\ Resolved(b)
            \/ /\ row[b].state = "published" /\ file[b] # "whole"
               /\ row'[b].state = "deleted" /\ file'[b] = file[b]
            \/ /\ row[b].state \in {"reserved", "staging"} /\ file[b] = "whole"
               /\ row'[b].state = "published" /\ file'[b] = "whole"
            \/ /\ row[b].state \in {"reserved", "staging"}
               /\ row'[b].state = "none" /\ file'[b] = "none"
<1> DEFINE completes == journal[b] = "pending" /\ file[b] = "whole"
<1>1. CASE row[b].state = "published"
  <2>1. /\ row' = IF file[b] = "whole" THEN row
                  ELSE [row EXCEPT ![b] = [state |-> "deleted", size |-> 0]]
        /\ aged' = IF file[b] = "whole" THEN aged ELSE aged \ {b}
        /\ journal' = [journal EXCEPT ![b] = "none"] /\ file' = file
    BY <1>1 DEF RecoverRow
  <2> QED BY <1>1, <2>1, LocalBlob DEF Resolved
<1>2. CASE row[b].state \in {"reserved", "staging"} /\ completes
  <2>1. /\ \E size \in 1..Limit :
             row' = [row EXCEPT ![b] = [state |-> "published", size |-> size]]
        /\ journal' = [journal EXCEPT ![b] = "none"] /\ file' = file /\ aged' = aged
    BY <1>2 DEF RecoverRow
  <2>2. PICK size \in 1..Limit :
               row' = [row EXCEPT ![b] = [state |-> "published", size |-> size]]
    BY <2>1
  <2>3. /\ DOMAIN row' = Blobs /\ DOMAIN row'[b] = {"state", "size"}
        /\ row'[b].state = "published"
        /\ \A c \in Blobs : c # b => row'[c] = row[c]
    BY <2>2, LocalBlob
  <2> QED BY <1>2, <2>1, <2>3, LocalBlob
<1>3. CASE row[b].state \in {"reserved", "staging"} /\ ~completes
  <2>1. /\ row' = [row EXCEPT ![b] = NoRow] /\ file' = [file EXCEPT ![b] = "none"]
        /\ journal' = [journal EXCEPT ![b] = "none"] /\ aged' = aged
    BY <1>3 DEF RecoverRow
  <2> QED BY <1>3, <2>1, LocalBlob DEF NoRow
<1>4. CASE row[b].state \notin {"published", "reserved", "staging"}
  <2>1. UNCHANGED <<row, journal, file, aged>>
    BY <1>4 DEF RecoverRow
  <2> QED BY <1>4, <2>1, LocalBlob DEF Resolved
<1> QED BY <1>1, <1>2, <1>3, <1>4

LEMMA RecoverRowKeeps == ASSUME BlobInv, NEW b \in Blobs, RecoverRow(b) PROVE BlobKept
<1>1. /\ boot.phase = "recovering" /\ b \in boot.left
      /\ boot' = [boot EXCEPT !.left = @ \ {b}]
      /\ UNCHANGED <<writer, leases, cancelled, abandon, unlinking, reader, acked>>
  BY DEF RecoverRow
<1>2. BlobShape /\ BlobOK(b)
  BY DEF BlobInv
<1>3. /\ DOMAIN boot' = {"phase", "left"} /\ boot'.phase = "recovering"
      /\ boot'.left = boot.left \ {b}
  BY <1>1, <1>2 DEF BlobShape
<1> DEFINE Outcome ==
             \/ row'[b] = row[b] /\ file'[b] = file[b] /\ Resolved(b)
             \/ /\ row[b].state = "published" /\ file[b] # "whole"
                /\ row'[b].state = "deleted" /\ file'[b] = file[b]
             \/ /\ row[b].state \in {"reserved", "staging"} /\ file[b] = "whole"
                /\ row'[b].state = "published" /\ file'[b] = "whole"
             \/ /\ row[b].state \in {"reserved", "staging"}
                /\ row'[b].state = "none" /\ file'[b] = "none"
<1>4. /\ DOMAIN row' = Blobs /\ DOMAIN file' = Blobs /\ DOMAIN journal' = Blobs
      /\ DOMAIN row'[b] = {"state", "size"} /\ aged' \subseteq aged
      /\ \A c \in Blobs : c # b => row'[c] = row[c] /\ file'[c] = file[c]
      /\ Outcome
  BY RecoveredRow
<1>5. \A c \in Blobs : Held(c)' <=> Held(c)
  BY <1>1 DEF Held
<1>6. BlobOK(b)'
  BY <1>1, <1>2, <1>3, <1>4, <1>5 DEF BlobOK, Resolved
<1>7. ASSUME NEW c \in Blobs, c # b PROVE BlobOK(c)'
  <2>1. BlobOK(c)
    BY DEF BlobInv
  <2> QED BY <1>1, <1>3, <1>4, <1>5, <1>7, <2>1 DEF BlobOK, Resolved
<1>8. BlobShape'
  BY <1>1, <1>2, <1>3, <1>4 DEF BlobShape
<1>9. \A h \in Holders : ReaderOK(h)'
  BY <1>1 DEF BlobInv, ReaderOK, Learned
<1>10. Protects
  <2>1. \A l \in leases : l[1] \in Blobs /\ Held(l[1])
    BY <1>2 DEF BlobShape, Held
  <2>2. Held(b) /\ file[b] = "whole" => file'[b] # "none"
    BY <1>2, <1>4 DEF BlobOK
  <2>3. \A c \in Blobs : Held(c) /\ file[c] = "whole" => file'[c] # "none"
    BY <1>4, <2>2
  <2> QED BY <2>1, <2>3 DEF Protects
<1>11. Survives
  <2>1. acked \subseteq Blobs
    BY <1>2 DEF BlobShape
  <2> QED BY <1>4, <2>1 DEF Survives
<1> QED BY <1>3, <1>6, <1>7, <1>8, <1>9, <1>10, <1>11 DEF BlobKept, BlobInv, Resolves

-----------------------------------------------------------------------------
(* Steps of the whole store.                                               *)

\* the rows of some blobs change while the store is up
RowsStep ==
    /\ Up
    /\ UNCHANGED <<journal, file, writer, cancelled, abandon, acked, boot>>
    /\ DOMAIN row' = Blobs /\ \A b \in Blobs : DOMAIN row'[b] = {"state", "size"}
    /\ aged' \subseteq Blobs
    /\ leases' \subseteq leases
    /\ DOMAIN reader' = Holders
    /\ \A h \in Holders : DOMAIN reader'[h] = {"blob", "leased"} /\ ReaderOK(h)'
    /\ \A b \in Blobs :
         /\ row'[b] # row[b] => b \in acked \/ writer[b] # "new"
         /\ row'[b] # row[b] =>
              \/ row'[b].state = "deleted" /\ (~Held(b) \/ row[b].state = "deleted")
              \/ row'[b].state = "corrupt" /\ row[b].state = "published" /\ file[b] = "damaged"
              \/ row'[b].state = "none" /\ row[b].state \in {"deleted", "corrupt"}
         /\ b \in unlinking' => b \in unlinking \/ (row'[b].state = "deleted" /\ writer[b] # "new")

LEMMA RowsKeep == ASSUME BlobInv, RowsStep PROVE BlobKept
<1>1. BlobShape /\ boot.phase = "up"
  BY DEF BlobInv, RowsStep, Up
<1>2. ASSUME NEW b \in Blobs PROVE BlobOK(b)'
  <2>1. BlobOK(b)
    BY DEF BlobInv
  <2>2. Held(b)' => Held(b)
    BY DEF Held, RowsStep
  <2>3. UNCHANGED <<file, writer, abandon, acked, cancelled, boot>>
    BY DEF RowsStep
  <2>4. row'[b].state # "none" => writer[b] # "new"
    BY <2>1 DEF BlobOK, RowsStep
  <2>5. b \in unlinking' => row'[b].state \in {"deleted", "none"} /\ writer[b] # "new"
    BY <2>1 DEF BlobOK, RowsStep
  <2>6. Held(b) /\ file[b] = "whole" => row'[b].state = "published"
    BY <2>1 DEF BlobOK, RowsStep
  <2> QED BY <1>1, <2>1, <2>2, <2>3, <2>4, <2>5, <2>6 DEF BlobOK
<1>3. BlobShape'
  BY <1>1 DEF BlobShape, RowsStep
<1>4. Protects /\ Resolves
  BY <1>1 DEF Protects, Resolves, RowsStep
<1>5. Survives
  BY <1>1 DEF BlobShape, Survives, RowsStep
<1> QED BY <1>2, <1>3, <1>4, <1>5 DEF BlobKept, BlobInv, RowsStep

\* what the readers and the deletions leave alone
LEMMA ReadShape ==
  ASSUME BlobInv, ReadFrame
  PROVE  /\ UNCHANGED <<journal, file, writer, cancelled, abandon, acked, boot>>
         /\ BlobShape
BY DEF BlobInv, ReadFrame

LEMMA OpenKeeps ==
  ASSUME BlobInv, NEW h \in Holders, NEW b \in Blobs, OpenVerified(h, b)
  PROVE  BlobKept
<1>1. /\ UNCHANGED <<journal, file, writer, cancelled, abandon, acked, boot, aged, leases, unlinking>>
      /\ BlobShape /\ Up /\ b \in Learned /\ row[b].state = "published"
  BY ReadShape DEF OpenVerified
<1>2. CASE /\ row' = row
           /\ reader' = [reader EXCEPT ![h] = [blob |-> b, leased |-> FALSE]]
  <2>1. /\ DOMAIN reader' = Holders
        /\ \A k \in Holders : DOMAIN reader'[k] = {"blob", "leased"} /\ ReaderOK(k)'
    BY <1>1, <1>2 DEF BlobShape, BlobInv, ReaderOK, Learned
  <2> QED BY <1>1, <1>2, <2>1, RowsKeep DEF RowsStep, BlobShape
<1>3. CASE /\ reader' = reader
           /\ row' = IF file[b] = "damaged" THEN [row EXCEPT ![b].state = "corrupt"] ELSE row
  <2>1. \A k \in Holders : ReaderOK(k)'
    BY <1>1, <1>3 DEF BlobInv, ReaderOK, Learned
  <2>2. writer[b] # "new"
    BY <1>1, LocalBlob DEF BlobOK
  <2>3. /\ DOMAIN row' = Blobs /\ \A c \in Blobs : DOMAIN row'[c] = {"state", "size"}
        /\ \A c \in Blobs : row'[c] # row[c] =>
             c = b /\ row'[c].state = "corrupt" /\ file[c] = "damaged"
    BY <1>1, <1>3 DEF BlobShape
  <2> QED BY <1>1, <1>3, <2>1, <2>2, <2>3, RowsKeep DEF RowsStep, BlobShape
<1> QED BY <1>2, <1>3 DEF OpenVerified

LEMMA ReleaseKeeps ==
  ASSUME BlobInv, ReleaseProtection \/ \E h \in Holders : ReleaseLease(h)
  PROVE  BlobKept
<1>1. /\ UNCHANGED <<journal, file, writer, cancelled, abandon, acked, boot, aged, row, unlinking>>
      /\ BlobShape /\ Up /\ leases' \subseteq leases
  BY ReadShape DEF ReleaseProtection, ReleaseLease
<1>2. reader' = reader \/ \E h \in Holders : reader' = [reader EXCEPT ![h] = NoRead]
  BY DEF ReleaseProtection, ReleaseLease
<1>3. /\ DOMAIN reader' = Holders
      /\ \A k \in Holders : DOMAIN reader'[k] = {"blob", "leased"} /\ ReaderOK(k)'
  BY <1>1, <1>2 DEF BlobShape, BlobInv, ReaderOK, Learned, NoRead
<1> QED BY <1>1, <1>3, RowsKeep DEF RowsStep, BlobShape

LEMMA DeleteKeeps == ASSUME BlobInv, NEW b \in Blobs, Delete(b) PROVE BlobKept
<1>1. /\ UNCHANGED <<journal, file, writer, cancelled, abandon, acked, boot, leases, reader>>
      /\ BlobShape /\ Up /\ b \in acked /\ (row[b].state = "deleted" \/ ~Held(b))
      /\ row' = [row EXCEPT ![b].state = "deleted"]
      /\ aged' \subseteq aged /\ unlinking' = unlinking \cup {b}
  BY ReadShape DEF Delete, Learned
<1>2. writer[b] # "new"
  BY <1>1, LocalBlob DEF BlobOK
<1>3. \A k \in Holders : ReaderOK(k)'
  BY <1>1 DEF BlobInv, ReaderOK, Learned
<1>4. /\ DOMAIN row' = Blobs /\ \A c \in Blobs : DOMAIN row'[c] = {"state", "size"}
      /\ row'[b].state = "deleted" /\ \A c \in Blobs : c # b => row'[c] = row[c]
  BY <1>1 DEF BlobShape
<1> QED BY <1>1, <1>2, <1>3, <1>4, RowsKeep DEF RowsStep, BlobShape

LEMMA ExpireKeeps == ASSUME BlobInv, Expire PROVE BlobKept
<1> DEFINE due == {b \in aged : row[b].state = "published" /\ ~Held(b)}
<1>1. /\ UNCHANGED <<journal, file, writer, cancelled, abandon, acked, boot, leases, reader>>
      /\ BlobShape /\ Up
      /\ row' = [b \in Blobs |-> IF b \in due THEN [row[b] EXCEPT !.state = "deleted"] ELSE row[b]]
      /\ aged' = aged \ due /\ unlinking' = unlinking \cup due
  BY ReadShape DEF Expire
<1>2. \A b \in due : b \in Blobs /\ row[b].state = "published" /\ ~Held(b)
  BY <1>1 DEF BlobShape
<1> HIDE DEF due
<1>3. \A b \in due : writer[b] # "new"
  BY <1>2, LocalBlob DEF BlobOK
<1>4. \A k \in Holders : ReaderOK(k)'
  BY <1>1 DEF BlobInv, ReaderOK, Learned
<1>5. /\ DOMAIN row' = Blobs /\ \A c \in Blobs : DOMAIN row'[c] = {"state", "size"}
      /\ \A c \in Blobs : row'[c] # row[c] => c \in due
      /\ \A c \in due : row'[c].state = "deleted"
  BY <1>1, <1>2 DEF BlobShape
<1> QED BY <1>1, <1>2, <1>3, <1>4, <1>5, RowsKeep DEF RowsStep, BlobShape

LEMMA PurgeKeeps == ASSUME BlobInv, Purge PROVE BlobKept
<1> DEFINE due == {b \in aged : row[b].state \in {"deleted", "corrupt"}}
<1>1. /\ UNCHANGED <<journal, file, writer, cancelled, abandon, acked, boot, leases, unlinking,
                     reader>>
      /\ BlobShape /\ Up
      /\ row' = [b \in Blobs |-> IF b \in due THEN NoRow ELSE row[b]]
      /\ aged' = aged \ due
  BY ReadShape DEF Purge
<1>2. \A b \in due : b \in Blobs /\ row[b].state \in {"deleted", "corrupt"}
  BY <1>1 DEF BlobShape
<1> HIDE DEF due
<1>3. \A b \in due : writer[b] # "new"
  BY <1>2, LocalBlob DEF BlobOK
<1>4. \A k \in Holders : ReaderOK(k)'
  BY <1>1 DEF BlobInv, ReaderOK, Learned
<1>5. /\ DOMAIN row' = Blobs /\ \A c \in Blobs : DOMAIN row'[c] = {"state", "size"}
      /\ \A c \in Blobs : row'[c] # row[c] => c \in due /\ row'[c].state = "none"
  BY <1>1, <1>2 DEF BlobShape, NoRow
<1> QED BY <1>1, <1>2, <1>3, <1>4, <1>5, RowsKeep DEF RowsStep, BlobShape

\* acquire_lease: the reader's blob was acknowledged and never cancelled, so
\* neither its writer nor an abandon call is left that could remove the file.
LEMMA AcquireKeeps == ASSUME BlobInv, NEW h \in Holders, AcquireLease(h) PROVE BlobKept
<1> DEFINE b == reader[h].blob
<1>1. /\ UNCHANGED <<journal, file, writer, cancelled, abandon, acked, boot, row, aged, unlinking>>
      /\ BlobShape /\ Up /\ reader[h] # NoRead
  BY ReadShape DEF AcquireLease
<1>2. b \in acked \ cancelled /\ b \in Blobs
  BY <1>1 DEF BlobInv, BlobShape, ReaderOK, Learned
<1>3. \/ leases' = leases
      \/ row[b].state = "published" /\ leases' = leases \cup {<<b, h>>}
  BY DEF AcquireLease
<1>4. /\ DOMAIN reader' = Holders
      /\ \A k \in Holders : DOMAIN reader'[k] = {"blob", "leased"}
      /\ \A k \in Holders : reader'[k] = reader[k] \/ reader'[k] = NoRead
                              \/ (k = h /\ reader'[k].blob = reader[k].blob)
  <2>1. \/ reader' = [reader EXCEPT ![h].leased = TRUE]
        \/ reader' = [reader EXCEPT ![h] = NoRead]
    BY DEF AcquireLease
  <2>2. DOMAIN reader = Holders /\ \A k \in Holders : DOMAIN reader[k] = {"blob", "leased"}
    BY <1>1 DEF BlobShape
  <2>3. CASE reader' = [reader EXCEPT ![h].leased = TRUE]
    BY <2>2, <2>3
  <2>4. CASE reader' = [reader EXCEPT ![h] = NoRead]
    BY <2>2, <2>4 DEF NoRead
  <2> QED BY <2>1, <2>3, <2>4
<1> HIDE DEF b
<1>5. \A k \in Holders : ReaderOK(k)'
  BY <1>1, <1>4 DEF BlobInv, ReaderOK, Learned
<1>6. BlobShape'
  <2>1. \A l \in leases' : l[1] \in Blobs
    BY <1>1, <1>2, <1>3 DEF BlobShape
  <2> QED BY <1>1, <1>4, <2>1 DEF BlobShape
<1>7. ASSUME NEW c \in Blobs PROVE BlobOK(c)'
  <2>1. BlobOK(c)
    BY DEF BlobInv
  <2>2. Held(c)' => Held(c) \/ (c = b /\ row[c].state = "published")
    BY <1>3 DEF Held
  <2>3. c = b => writer[c] \in {"done", "lost"} /\ abandon[c] \notin {"files", "row"}
    BY <1>2, <2>1 DEF BlobOK
  <2> QED BY <1>1, <2>1, <2>2, <2>3 DEF BlobOK, Resolved
<1>8. Protects /\ Survives /\ Resolves
  BY <1>1 DEF Protects, Survives, Resolves
<1> QED BY <1>5, <1>6, <1>7, <1>8 DEF BlobKept, BlobInv

LEMMA CrashKeeps == ASSUME BlobInv, Crash PROVE BlobKept
<1>1. /\ UNCHANGED <<row, journal, file, aged, leases, cancelled, acked>> /\ unlinking' = {}
      /\ boot' = [phase |-> "recovering", left |-> {b \in Blobs : row[b] # NoRow}]
      /\ writer' = [b \in Blobs |-> IF writer[b] = "new" THEN "new" ELSE "lost"]
      /\ abandon' = [b \in Blobs |-> "done"]
      /\ reader' = [h \in Holders |-> NoRead]
  BY DEF Crash
<1>2. ASSUME NEW b \in Blobs PROVE BlobOK(b)'
  <2>1. BlobOK(b)
    BY DEF BlobInv
  <2>2. Held(b)' <=> Held(b)
    BY <1>1 DEF Held
  <2>3. /\ boot'.phase = "recovering" /\ abandon'[b] = "done" /\ b \notin unlinking'
        /\ writer'[b] = IF writer[b] = "new" THEN "new" ELSE "lost"
    BY <1>1
  <2>4. b \notin boot'.left => row'[b].state = "none"
    BY <1>1 DEF NoRow
  <2> QED BY <1>1, <2>1, <2>2, <2>3, <2>4 DEF BlobOK, Resolved
<1>3. BlobShape' /\ \A h \in Holders : ReaderOK(h)'
  BY <1>1 DEF BlobInv, BlobShape, ReaderOK, NoRead
<1>4. Protects /\ Survives /\ Resolves
  BY <1>1 DEF Protects, Survives, Resolves
<1> QED BY <1>2, <1>3, <1>4 DEF BlobKept, BlobInv

LEMMA RecoveryEndsKeeps ==
  ASSUME BlobInv, NEW running \in BOOLEAN, RecoveryEnds(running)
  PROVE  BlobKept
<1>1. /\ UNCHANGED <<row, journal, file, writer, aged, cancelled, abandon, unlinking, reader, acked>>
      /\ boot.phase = "recovering" /\ boot.left = {} /\ boot' = [boot EXCEPT !.phase = "up"]
      /\ part' = {}
  BY DEF RecoveryEnds
<1>2. \A l \in leases' : \/ l \in leases
                         \/ \E b \in Blobs : row[b].state = "published" /\ l = <<b, Restart>>
  BY DEF RecoveryEnds
<1>3. BlobShape
  BY DEF BlobInv
<1>4. DOMAIN boot' = {"phase", "left"} /\ boot'.phase = "up"
  BY <1>1, <1>3 DEF BlobShape
<1>5. BlobShape'
  <2>1. \A l \in leases' : l[1] \in Blobs
    BY <1>2, <1>3 DEF BlobShape
  <2> QED BY <1>1, <1>3, <1>4, <2>1 DEF BlobShape
<1>6. ASSUME NEW b \in Blobs PROVE BlobOK(b)' /\ Resolved(b)
  <2>1. BlobOK(b)
    BY DEF BlobInv
  <2>2. Held(b)' => Held(b) \/ row[b].state = "published"
    BY <1>2 DEF Held
  <2>3. writer[b] \in {"new", "lost"} /\ abandon[b] = "done" /\ Resolved(b)
    BY <1>1, <2>1 DEF BlobOK
  <2>4. row[b].state = "published" => writer[b] = "lost"
    BY <2>1, <2>3 DEF BlobOK
  <2> QED BY <1>1, <1>4, <2>1, <2>2, <2>3, <2>4 DEF BlobOK
<1>7. \A h \in Holders : ReaderOK(h)'
  BY <1>1 DEF BlobInv, ReaderOK, Learned
<1>8. Protects /\ Survives
  BY <1>1 DEF Protects, Survives
<1>9. Resolves
  BY <1>1, <1>6 DEF Resolves, Resolved
<1> QED BY <1>5, <1>6, <1>7, <1>8, <1>9 DEF BlobKept, BlobInv

LEMMA StutterKeeps == ASSUME BlobInv, UNCHANGED blobVars PROVE BlobKept
<1>1. UNCHANGED <<row, journal, part, file, writer, aged, leases, cancelled, abandon, unlinking,
                  reader, acked, boot>>
  BY DEF blobVars, writerVars, restVars
<1>2. \A b \in Blobs : BlobOK(b)'
  BY <1>1 DEF BlobInv, BlobOK, Resolved, Held
<1>3. BlobShape' /\ \A h \in Holders : ReaderOK(h)'
  BY <1>1 DEF BlobInv, BlobShape, ReaderOK, Learned
<1>4. Protects /\ Survives /\ Resolves
  BY <1>1 DEF Protects, Survives, Resolves
<1> QED BY <1>2, <1>3, <1>4 DEF BlobKept, BlobInv

\* Every step of the store keeps the invariant and obeys the three properties.
LEMMA BlobStep == BlobInv /\ [BlobNext]_blobVars => BlobKept
<1> SUFFICES ASSUME BlobInv, [BlobNext]_blobVars PROVE BlobKept
  OBVIOUS
<1>1. CASE Expire \/ Purge \/ Crash \/ ReleaseProtection \/ UNCHANGED blobVars
  BY <1>1, ExpireKeeps, PurgeKeeps, CrashKeeps, ReleaseKeeps, StutterKeeps
<1>2. CASE \E running \in BOOLEAN : RecoveryEnds(running)
  BY <1>2, RecoveryEndsKeeps
<1>3. ASSUME NEW b \in Blobs,
             \/ Write(b) \/ CancelOutput(b) \/ AbandonFiles(b) \/ AbandonRow(b)
             \/ Delete(b) \/ Unlink(b) \/ Age(b) \/ Damage(b) \/ RecoverRow(b)
      PROVE  BlobKept
  BY <1>3, WriteKeeps, CancelKeeps, AbandonKeeps, DeleteKeeps, UnlinkKeeps, AgeDamageKeeps,
     RecoverRowKeeps
<1>4. ASSUME NEW h \in Holders,
             \/ AcquireLease(h) \/ ReleaseLease(h) \/ \E b \in Blobs : OpenVerified(h, b)
      PROVE  BlobKept
  BY <1>4, AcquireKeeps, ReleaseKeeps, OpenKeeps
<1> QED BY <1>1, <1>2, <1>3, <1>4 DEF BlobNext

LEMMA BlobAlways == BlobSpec => []BlobInv
<1>1. BlobInv /\ [BlobNext]_blobVars => BlobInv'
  BY BlobStep DEF BlobKept
<1> QED BY <1>1, BlobInitInv, PTL DEF BlobSpec

\* delete, expire, the writers' except blocks, abandon_output and recover all
\* unlink: none of them removes an intact file while a lease row names it,
\* whoever crashed or was cancelled in between.
THEOREM LeasedFileStays == BlobSpec => LeaseProtects
<1>1. BlobInv /\ [BlobNext]_blobVars
        => [\A l \in leases : file[l[1]] = "whole" => file'[l[1]] # "none"]_blobVars
  BY BlobStep DEF BlobKept, Protects
<1> QED BY <1>1, BlobAlways, PTL DEF BlobSpec, LeaseProtects

\* An acknowledged, intact and published blob leaves that state only through
\* delete or expire, and never under a lease: no crash, recovery, abort or
\* late cancellation takes it back.
THEOREM AcknowledgedIsDurable == BlobSpec => AckedSurvives
<1>1. BlobInv /\ [BlobNext]_blobVars
        => [\A b \in acked \ cancelled :
              row[b].state = "published" /\ file[b] = "whole" /\ row'[b].state # "published"
                => row'[b].state = "deleted" /\ ~Held(b)]_blobVars
  BY BlobStep DEF BlobKept, Survives
<1> QED BY <1>1, BlobAlways, PTL DEF BlobSpec, AckedSurvives

\* recover returns only when every row it found is settled: no reservation, no
\* staging file, and a verified file behind every published row, also when a
\* crash interrupted an earlier recovery.
THEOREM RecoveryIsComplete == BlobSpec => RecoveryResolves
<1>1. BlobInv /\ [BlobNext]_blobVars
        => [boot.phase = "recovering" /\ boot'.phase = "up" =>
              /\ part' = {}
              /\ \A b \in Blobs :
                   /\ row'[b].state \notin {"reserved", "staging"}
                   /\ row'[b].state = "published" => file'[b] = "whole"]_blobVars
  BY BlobStep DEF BlobKept, Resolves
<1> QED BY <1>1, BlobAlways, PTL DEF BlobSpec, RecoveryResolves
=============================================================================
