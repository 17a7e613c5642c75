-------------------------- MODULE MessageStatusData --------------------------
(***************************************************************************)
(* The documents of the message-status collection and the changes a user   *)
(* may ask for (MessageStatusChange of the API: reading, archiving, bulk). *)
(***************************************************************************)
EXTENDS Naturals

CONSTANTS
    Message,        \* message ids, the model ids of the versioned documents
    FiscalCode,     \* the users
    Owner           \* the recipient of each message

ASSUME OwnerAssumption == Owner \in [Message -> FiscalCode]

\* One version of a message status; updatedAt is left out.
StatusDoc == [messageId: Message, version: Nat, fiscalCode: FiscalCode,
              isRead: BOOLEAN, isArchived: BOOLEAN,
              status: {"ACCEPTED", "PROCESSED"}]

ReadingChange   == [change_type: {"reading"}, is_read: BOOLEAN]
ArchivingChange == [change_type: {"archiving"}, is_archived: BOOLEAN]
BulkChange      == [change_type: {"bulk"}, is_read: BOOLEAN, is_archived: BOOLEAN]

Change == ReadingChange \cup ArchivingChange \cup BulkChange

setsRead(c)     == c.change_type \in {"reading", "bulk"}
setsArchived(c) == c.change_type \in {"archiving", "bulk"}

\* Mutation: the two flags of a bulk change are swapped.
mapChangeSwapped(s, c) ==
    [s EXCEPT !.isRead     = IF setsRead(c)
                                THEN (IF setsArchived(c) THEN c.is_archived ELSE c.is_read)
                                ELSE s.isRead,
              !.isArchived = IF setsArchived(c) THEN c.is_archived ELSE s.isArchived]

\* Mutation: the new status is made of the change alone.
mapChangeOnly(s, c) ==
    [s EXCEPT !.isRead     = setsRead(c) /\ c.is_read,
              !.isArchived = setsArchived(c) /\ c.is_archived]

\* {...messageStatus, ...mapChange(change)}
mapChange(s, c) ==
    [s EXCEPT !.isRead     = IF setsRead(c)     THEN c.is_read     ELSE s.isRead,
              !.isArchived = IF setsArchived(c) THEN c.is_archived ELSE s.isArchived]
=============================================================================
