--------------------------- MODULE NotificationTypes ---------------------------
(***************************************************************************)
(* The vocabulary the components share: the enumerations of                *)
(* app/models/notification.py, one row of the notifications table, what a  *)
(* commit of a SQLAlchemy session writes back to that row, and the errors  *)
(* the three channel providers can answer with.                            *)
(***************************************************************************)
EXTENDS Naturals

\* The statuses of a stored notification; ABSENT is the row not yet inserted.
NotificationStatus == {"PENDING", "QUEUED", "SENT", "FAILED", "RETRYING"}
ABSENT == "ABSENT"

\* A notification is settled once no part of the engine will look at it
\* again by itself, and live while somebody must still work on it.
Settled == {"SENT", "FAILED"}
Live    == {"PENDING", "QUEUED", "RETRYING"}

NotificationChannel == {"EMAIL", "SMS", "PUSH"}

NotificationErrorCode ==
  {"TIMEOUT", "PROVIDER_DOWN", "RATE_LIMITED",
   "INVALID_RECIPIENT", "INVALID_TOKEN", "UNKNOWN"}
NULL == "NULL"       \* the SQL NULL of the error_code column

RETRYABLE_ERROR_CODES == {"TIMEOUT", "PROVIDER_DOWN", "RATE_LIMITED", "UNKNOWN"}

-----------------------------------------------------------------------------
\* One row of the notifications table, reduced to the columns the dispatch
\* path writes.  external_id and stime are set together, when a provider
\* has accepted the message, and never cleared: external_id stands for both.
NotificationRow ==
  [status      : NotificationStatus \cup {ABSENT},
   retry_count : Nat,
   error_code  : NotificationErrorCode \cup {NULL},
   external_id : BOOLEAN]

NoRow == [status |-> ABSENT, retry_count |-> 0,
          error_code |-> NULL, external_id |-> FALSE]

\* Mutant: error_code is given a default that no error code has.
NewRowWithDefault == [NoRow EXCEPT !.status = "PENDING", !.error_code = "NONE"]

NewRow == [NoRow EXCEPT !.status = "PENDING"]

\* What NotificationRepository.update_status leaves in the database.  The
\* session holds the row as it loaded it (old) and as the caller changed it
\* (new).  Its UPDATE names only the columns that differ between the two, so
\* a column the caller left alone, or set to the value it had been loaded
\* with, keeps whatever another session has committed meanwhile (cur).
Flush(cur, old, new) ==
  [status      |-> IF new.status = old.status
                     THEN cur.status ELSE new.status,
   retry_count |-> IF new.retry_count = old.retry_count
                     THEN cur.retry_count ELSE new.retry_count,
   error_code  |-> IF new.error_code = old.error_code
                     THEN cur.error_code ELSE new.error_code,
   external_id |-> IF new.external_id = old.external_id
                     THEN cur.external_id ELSE new.external_id]

-----------------------------------------------------------------------------
\* The errors send() answers with while its provider is healthy; an
\* unhealthy one always answers PROVIDER_DOWN.
EmailSendErrors == {"TIMEOUT", "UNKNOWN"}
SmsSendErrors   == {"TIMEOUT", "UNKNOWN", "INVALID_RECIPIENT"}
PushSendErrors  == {"TIMEOUT", "UNKNOWN", "INVALID_TOKEN"}

SendErrors(channel, healthy) ==
  IF ~healthy THEN {"PROVIDER_DOWN"}
  ELSE CASE channel = "EMAIL" -> EmailSendErrors
         [] channel = "SMS"   -> SmsSendErrors
         [] channel = "PUSH"  -> PushSendErrors
=============================================================================
