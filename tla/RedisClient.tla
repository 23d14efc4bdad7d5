---------------------------- MODULE RedisClient ----------------------------
(***************************************************************************)
(* The command loop of the go-redis client every Redis call goes through   *)
(* (vendor/github.com/go-redis/redis/v8/redis.go, process and _process).   *)
(*                                                                         *)
(* One call is a record [st, attempt].  An attempt writes the command and  *)
(* waits for its reply; a connection error or a timeout abandons the       *)
(* attempt, and as long as attempts are left the SAME command is written   *)
(* again, whether or not Redis executed it the first time.                 *)
(***************************************************************************)
EXTENDS Naturals

CONSTANT MaxRetries   \* Options.MaxRetries, 3 when the option is not set

ASSUME MaxRetriesAssumption == MaxRetries \in Nat

CallStates == {"idle",      \* not started
               "sent",      \* this attempt's command has been written
               "answered",  \* Redis executed it, the reply is on the wire
               "returned",  \* process returned nil: the reply was read
               "failed"}    \* process returned an error

CallType == [st : CallStates, attempt : 0..MaxRetries]

NewCall == [st |-> "idle", attempt |-> 0]

Start == [st |-> "sent", attempt |-> 0]

(* Faulty variant of Retry: one attempt too many. *)
RetryTooOften(c) == IF c.attempt <= MaxRetries
                      THEN [st |-> "sent", attempt |-> c.attempt + 1]
                      ELSE [c EXCEPT !.st = "failed"]

(* Faulty variant of Retry: the attempts are not counted. *)
RetryForever(c) == [c EXCEPT !.st = "sent"]

(* The attempt ended in a retryable error (EOF, timeout, LOADING, ...).    *)
Retry(c) == IF c.attempt < MaxRetries
              THEN [st |-> "sent", attempt |-> c.attempt + 1]
              ELSE [c EXCEPT !.st = "failed"]

(* The attempt ended in an error that shouldRetry rejects (OOM, ERR ...).  *)
Refused(c) == [c EXCEPT !.st = "failed"]

InFlight(c) == c.st \in {"sent", "answered"}
=============================================================================
