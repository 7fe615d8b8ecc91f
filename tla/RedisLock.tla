----------------------------- MODULE RedisLock -----------------------------
(***************************************************************************)
(* withRedisLock of packages/redis/src/index.ts: SET NX PX takes the lock, *)
(* fn runs, and a script deletes the key if it still holds the token of    *)
(* this call.  Redis drops the key when its time is over, whether or not   *)
(* fn has returned, and tells nobody.  ioredis sends a command again after *)
(* a broken connection and gives up after maxRetriesPerRequest; a command  *)
(* it gave up may still be applied, and a process may die with the lock.   *)
(***************************************************************************)
EXTENDS Naturals

CONSTANTS
  Callers,       \* calls of withRedisLock for one key, each with its token
  Nobody,        \* the value of a key that does not exist
  Ttl,           \* ttlMs, in ticks
  MaxRetries     \* maxRetriesPerRequest

ASSUME CallerAssumption == Nobody \notin Callers
ASSUME TtlAssumption == Ttl \in Nat \ {0}
ASSUME RetryAssumption == MaxRetries \in Nat

VARIABLES
  key,           \* the token the key holds
  left,          \* ticks until Redis drops the key
  expired,       \* calls whose key was dropped
  command,       \* the command of each call that is on its way
  pc,            \* the await of each call
  answer,        \* the answer of its command
  retries        \* how often that command was sent again

redis == <<key, left, expired>>
calls == <<command, pc, answer, retries>>
lockVars == <<redis, calls>>

LockTypeOK ==
  /\ key \in Callers \cup {Nobody}
  /\ left \in 0..Ttl
  /\ expired \subseteq Callers
  /\ command \in [Callers -> {"none", "set", "release"}]
  /\ pc \in [Callers -> {"idle", "set", "fn", "release", "done", "busy", "lost"}]
  /\ answer \in [Callers -> {"none", "OK", "nil"}]
  /\ retries \in [Callers -> 0..MaxRetries]

LockInit ==
  /\ key = Nobody /\ left = 0 /\ expired = {}
  /\ command = [c \in Callers |-> "none"]
  /\ pc = [c \in Callers |-> "idle"]
  /\ answer = [c \in Callers |-> "none"]
  /\ retries = [c \in Callers |-> 0]

Moves(c, from, to) == pc[c] = from /\ pc' = [pc EXCEPT ![c] = to]
Sends(c, cmd) == command' = [command EXCEPT ![c] = cmd] /\ answer' = [answer EXCEPT ![c] = "none"]
Replies(c, word) == command' = [command EXCEPT ![c] = "none"] /\ answer' = [answer EXCEPT ![c] = word]

-----------------------------------------------------------------------------
\* The caller, lines 9 to 15.

Acquire(c) ==
  /\ Moves(c, "idle", "set")
  /\ Sends(c, "set")
  /\ UNCHANGED <<redis, retries>>

\* Line 11: only 'OK' enters.
\* Mutant of Enters: any answer enters.
EntersAnyway(c) ==
  /\ answer[c] # "none"
  /\ Moves(c, "set", "fn")
  /\ UNCHANGED <<redis, command, answer, retries>>
Enters(c) ==
  /\ answer[c] = "OK"
  /\ Moves(c, "set", "fn")
  /\ UNCHANGED <<redis, command, answer, retries>>
Busy(c) ==
  /\ answer[c] = "nil"
  /\ Moves(c, "set", "busy")
  /\ UNCHANGED <<redis, command, answer, retries>>

\* fn settles one way or the other, and finally sends the script.
Leaves(c) ==
  /\ Moves(c, "fn", "release")
  /\ Sends(c, "release")
  /\ retries' = [retries EXCEPT ![c] = 0]
  /\ UNCHANGED redis
Released(c) ==
  /\ answer[c] # "none"
  /\ Moves(c, "release", "done")
  /\ UNCHANGED <<redis, command, answer, retries>>

\* The connection breaks before the answer: the command is sent again, also
\* when Redis has applied it already.
Resend(c) ==
  /\ pc[c] \in {"set", "release"} /\ retries[c] < MaxRetries
  /\ retries' = [retries EXCEPT ![c] = @ + 1]
  /\ Sends(c, pc[c])
  /\ UNCHANGED <<redis, pc>>
\* The await throws while the command may still arrive, or the process dies.
GivesUp(c) ==
  /\ pc[c] \in {"set", "fn", "release"}
  /\ pc' = [pc EXCEPT ![c] = "lost"]
  /\ UNCHANGED <<redis, command, answer, retries>>
Drops(c) ==
  /\ command[c] # "none"
  /\ command' = [command EXCEPT ![c] = "none"]
  /\ UNCHANGED <<redis, pc, answer, retries>>

-----------------------------------------------------------------------------
\* Redis.

\* SET NX PX.
SetApplied(c) ==
  /\ command[c] = "set"
  /\ IF key = Nobody
       THEN key' = c /\ left' = Ttl /\ Replies(c, "OK")
       ELSE UNCHANGED <<key, left>> /\ Replies(c, "nil")
  /\ UNCHANGED <<expired, pc, retries>>

\* The script of line 14 compares and deletes in one step.
\* Mutant of ReleaseApplied: a plain DEL.
ReleaseAppliedAnyway(c) ==
  /\ command[c] = "release"
  /\ key' = Nobody /\ left' = 0
  /\ Replies(c, "OK")
  /\ UNCHANGED <<expired, pc, retries>>
ReleaseApplied(c) ==
  /\ command[c] = "release"
  /\ IF key = c THEN key' = Nobody /\ left' = 0 ELSE UNCHANGED <<key, left>>
  /\ Replies(c, "OK")
  /\ UNCHANGED <<expired, pc, retries>>

\* One tick; at the end of its time the key is dropped.
\* Mutant of Tick: SET without PX, the time is over and the key stays.
TickKeepsKey ==
  /\ left > 0
  /\ left' = left - 1
  /\ UNCHANGED <<key, expired, calls>>
Tick ==
  /\ left > 0
  /\ left' = left - 1
  /\ IF left = 1 THEN key' = Nobody /\ expired' = expired \cup {key}
     ELSE UNCHANGED <<key, expired>>
  /\ UNCHANGED calls

Caller(c) == Acquire(c) \/ Enters(c) \/ Busy(c) \/ Leaves(c) \/ Released(c)
Fault(c) == Resend(c) \/ GivesUp(c) \/ Drops(c)
Redis(c) == SetApplied(c) \/ ReleaseApplied(c)

LockNext == Tick \/ \E c \in Callers : Caller(c) \/ Fault(c) \/ Redis(c)

LockSpec == LockInit /\ [][LockNext]_lockVars

\* The clock of Redis goes on; neither that a command arrives nor that fn
\* returns is assumed.
LockLiveSpec == LockSpec /\ WF_lockVars(Tick)
-----------------------------------------------------------------------------
\* Two calls run fn at the same time only when one of them has outlived its
\* ttlMs: nothing tells it (line 12), and no late, repeated or lost command
\* lets a second call in earlier.
ExclusiveInTime ==
  \A c, d \in Callers : c # d /\ pc[c] = "fn" /\ pc[d] = "fn" =>
    c \in expired \/ d \in expired

\* While fn runs, the lock of its call goes away by its own time only: no
\* release, late or repeated, of a call whose lock had expired deletes it (14).
KeptWhileRunning ==
  [][\A c \in Callers : key = c /\ pc[c] = "fn" /\ key' # c => left = 1 /\ c \in expired']_lockVars

\* A key that a dead process, a given-up SET or a repeated SET left behind is
\* free again after ttlMs (line 10).
Freed == \A c \in Callers : key = c ~> key # c
=============================================================================
