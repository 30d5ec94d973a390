----------------------------- MODULE ResilientCache -----------------------------
(***************************************************************************)
(* The cache of the API: every process keeps what it sets in its memory as *)
(* well as in Redis, reads Redis first, and asks Redis through a circuit   *)
(* breaker, so that an outage degrades the cache to the process's memory.  *)
(*                                                                         *)
(* One key; a value is the number of the set that wrote it.  Tags are left *)
(* out.  A command that fails may have reached Redis or not, but does not  *)
(* reach it later.                                                         *)
(***************************************************************************)
EXTENDS Naturals, FiniteSets

CONSTANTS CacheThreads,     \* threads of one process
          CacheTtl,         \* ticks a value lives
          FailureThreshold, RecoveryTicks,  \* of the breaker
          MaxSets,          \* bound on values
          MaxTicks          \* the clock stops here

ASSUME CacheAssumption ==
    /\ {CacheTtl, FailureThreshold} \subseteq Nat \ {0}
    /\ {RecoveryTicks, MaxSets, MaxTicks} \subseteq Nat

VARIABLES ticks,
          reachable,    \* whether Redis answers
          redis,        \* cache:<key> in Redis
          memory,       \* the fallback of the process
          breaker,      \* CircuitBreaker of the process
          sets,         \* how many sets have begun
          access,       \* what each thread is doing
          setEnded,     \* history: when the set of a value ended
          dead          \* history: values that were deleted for good

cacheVars == <<ticks, reachable, redis, memory, breaker, sets, access, setEnded, dead>>

NoEntry == [value |-> 0, expires |-> 0]
Entry == [value : 0..MaxSets, expires : 0..(MaxTicks + CacheTtl)]
Breaker == [state : {"CLOSED", "OPEN", "HALF_OPEN"}, failures : 0..FailureThreshold,
            opened : 0..MaxTicks]
Access == [pc : {"local", "gate", "primary", "fallback", "answered"}, op : {"get", "set", "delete"},
           value : 0..MaxSets, gone : SUBSET (1..MaxSets)]
NoAccess == [pc |-> "idle"]

CacheTypeOK ==
    /\ ticks \in 0..MaxTicks
    /\ reachable \in BOOLEAN
    /\ redis \in Entry /\ memory \in Entry
    /\ breaker \in Breaker
    /\ sets \in 0..MaxSets
    /\ access \in [CacheThreads -> {NoAccess} \cup Access]
    /\ DOMAIN setEnded \subseteq 1..MaxSets
    /\ dead \subseteq DOMAIN setEnded

CacheInit ==
    /\ ticks = 0 /\ reachable = TRUE
    /\ redis = NoEntry /\ memory = NoEntry
    /\ breaker = [state |-> "CLOSED", failures |-> 0, opened |-> 0]
    /\ sets = 0
    /\ access = [c \in CacheThreads |-> NoAccess]
    /\ setEnded = <<>> /\ dead = {}

AccessTo(c, s) == access' = [access EXCEPT ![c] = s]
AccessAt(c, pc) == AccessTo(c, [access[c] EXCEPT !.pc = pc])
Fresh(entry) == entry.value # 0 /\ entry.expires > ticks
CacheWritten(v) == [value |-> v, expires |-> ticks + CacheTtl]

-----------------------------------------------------------------------------
CacheTick ==
    /\ ticks < MaxTicks
    /\ ticks' = ticks + 1
    /\ UNCHANGED <<reachable, redis, memory, breaker, sets, access, setEnded, dead>>

RedisMoves ==
    /\ reachable' = ~reachable
    /\ UNCHANGED <<ticks, redis, memory, breaker, sets, access, setEnded, dead>>

\* What another process sets reaches Redis only, as far as this one is concerned.
ElsewhereSet ==
    /\ reachable /\ sets < MaxSets
    /\ sets' = sets + 1
    /\ redis' = CacheWritten(sets')
    /\ setEnded' = [v \in DOMAIN setEnded \cup {sets'} |->
                        IF v = sets' THEN ticks ELSE setEnded[v]]
    /\ UNCHANGED <<ticks, reachable, memory, breaker, access, dead>>

ElsewhereDelete ==
    /\ reachable
    /\ redis' = NoEntry
    /\ UNCHANGED <<ticks, reachable, memory, breaker, sets, access, setEnded, dead>>

-----------------------------------------------------------------------------
(***************************************************************************)
(* ResilientCacheBackend                                                   *)
(***************************************************************************)
\* gone: for a get what was deleted for good when it began, for a delete what it
\* deletes: the values whose sets had ended.
Get(c) ==
    /\ access[c] = NoAccess
    /\ AccessTo(c, [pc |-> "gate", op |-> "get", value |-> 0, gone |-> dead])
    /\ UNCHANGED <<ticks, reachable, redis, memory, breaker, sets, setEnded, dead>>

Set(c) ==
    /\ access[c] = NoAccess /\ sets < MaxSets
    /\ sets' = sets + 1
    /\ AccessTo(c, [pc |-> "local", op |-> "set", value |-> sets', gone |-> {}])
    /\ UNCHANGED <<ticks, reachable, redis, memory, breaker, setEnded, dead>>

Delete(c) ==
    /\ access[c] = NoAccess
    /\ AccessTo(c, [pc |-> "local", op |-> "delete", value |-> 0, gone |-> DOMAIN setEnded])
    /\ UNCHANGED <<ticks, reachable, redis, memory, breaker, sets, setEnded, dead>>

\* set and delete act on the memory first.
Local(c) ==
    /\ access[c].pc = "local"
    /\ memory' = IF access[c].op = "set" THEN CacheWritten(access[c].value) ELSE NoEntry
    /\ AccessAt(c, "gate")
    /\ UNCHANGED <<ticks, reachable, redis, breaker, sets, setEnded, dead>>

\* Where a thread goes when the primary was not asked, or did not answer.
Falls(c) ==
    IF access[c].op = "get" THEN AccessAt(c, "fallback") /\ UNCHANGED setEnded
    ELSE /\ AccessTo(c, NoAccess)
         /\ setEnded' = IF access[c].op = "delete" THEN setEnded
                        ELSE [v \in DOMAIN setEnded \cup {access[c].value} |->
                                 IF v = access[c].value THEN ticks ELSE setEnded[v]]

Opens == breaker.state = "OPEN" /\ ticks - breaker.opened < RecoveryTicks

\* CircuitBreaker.execute, its first half; any number of threads pass a breaker that
\* is half open.
Gate(c) ==
    /\ access[c].pc = "gate"
    /\ IF Opens THEN Falls(c) /\ UNCHANGED breaker
       ELSE /\ AccessAt(c, "primary")
            /\ breaker' = IF breaker.state = "OPEN" THEN [breaker EXCEPT !.state = "HALF_OPEN"]
                          ELSE breaker
            /\ UNCHANGED setEnded
    /\ UNCHANGED <<ticks, reachable, redis, memory, sets, dead>>

\* What a command leaves in Redis.
Command(c) ==
    CASE access[c].op = "get" -> redis
      [] access[c].op = "set" -> CacheWritten(access[c].value)
      [] access[c].op = "delete" -> NoEntry

\* A success closes the breaker, also one that was opened meanwhile.
Succeeds(c) ==
    /\ access[c].pc = "primary" /\ reachable
    /\ redis' = Command(c)
    /\ breaker' = [breaker EXCEPT !.state = "CLOSED", !.failures = 0]
    /\ dead' = IF access[c].op = "delete" THEN dead \cup access[c].gone ELSE dead
    /\ IF access[c].op = "get" /\ Fresh(redis)
       THEN AccessTo(c, [access[c] EXCEPT !.pc = "answered", !.value = redis.value])
            /\ UNCHANGED setEnded
       ELSE Falls(c)
    /\ UNCHANGED <<ticks, reachable, memory, sets>>

\* A failure opens the breaker at the threshold, and anew at each one after.
Fails(c, reached) ==
    /\ access[c].pc = "primary" /\ ~reachable
    /\ redis' = IF reached THEN Command(c) ELSE redis
    /\ LET n == IF breaker.failures < FailureThreshold THEN breaker.failures + 1
                ELSE breaker.failures
       IN  breaker' = IF n = FailureThreshold
                      THEN [state |-> "OPEN", failures |-> n, opened |-> ticks]
                      ELSE [breaker EXCEPT !.failures = n]
    /\ Falls(c)
    /\ UNCHANGED <<ticks, reachable, memory, sets, dead>>

Fallback_Any(c) == memory.value # 0
Fallback(c) == Fresh(memory)
\* A get that Redis did not satisfy reads the memory, and drops what is past its time.
ReadFallback(c) ==
    /\ access[c].pc = "fallback"
    /\ memory' = IF Fallback(c) THEN memory ELSE NoEntry
    /\ AccessTo(c, IF Fallback(c) THEN [access[c] EXCEPT !.pc = "answered", !.value = memory.value]
                   ELSE NoAccess)
    /\ UNCHANGED <<ticks, reachable, redis, breaker, sets, setEnded, dead>>

AnswerValue(c) ==
    /\ access[c].pc = "answered"
    /\ AccessTo(c, NoAccess)
    /\ UNCHANGED <<ticks, reachable, redis, memory, breaker, sets, setEnded, dead>>

CacheNext ==
    \/ CacheTick \/ RedisMoves \/ ElsewhereSet \/ ElsewhereDelete
    \/ \E c \in CacheThreads :
        \/ Get(c) \/ Set(c) \/ Delete(c)
        \/ Local(c) \/ Gate(c) \/ Succeeds(c)
        \/ \E reached \in BOOLEAN : Fails(c, reached)
        \/ ReadFallback(c) \/ AnswerValue(c)

-----------------------------------------------------------------------------
(***************************************************************************)
(* Properties                                                              *)
(***************************************************************************)
\* ResilientCacheBackend.get: what a process answers was not deleted for good before
\* the get began: a delete that Redis carried out, which other threads, an outage or
\* an open breaker do not undo; and its set is still going on or ended no longer than
\* its lifetime before the value was found.
ServedAlive ==
    [][\A c \in CacheThreads : access'[c].pc = "answered" /\ access[c].pc # "answered" =>
        LET v == access'[c].value
        IN  /\ v \notin access[c].gone
            /\ v \in DOMAIN setEnded => ticks < setEnded[v] + CacheTtl]_cacheVars

=================================================================================
