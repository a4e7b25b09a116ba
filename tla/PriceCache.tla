----------------------------- MODULE PriceCache -----------------------------
(***************************************************************************)
(* The on-disk price cache (internal/pricing/cache.go): a bbolt bucket of  *)
(* payloads, each behind the Unix second at which it expires.  Several     *)
(* goroutines of one process use it at once.  bbolt runs every View and    *)
(* Update as one serializable transaction; what is not atomic is a whole   *)
(* Get (clock, View, Update) or a whole Put (clock, Update).               *)
(*                                                                         *)
(* The clock is counted in ticks, TicksPerSecond to the second, because    *)
(* the code compares Unix() seconds, which drop the fraction.              *)
(***************************************************************************)
EXTENDS Integers

CONSTANTS
    Goroutines,
    Keys,
    TTLs,            \* settings of --cache-ttl, in ticks
    DefaultTTL,      \* defaultTTL, in ticks
    TicksPerSecond,
    DiskFaults,      \* whether an Update may fail
    MaxTime,         \* bound: the last tick of the clock
    MaxPuts,         \* bound: payloads ever written
    MaxOpens,        \* bound: processes that open the file, one after another
    Nil,             \* no entry
    Malformed        \* an entry of less than 8 bytes

ASSUME TimeAssumption ==
    /\ TTLs \subseteq Int
    /\ DefaultTTL \in Nat \ {0} /\ TicksPerSecond \in Nat \ {0}
    /\ MaxTime \in Nat /\ MaxPuts \in Nat /\ MaxOpens \in Nat
    /\ DiskFaults \in BOOLEAN

\* An entry: its payload and its expiry, and, for the properties, the tick at
\* which Put read the clock and the TTL it applied.
Entry == [payload : Nat, expiry : Nat, at : Nat, ttl : Nat]

ASSUME NilAssumption == Nil \notin Entry /\ Malformed \notin Entry /\ Nil # Malformed

VARIABLES
    now,     \* the clock, in ticks
    phase,   \* "closed", "sweep" while openCache runs, "open"
    ttl,     \* cache.ttl of the process that has the file open
    opened,  \* SweepExpired's reading of the clock, in seconds
    swept,   \* history: whether that sweep has cleaned the file
    file,    \* the bucket
    pc, key, \* what each goroutine does, and with which key
    start,   \* the tick at which its Get began
    toPut,   \* the entry its Put has made
    got,     \* what its last Get returned: Nil for a miss
    puts, opens

vars == <<now, phase, ttl, opened, swept, file, pc, key, start, toPut, got, puts, opens>>
process == <<phase, ttl, opened, swept, opens>>

-----------------------------------------------------------------------------
Unix(tick) == tick \div TicksPerSecond

\* The setting is taken as it is.
EffectiveTTL_Bug(setting) == setting

\* openCache: a TTL that is not positive means the default.
EffectiveTTL(setting) == IF setting <= 0 THEN DefaultTTL ELSE setting

\* Rounded up to whole seconds (see the note on ..._Bug definitions in
\* QueryEngine).
Expiry_Bug(tick, life) == Unix(tick + life + TicksPerSecond)

\* Put: the second at which an entry made now expires.
Expiry(tick, life) == Unix(tick + life)

\* Expired from the last second of its life on.
Expired_Bug(e, second) == second >= e.expiry

Expired(e, second) == second > e.expiry

\* An entry Get can return.
Usable(e, second) == e \notin {Nil, Malformed} /\ ~Expired(e, second)

\* SweepExpired leaves alone the entries that are too short to carry an expiry.
Dropped_Bug(e, second) == e \notin {Nil, Malformed} /\ Expired(e, second)

\* What SweepExpired deletes.
Dropped(e, second) == e # Nil /\ ~Usable(e, second)

\* An Update transaction: it takes effect as a whole, or fails and has none.
Update(entries) == file' = entries \/ (DiskFaults /\ file' = file)
Delete(k) == Update([file EXCEPT ![k] = Nil])

Init ==
    /\ now = 0 /\ phase = "closed" /\ ttl = DefaultTTL /\ opened = 0 /\ swept = FALSE
    /\ file \in [Keys -> {Nil, Malformed}]
    /\ pc = [g \in Goroutines |-> "idle"]
    /\ key \in [Goroutines -> Keys]
    /\ start = [g \in Goroutines |-> 0]
    /\ toPut = [g \in Goroutines |-> Nil]
    /\ got = [g \in Goroutines |-> Nil]
    /\ puts = 0 /\ opens = 0

-----------------------------------------------------------------------------
Tick ==
    /\ now < MaxTime
    /\ now' = now + 1
    /\ UNCHANGED <<process, file, pc, key, start, toPut, got, puts>>

\* openCache up to its call of SweepExpired, which reads the clock first.
Open(setting) ==
    /\ phase = "closed" /\ opens < MaxOpens
    /\ phase' = "sweep"
    /\ ttl' = EffectiveTTL(setting)
    /\ opened' = Unix(now)
    /\ swept' = FALSE
    /\ opens' = opens + 1
    /\ UNCHANGED <<now, file, pc, key, start, toPut, got, puts>>

\* SweepExpired's transaction; openCache goes on if it fails.
Sweep ==
    /\ phase = "sweep"
    /\ LET clean == [k \in Keys |-> IF Dropped(file[k], opened) THEN Nil ELSE file[k]]
       IN  Update(clean) /\ swept' = (file' = clean)
    /\ phase' = "open"
    /\ UNCHANGED <<now, ttl, opened, opens, pc, key, start, toPut, got, puts>>

\* The process closes the cache, or dies, whatever its goroutines are doing.
Stop ==
    /\ phase # "closed"
    /\ phase' = "closed"
    /\ pc' = [g \in Goroutines |-> "idle"]
    /\ got' = [g \in Goroutines |-> Nil]
    /\ toPut' = [g \in Goroutines |-> Nil]
    /\ UNCHANGED <<now, ttl, opened, swept, opens, file, key, start, puts>>

\* Get reads the clock ...
StartGet(g, k) ==
    /\ phase = "open" /\ pc[g] = "idle"
    /\ pc' = [pc EXCEPT ![g] = "view"]
    /\ key' = [key EXCEPT ![g] = k]
    /\ start' = [start EXCEPT ![g] = now]
    /\ got' = [got EXCEPT ![g] = Nil]
    /\ UNCHANGED <<now, process, file, toPut, puts>>

\* ... looks the key up in a View transaction, and returns what it finds ...
Hit(g) ==
    /\ pc[g] = "view"
    /\ Usable(file[key[g]], Unix(start[g]))
    /\ got' = [got EXCEPT ![g] = file[key[g]]]
    /\ pc' = [pc EXCEPT ![g] = "idle"]
    /\ UNCHANGED <<now, process, file, key, start, toPut, puts>>

Miss(g) ==
    /\ pc[g] = "view"
    /\ ~Usable(file[key[g]], Unix(start[g]))
    /\ pc' = [pc EXCEPT ![g] = "evict"]
    /\ UNCHANGED <<now, process, file, key, start, toPut, got, puts>>

\* ... or, after a miss of any kind, deletes the key in an Update.
Evict(g) ==
    /\ pc[g] = "evict"
    /\ Delete(key[g])
    /\ pc' = [pc EXCEPT ![g] = "idle"]
    /\ UNCHANGED <<now, process, key, start, toPut, got, puts>>

\* Put works out the expiry and the bytes ...
StartPut(g, k) ==
    /\ phase = "open" /\ pc[g] = "idle" /\ puts < MaxPuts
    /\ puts' = puts + 1
    /\ toPut' = [toPut EXCEPT ![g] =
                   [payload |-> puts + 1, expiry |-> Expiry(now, ttl), at |-> now, ttl |-> ttl]]
    /\ pc' = [pc EXCEPT ![g] = "put"]
    /\ key' = [key EXCEPT ![g] = k]
    /\ UNCHANGED <<now, process, file, start, got>>

\* ... and writes them in an Update, over whatever is there.
CommitPut(g) ==
    /\ pc[g] = "put"
    /\ Update([file EXCEPT ![key[g]] = toPut[g]])
    /\ toPut' = [toPut EXCEPT ![g] = Nil]
    /\ pc' = [pc EXCEPT ![g] = "idle"]
    /\ UNCHANGED <<now, process, key, start, got, puts>>

DeleteKey(g, k) ==
    /\ phase = "open" /\ pc[g] = "idle"
    /\ Delete(k)
    /\ UNCHANGED <<now, process, pc, key, start, toPut, got, puts>>

Next ==
    \/ Tick \/ Sweep \/ Stop
    \/ \E setting \in TTLs : Open(setting)
    \/ \E g \in Goroutines, k \in Keys : StartGet(g, k) \/ StartPut(g, k) \/ DeleteKey(g, k)
    \/ \E g \in Goroutines : Hit(g) \/ Miss(g) \/ Evict(g) \/ CommitPut(g)

Spec == Init /\ [][Next]_vars

-----------------------------------------------------------------------------
TypeOK ==
    /\ now \in Nat /\ puts \in Nat /\ opens \in Nat /\ opened \in Nat
    /\ ttl \in Nat \ {0} /\ swept \in BOOLEAN
    /\ phase \in {"closed", "sweep", "open"}
    /\ file \in [Keys -> Entry \cup {Nil, Malformed}]
    /\ pc \in [Goroutines -> {"idle", "view", "evict", "put"}]
    /\ key \in [Goroutines -> Keys]
    /\ start \in [Goroutines -> Nat]
    /\ toPut \in [Goroutines -> Entry \cup {Nil}]
    /\ got \in [Goroutines -> Entry \cup {Nil}]

\* A price is never served past its life: when a Get that hits began, less than
\* one second more than the TTL had gone by since the payload was written,
\* whatever TTL the reading process was given and however long the transactions
\* of Get and Put had to wait (Get, Put).
HitIsInDate ==
    \A g \in Goroutines :
        got[g] # Nil => start[g] - got[g].at < got[g].ttl + TicksPerSecond

\* A price is never refetched before its time: a Get takes an entry for expired
\* only if it had outlived its whole TTL, fractions of a second included, when
\* the Get began (Get, Put).
NoEarlyExpiry ==
    [][\A g \in Goroutines :
         /\ pc[g] = "view" /\ pc'[g] = "evict"
         /\ file[key[g]] \notin {Nil, Malformed}
         => start[g] - file[key[g]].at > file[key[g]].ttl]_vars

\* Opening the cache reclaims everything that had expired or was malformed, and
\* nothing of the kind can come back while the process runs, whatever writes
\* fail; only a sweep that fails itself leaves it there (openCache, SweepExpired).
CleanSinceOpen ==
    phase = "open" /\ swept =>
        \A k \in Keys : \/ file[k] = Nil
                        \/ file[k] # Malformed /\ opened <= file[k].expiry

=============================================================================
