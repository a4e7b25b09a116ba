-------------------------- MODULE PriceCacheProofs --------------------------
(***************************************************************************)
(* What holds of the price cache for any number of goroutines and keys,    *)
(* any TTLs, any resolution of the clock and any failures of the disk,     *)
(* checked by TLAPS.                                                       *)
(***************************************************************************)
EXTENDS PriceCache, TLAPS

(***************************************************************************)
(* Seconds.  The cache compares Unix seconds, which drop the fraction of a *)
(* tick count; everything it promises about time rests on how much they    *)
(* drop.                                                                   *)
(***************************************************************************)

\* The clock counts whole seconds.
LEMMA UnixType == \A t \in Nat : Unix(t) \in Nat
  BY TimeAssumption, SMT DEF Unix

\* A second has begun, and it has not ended.
LEMMA UnixBounds ==
    ASSUME NEW t \in Nat
    PROVE  /\ Unix(t) \in Nat
           /\ TicksPerSecond * Unix(t) <= t
           /\ t < TicksPerSecond * Unix(t) + TicksPerSecond
  BY TimeAssumption, SMT DEF Unix

\* A later tick is not in an earlier second.
LEMMA UnixMonotonic ==
    ASSUME NEW t \in Nat, NEW u \in Nat, t <= u
    PROVE  Unix(t) <= Unix(u)
<1>1. CASE Unix(u) + 1 <= Unix(t)
  <2>1. TicksPerSecond * (Unix(u) + 1) <= TicksPerSecond * Unix(t)
    BY <1>1, UnixBounds, TimeAssumption, SMT
  <2> QED
    BY <2>1, UnixBounds, TimeAssumption, SMT
<1> QED
  BY <1>1, UnixBounds, SMT

\* A tick that is no later second than another is less than a second after it.
LEMMA WithinASecond ==
    ASSUME NEW t \in Nat, NEW u \in Nat, Unix(t) <= Unix(u)
    PROVE  t < u + TicksPerSecond
<1>1. TicksPerSecond * Unix(t) <= TicksPerSecond * Unix(u)
  BY UnixBounds, TimeAssumption, SMT
<1> QED
  BY <1>1, UnixBounds, TimeAssumption, SMT

\* A TTL that is applied is positive.
LEMMA EffectiveTTLType ==
    \A setting \in TTLs : EffectiveTTL(setting) \in Nat \ {0}
  BY TimeAssumption DEF EffectiveTTL

(***************************************************************************)
(* The inductive invariant.  An entry carries the second at which its TTL  *)
(* ends (Dated), and an entry that is still to be written was made since   *)
(* the file was opened (SinceOpen): that is why a commit, however late,    *)
(* brings nothing expired back into a clean file.                          *)
(***************************************************************************)
Entries ==
    {file[k] : k \in Keys} \cup {toPut[g] : g \in Goroutines} \cup {got[g] : g \in Goroutines}

Dated == \A e \in Entries : e \in Entry => e.expiry = Expiry(e.at, e.ttl)

SinceOpen ==
    /\ phase # "closed" => opened <= Unix(now)
    /\ \A g \in Goroutines :
         /\ pc[g] # "idle" => phase = "open"
         /\ pc[g] = "put" <=> toPut[g] # Nil
         /\ toPut[g] # Nil => opened <= toPut[g].expiry

HitInTime ==
    \A g \in Goroutines : got[g] # Nil => Unix(start[g]) <= got[g].expiry

CacheInv == TypeOK /\ Dated /\ SinceOpen /\ HitInTime /\ CleanSinceOpen

\* The first process finds a file with nothing in it but malformed entries.
LEMMA InitCacheInv == Init => CacheInv
<1> SUFFICES ASSUME Init PROVE CacheInv
  OBVIOUS
<1> USE TimeAssumption, NilAssumption DEF Init
<1>1. TypeOK
  BY DEF TypeOK
<1>2. Dated
  BY DEF Dated, Entries
<1>3. SinceOpen /\ HitInTime /\ CleanSinceOpen
  BY DEF SinceOpen, HitInTime, CleanSinceOpen
<1> QED
  BY <1>1, <1>2, <1>3 DEF CacheInv

\* No step of the cache breaks the invariant, one case per action.
LEMMA NextCacheInv == CacheInv /\ [Next]_vars => CacheInv'
<1> SUFFICES ASSUME CacheInv, [Next]_vars PROVE CacheInv'
  OBVIOUS
<1> USE NilAssumption, TimeAssumption DEF CacheInv, process
<1>1. ASSUME Tick PROVE CacheInv'
  <2>1. Unix(now) <= Unix(now')
    BY <1>1, UnixMonotonic DEF Tick, TypeOK
  <2>2. Unix(now) \in Nat /\ Unix(now') \in Nat
    BY <1>1, UnixType DEF Tick, TypeOK
  <2>3. TypeOK'
    BY <1>1 DEF Tick, TypeOK
  <2>4. SinceOpen'
    BY <1>1, <2>1, <2>2 DEF Tick, TypeOK, SinceOpen
  <2> QED
    BY <1>1, <2>3, <2>4 DEF Tick, Dated, Entries, HitInTime, CleanSinceOpen
<1>2. ASSUME NEW setting \in TTLs, Open(setting) PROVE CacheInv'
  <2>1. Unix(now) \in Nat
    BY UnixType DEF TypeOK
  <2>2. TypeOK'
    <3>1. opens' \in Nat
      BY <1>2 DEF Open, TypeOK
    <3>2. ttl' \in Nat \ {0}
      BY <1>2, EffectiveTTLType DEF Open
    <3> QED
      BY <1>2, <2>1, <3>1, <3>2 DEF Open, TypeOK
  <2>3. /\ phase = "closed" /\ now' = now /\ opened' = Unix(now)
        /\ UNCHANGED <<pc, toPut>>
    BY <1>2 DEF Open
  <2>4. \A g \in Goroutines : pc[g] = "idle" /\ toPut[g] = Nil
    BY <2>3 DEF SinceOpen
  <2>5. SinceOpen'
    BY <2>1, <2>3, <2>4 DEF SinceOpen
  <2> QED
    BY <1>2, <2>2, <2>5 DEF Open, Dated, Entries, HitInTime, CleanSinceOpen
<1>3. ASSUME Sweep PROVE CacheInv'
  <2> DEFINE clean == [k \in Keys |-> IF Dropped(file[k], opened) THEN Nil ELSE file[k]]
  <2>1. /\ phase = "sweep" /\ phase' = "open"
        /\ file' = clean \/ file' = file
        /\ swept' = (file' = clean)
        /\ UNCHANGED <<now, ttl, opened, opens, pc, key, start, toPut, got, puts>>
    BY <1>3 DEF Sweep, Update
  <2>2. \A k \in Keys : clean[k] \in {file[k], Nil}
    OBVIOUS
  <2>3. TypeOK'
    BY <2>1, <2>2 DEF TypeOK
  <2>4. Dated'
    BY <2>1, <2>2 DEF Dated, Entries
  <2>5. SinceOpen' /\ HitInTime'
    BY <2>1 DEF SinceOpen, HitInTime
  <2>6. ASSUME NEW k \in Keys, clean[k] # Nil
        PROVE  clean[k] # Malformed /\ opened <= clean[k].expiry
    BY <2>6 DEF Dropped, Usable, Expired, TypeOK, Entry
  <2>7. CleanSinceOpen'
    BY <2>1, <2>6 DEF CleanSinceOpen
  <2> QED
    BY <2>3, <2>4, <2>5, <2>7
<1>4. ASSUME Stop PROVE CacheInv'
  BY <1>4 DEF Stop, TypeOK, Dated, Entries, SinceOpen, HitInTime, CleanSinceOpen
<1>5. ASSUME NEW g \in Goroutines, NEW k \in Keys, StartGet(g, k) PROVE CacheInv'
  BY <1>5 DEF StartGet, TypeOK, Dated, Entries, SinceOpen, HitInTime, CleanSinceOpen
<1>6. ASSUME NEW g \in Goroutines, NEW k \in Keys, StartPut(g, k) PROVE CacheInv'
  <2> DEFINE e == [payload |-> puts + 1, expiry |-> Expiry(now, ttl), at |-> now, ttl |-> ttl]
  <2>1. e \in Entry /\ e.expiry = Expiry(e.at, e.ttl)
    BY UnixType DEF TypeOK, Entry, Expiry
  <2>2. opened <= e.expiry
    BY <1>6, UnixMonotonic, UnixType DEF StartPut, TypeOK, SinceOpen, Expiry
  <2>3. /\ toPut' = [toPut EXCEPT ![g] = e]
        /\ phase = "open" /\ pc[g] = "idle"
        /\ puts' = puts + 1
        /\ pc' = [pc EXCEPT ![g] = "put"]
        /\ key' = [key EXCEPT ![g] = k]
        /\ UNCHANGED <<now, process, file, start, got>>
    BY <1>6 DEF StartPut
  <2> HIDE DEF e
  <2> QED
    BY <2>1, <2>2, <2>3
       DEF TypeOK, Dated, Entries, SinceOpen, HitInTime, CleanSinceOpen
<1>7. ASSUME NEW g \in Goroutines, NEW k \in Keys, DeleteKey(g, k) PROVE CacheInv'
  BY <1>7 DEF DeleteKey, Delete, Update,
              TypeOK, Dated, Entries, SinceOpen, HitInTime, CleanSinceOpen
<1>8. ASSUME NEW g \in Goroutines, Hit(g) PROVE CacheInv'
  BY <1>8, UnixType DEF Hit, Usable, Expired, Entry,
              TypeOK, Dated, Entries, SinceOpen, HitInTime, CleanSinceOpen
<1>9. ASSUME NEW g \in Goroutines, Miss(g) PROVE CacheInv'
  BY <1>9 DEF Miss, TypeOK, Dated, Entries, SinceOpen, HitInTime, CleanSinceOpen
<1>10. ASSUME NEW g \in Goroutines, Evict(g) PROVE CacheInv'
  BY <1>10 DEF Evict, Delete, Update,
              TypeOK, Dated, Entries, SinceOpen, HitInTime, CleanSinceOpen
<1>11. ASSUME NEW g \in Goroutines, CommitPut(g) PROVE CacheInv'
  BY <1>11 DEF CommitPut, Update,
              TypeOK, Dated, Entries, SinceOpen, HitInTime, CleanSinceOpen
<1>12. ASSUME UNCHANGED vars PROVE CacheInv'
  BY <1>12 DEF vars, TypeOK, Dated, Entries, SinceOpen, HitInTime, CleanSinceOpen
<1> QED
  BY <1>1, <1>2, <1>3, <1>4, <1>5, <1>6, <1>7, <1>8, <1>9, <1>10, <1>11, <1>12 DEF Next

\* The invariant holds in every reachable state.
LEMMA AlwaysCacheInv == Spec => []CacheInv
  BY InitCacheInv, NextCacheInv, PTL DEF Spec

\* Every variable of the cache keeps its type.
THEOREM CacheTypeCorrect == Spec => []TypeOK
  BY AlwaysCacheInv, PTL DEF CacheInv

\* A hit is never more than its TTL and a second old when its Get begins,
\* whatever the TTL of the reading process (Get, Put).
THEOREM NeverServedPastItsLife == Spec => []HitIsInDate
<1>1. CacheInv => HitIsInDate
  <2> SUFFICES ASSUME CacheInv, NEW g \in Goroutines, got[g] # Nil
               PROVE  start[g] - got[g].at < got[g].ttl + TicksPerSecond
    BY DEF HitIsInDate
  <2>1. /\ got[g] \in Entry
        /\ start[g] \in Nat /\ got[g].at \in Nat /\ got[g].ttl \in Nat
        /\ got[g].expiry = Unix(got[g].at + got[g].ttl)
    BY DEF CacheInv, TypeOK, Entry, Dated, Entries, Expiry
  <2>2. Unix(start[g]) <= Unix(got[g].at + got[g].ttl)
    BY <2>1 DEF CacheInv, HitInTime
  <2>3. start[g] < got[g].at + got[g].ttl + TicksPerSecond
    BY <2>1, <2>2, WithinASecond
  <2> QED
    BY <2>1, <2>3, TimeAssumption
<1> QED
  BY <1>1, AlwaysCacheInv, PTL

\* An entry is only ever taken for expired when it has outlived its whole TTL
\* (Get).
THEOREM NeverExpiredEarly == Spec => NoEarlyExpiry
<1>1. ASSUME CacheInv, [Next]_vars, NEW g \in Goroutines,
             pc[g] = "view", pc'[g] = "evict", file[key[g]] \notin {Nil, Malformed}
      PROVE  start[g] - file[key[g]].at > file[key[g]].ttl
  <2> DEFINE e == file[key[g]]
  <2>1. /\ key[g] \in Keys /\ e \in Entry
        /\ start[g] \in Nat /\ e.at \in Nat /\ e.ttl \in Nat
        /\ e.expiry = Unix(e.at + e.ttl)
    BY <1>1 DEF CacheInv, TypeOK, Entry, Dated, Entries, Expiry
  <2>2. ~Usable(e, Unix(start[g]))
    BY <1>1 DEF CacheInv, TypeOK, Next, vars, process, Tick, Open, Sweep, Stop, StartGet,
                StartPut, DeleteKey, Hit, Miss, Evict, CommitPut
  <2>3. Unix(start[g]) > Unix(e.at + e.ttl)
    BY <1>1, <2>1, <2>2 DEF Usable, Expired
  <2>4. ~(start[g] <= e.at + e.ttl)
    BY <2>1, <2>3, UnixMonotonic, UnixType
  <2> QED
    BY <2>1, <2>4
<1>2. CacheInv /\ [Next]_vars =>
        [\A g \in Goroutines :
           /\ pc[g] = "view" /\ pc'[g] = "evict"
           /\ file[key[g]] \notin {Nil, Malformed}
           => start[g] - file[key[g]].at > file[key[g]].ttl]_vars
  BY <1>1
<1> QED
  BY <1>2, AlwaysCacheInv, PTL DEF Spec, NoEarlyExpiry

\* A file that openCache has swept stays free of what it swept for as long as the
\* process runs (openCache, SweepExpired).
THEOREM SweptStaysClean == Spec => []CleanSinceOpen
  BY AlwaysCacheInv, PTL DEF CacheInv

=============================================================================
