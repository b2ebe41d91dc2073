--------------------------- MODULE ArchiveCache ---------------------------
(***************************************************************************)
(* The cache of archive listings (services/cache_service.py) and the       *)
(* requests that browse an archive through it (api/browse.py and           *)
(* api/v2/archives.py).  A listing is kept raw, and as the pages that were *)
(* made of it for the directories that were looked at, in Redis or, when   *)
(* Redis has failed too often, in a bounded memory of the process whose    *)
(* oldest entries make room for new ones.                                  *)
(***************************************************************************)
EXTENDS Integers, SequencesExt

CONSTANTS Archives, Requests, Repos,
          Pages,                \* <<archive, directory>>: what is browsed
          RepoOf,               \* the repository an archive is in
          RawSizes, PageSize,   \* what a listing and a page may take
          MaxSize,              \* max_size_bytes
          TTL, MaxTime,
          MaxRedisFailures,     \* _max_redis_failures
          MaxOutages,           \* bounds how often Redis goes down
          MaxUncounted,         \* bounds how far below zero the counted size is followed
          Idle

ASSUME ArchiveCacheAssumption ==
    /\ RepoOf \in [Archives -> Repos]
    /\ \A k \in Pages : k = <<k[1], k[2]>> /\ k[1] \in Archives /\ k[2] # "raw"
    /\ RawSizes \subseteq Nat \ {0} /\ PageSize \in Nat \ {0}
    /\ {MaxSize, TTL, MaxTime, MaxRedisFailures, MaxOutages, MaxUncounted} \subseteq Nat

VARIABLES cache,    \* the service: its memory, its Redis and which is in use
          redisUp,  \* Redis answers
          known,    \* what the last health check found
          req,      \* request -> the page for which it waits for a listing
          now, outages,
          age       \* how old what the last step answered was, if it answered
cacheVars == <<cache, redisUp, known, req, now, outages, age>>

Keys == Pages \cup (Archives \X {"raw"})
Raw(k) == <<k[1], "raw">>
Entry == [key: Keys, size: RawSizes \cup {PageSize},
          since: 0..MaxTime,             \* when borg listed it
          till: 0..(MaxTime + TTL)]

\* The size that is counted may fall below zero.
CacheTypeOK ==
    /\ cache \in [lru: Seq(Entry), size: Int, store: SUBSET Entry,
                  fails: 0..MaxRedisFailures, current: {"redis", "memory"}, lost: BOOLEAN]
    /\ redisUp \in BOOLEAN /\ known \in BOOLEAN
    /\ req \in [Requests -> Pages \cup {Idle}]
    /\ now \in 0..MaxTime /\ outages \in 0..MaxOutages /\ age \in Nat

Empty(c) == [c EXCEPT !.lru = <<>>, !.size = 0, !.lost = FALSE]
Connected(c) == [c EXCEPT !.current = IF redisUp THEN "redis" ELSE "memory"]

CacheInit ==
    /\ redisUp \in BOOLEAN /\ known = FALSE
    /\ cache = [lru |-> <<>>, size |-> 0, store |-> {}, fails |-> 0, lost |-> FALSE,
                current |-> IF redisUp THEN "redis" ELSE "memory"]
    /\ req = [r \in Requests |-> Idle]
    /\ now = 0 /\ outages = 0 /\ age = 0

(***************************************************************************)
(* The memory: a sequence whose head is the oldest entry.                  *)
(***************************************************************************)
\* The entries of s that are in `kept`, in their order.  Like the size below this is a
\* recursive function, and no operator of another module, so that it can be reasoned about.
Only(s, kept) ==
    LET these[i \in 0..Len(s)] ==
            IF i = 0 THEN <<>>
            ELSE IF s[i] \in kept THEN Append(these[i - 1], s[i]) ELSE these[i - 1]
    IN these[Len(s)]

\* What those of them take that are in `counted`.
SizeIn(s, counted) ==
    LET sum[i \in 0..Len(s)] ==
            IF i = 0 THEN 0
            ELSE IF s[i] \in counted THEN sum[i - 1] + s[i].size ELSE sum[i - 1]
    IN sum[Len(s)]

SizeOf(s) == SizeIn(s, ToSet(s))
Of(s, k) == {e \in ToSet(s) : e.key = k}
Without(s, k) == Only(s, ToSet(s) \ Of(s, k))

\* The entries in `gone` are deleted, each with its size.
Drop(c, gone) ==
    [c EXCEPT !.lru = Only(c.lru, ToSet(c.lru) \ gone),
              !.size = c.size - SizeIn(c.lru, gone)]

\* Mutant: expired entries stay.
KeepExpired(c) == ToSet(c.lru)

Unexpired(c) == {e \in ToSet(c.lru) : now <= e.till}

\* Entries past their time are deleted before each read.
Expire(c) == Drop(c, ToSet(c.lru) \ Unexpired(c))

\* An entry that is read becomes the newest.
Touch(c, k) == [c EXCEPT !.lru = Without(c.lru, k) \o Only(c.lru, Of(c.lru, k))]

\* How many entries are evicted before `size` more fit into what is counted.
Evicted(c, counted, size) ==
    CHOOSE n \in 0..Len(c.lru) :
       /\ \/ n = Len(c.lru)
          \/ counted - SizeOf(SubSeq(c.lru, 1, n)) + size <= MaxSize
       /\ \A i \in 0..(n - 1) :
             counted - SizeOf(SubSeq(c.lru, 1, i)) + size > MaxSize

\* Mutant: the size of the entry that is replaced stays counted.
PutUncounted(c, e) ==
    LET n == Evicted(c, c.size, e.size)
        left == [c EXCEPT !.lru = SubSeq(c.lru, n + 1, Len(c.lru)),
                          !.size = c.size - SizeOf(SubSeq(c.lru, 1, n)),
                          !.lost = c.lost \/ (n > 0 /\ Of(c.lru, e.key) # {})]
    IN IF e.size > MaxSize THEN left
       ELSE [left EXCEPT !.lru = Append(Without(left.lru, e.key), e),
                        !.size = left.size + e.size]

\* The size of an entry that is replaced is taken off first; if it is then
\* evicted to make room, it is taken off again.
Put(c, e) ==
    LET counted == c.size - SizeIn(c.lru, Of(c.lru, e.key))
        n == Evicted(c, counted, e.size)
        left == [c EXCEPT !.lru = SubSeq(c.lru, n + 1, Len(c.lru)),
                          !.size = counted - SizeOf(SubSeq(c.lru, 1, n)),
                          !.lost = c.lost \/ (n > 0 /\ Of(c.lru, e.key) # {})]
    IN IF e.size > MaxSize THEN left
       ELSE [left EXCEPT !.lru = Append(Without(left.lru, e.key), e),
                        !.size = left.size + e.size]

(***************************************************************************)
(* Redis.  A health check is good for a while: until the next one Redis is *)
(* not asked when it was down, and asked in vain when it was up.           *)
(***************************************************************************)
Live(c) == {e \in c.store : now < e.till}

RedisDoes(ok) ==
    /\ ok => redisUp
    /\ ~ok => ~(redisUp /\ known)
    /\ known' \in IF ok THEN {TRUE} ELSE {known, FALSE}

\* The backend in use answers (ok) or, if it is Redis, does not.
Backend(ok) ==
    IF cache.current = "redis" THEN RedisDoes(ok) ELSE ok /\ known' = known

Found(c, k, ok) ==
    IF c.current = "memory" THEN {e \in Unexpired(c) : e.key = k}
    ELSE IF ok THEN {e \in Live(c) : e.key = k} ELSE {}

\* The cache after a read, which was a hit or a miss.
Read(c, k, ok) ==
    IF c.current = "memory" THEN Touch(Expire(c), k)
    ELSE IF Found(c, k, ok) # {} THEN [c EXCEPT !.fails = 0] ELSE c

\* Only whether the failures reached the limit matters: they are not counted
\* beyond it.
Failed(c) ==
    IF c.fails + 1 >= MaxRedisFailures
    THEN [c EXCEPT !.fails = MaxRedisFailures, !.current = "memory"]
    ELSE [c EXCEPT !.fails = @ + 1]

Set(c, e, ok) ==
    IF c.current = "memory" THEN Put(c, e)
    ELSE IF ok THEN [c EXCEPT !.store = {f \in @ : f.key # e.key} \cup {e}, !.fails = 0]
    ELSE Failed(c)

(***************************************************************************)
(* Browsing.                                                               *)
(***************************************************************************)
Followed == cache'.size >= -MaxUncounted

NewEntry(k, size, since) ==
    [key |-> k, size |-> size, since |-> since, till |-> now + TTL]

\* The page is there.
BrowsePage(k) ==
    /\ \E ok \in BOOLEAN : Backend(ok) /\
          \E e \in Found(cache, k, ok) :
             /\ cache' = Read(cache, k, ok)
             /\ age' = now - e.since
    /\ UNCHANGED <<redisUp, req, now, outages>>

\* The page is made of the raw listing that is there, and kept.
BrowseRaw(k) ==
    /\ \E ok \in BOOLEAN : Backend(ok) /\
          \E e \in Found(cache, Raw(k), ok) :
             /\ Found(cache, k, ok) = {}
             /\ cache' = Set(Read(cache, Raw(k), ok), NewEntry(k, PageSize, e.since), ok)
             /\ Followed
             /\ age' = now - e.since
    /\ UNCHANGED <<redisUp, req, now, outages>>

\* Neither is there: the request waits for borg.
StartListing(r, k) ==
    /\ req[r] = Idle
    /\ \E ok \in BOOLEAN : Backend(ok) /\
          /\ Found(cache, k, ok) \cup Found(cache, Raw(k), ok) = {}
          /\ cache' = Read(Read(cache, k, ok), Raw(k), ok)
    /\ req' = [req EXCEPT ![r] = k]
    /\ UNCHANGED <<redisUp, now, outages>>
    /\ age' = 0

\* Borg listed the archive: the listing is kept, then the page.
Listed(r) ==
    /\ req[r] # Idle
    /\ \E ok \in BOOLEAN, size \in RawSizes :
          /\ Backend(ok)
          /\ cache' = Set(Set(cache, NewEntry(Raw(req[r]), size, now), ok),
                          NewEntry(req[r], PageSize, now), ok)
          /\ Followed
    /\ req' = [req EXCEPT ![r] = Idle] /\ age' = 0
    /\ UNCHANGED <<redisUp, now, outages>>

\* Only the page is kept: by fast browsing, and when borg failed for a Borg 1
\* archive, whose empty page is taken for the listing.
ListedPage(r) ==
    /\ req[r] # Idle
    /\ \E ok \in BOOLEAN :
          /\ Backend(ok)
          /\ cache' = Set(cache, NewEntry(req[r], PageSize, now), ok)
          /\ Followed
    /\ req' = [req EXCEPT ![r] = Idle] /\ age' = 0
    /\ UNCHANGED <<redisUp, now, outages>>

\* Borg failed for a Borg 2 archive, or the listing is refused as too large.
ListingRefused(r) ==
    /\ req[r] # Idle
    /\ req' = [req EXCEPT ![r] = Idle]
    /\ UNCHANGED <<cache, redisUp, known, now, outages>>
    /\ age' = 0

(***************************************************************************)
(* Clearing, settings and the world.                                       *)
(***************************************************************************)
ClearRepository(p) ==
    /\ \E ok \in BOOLEAN : Backend(ok) /\
          cache' = IF cache.current = "memory"
                   THEN Drop(Expire(cache), {e \in ToSet(cache.lru) : RepoOf[e.key[1]] = p})
                   ELSE IF ok THEN [cache EXCEPT !.store = {e \in @ : RepoOf[e.key[1]] # p}]
                   ELSE cache
    /\ UNCHANGED <<redisUp, req, now, outages>>
    /\ age' = 0

ClearAll ==
    /\ \E ok \in BOOLEAN : Backend(ok) /\
          cache' = IF cache.current = "memory" THEN Empty(cache)
                   ELSE IF ok THEN [cache EXCEPT !.store = {}] ELSE cache
    /\ UNCHANGED <<redisUp, req, now, outages>>
    /\ age' = 0

Stats ==
    /\ cache.current = "memory"
    /\ cache' = Expire(cache)
    /\ UNCHANGED <<redisUp, known, req, now, outages>>
    /\ age' = 0

\* New settings: an empty memory, and Redis if it answers.  The failures that
\* were counted stay counted.
Reconfigure ==
    /\ cache' = Connected(Empty(cache))
    /\ known' = FALSE
    /\ UNCHANGED <<redisUp, req, now, outages>>
    /\ age' = 0

Restart ==
    /\ cache' = [Connected(Empty(cache)) EXCEPT !.fails = 0]
    /\ known' = FALSE
    /\ req' = [r \in Requests |-> Idle]
    /\ UNCHANGED <<redisUp, now, outages>>
    /\ age' = 0

RedisDown ==
    /\ redisUp /\ outages < MaxOutages /\ outages' = outages + 1
    /\ redisUp' = FALSE
    /\ UNCHANGED <<cache, known, req, now>>
    /\ age' = 0

RedisUp ==
    /\ ~redisUp /\ redisUp' = TRUE
    /\ UNCHANGED <<cache, known, req, now, outages>>
    /\ age' = 0

Tick ==
    /\ now < MaxTime /\ now' = now + 1
    /\ cache' = [cache EXCEPT !.store = {e \in @ : now' < e.till}]
    /\ UNCHANGED <<redisUp, known, req, outages>>
    /\ age' = 0

CacheNext ==
    \/ \E k \in Pages :
          BrowsePage(k) \/ BrowseRaw(k) \/ \E r \in Requests : StartListing(r, k)
    \/ \E r \in Requests : Listed(r) \/ ListedPage(r) \/ ListingRefused(r)
    \/ \E p \in Repos : ClearRepository(p)
    \/ ClearAll \/ Stats \/ Reconfigure \/ Restart
    \/ RedisDown \/ RedisUp \/ Tick

CacheSpec == CacheInit /\ [][CacheNext]_cacheVars

-----------------------------------------------------------------------------
(***************************************************************************)
(* Safety.                                                                 *)
(***************************************************************************)
\* The size the memory counts is what its entries take, so that it stays
\* within max_size_bytes; after an eviction that made room for a key that was
\* still there it may count less, never more: an entry is not evicted, nor a
\* listing refused, for bytes that are no longer held.
SizeIsTrue ==
    /\ cache.size <= SizeOf(cache.lru)
    /\ ~cache.lost => cache.size = SizeOf(cache.lru) /\ cache.size <= MaxSize

\* No answer is older than twice the time to live: a page that was made of a
\* raw listing is kept as long as if borg had just listed it, but no page is
\* made of a page, and what was kept elsewhere while the backend changed has
\* expired as well.
AnswersAreFresh == age <= 2 * TTL
===========================================================================
